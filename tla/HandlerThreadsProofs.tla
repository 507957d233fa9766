------------------------- MODULE HandlerThreadsProofs -------------------------
(***************************************************************************)
(* A handler that is stopped is not called back by the threads that it     *)
(* left, however many handlers are made one after the other; and a GUID    *)
(* checker's queries reach the NAT server, however many there are.         *)
(***************************************************************************)
EXTENDS HandlerThreads, TLAPS

Functions ==
    /\ life \in [Handler -> Lives]
    /\ current \in [Handler -> BOOLEAN]
    /\ ref \in [Handler -> BOOLEAN]
    /\ late \in [Handler -> BOOLEAN]

\* A forwarder that knows its handler is the one that the handler knows: so what
\* stopImpl lets go of is the only one there is.
RefIsCurrent == \A h \in Handler : ref[h] => current[h]

ForwardInv == Functions /\ RefIsCurrent /\ NoCallbackAfterStop

LEMMA ForwardInvInit == ForwardInit => ForwardInv
BY DEF ForwardInit, ForwardInv, Functions, RefIsCurrent, NoCallbackAfterStop, Lives

LEMMA MakeStep ==
    ASSUME ForwardInv, NEW h \in Handler, Make(h)
    PROVE  ForwardInv'
BY DEF ForwardInv, Functions, RefIsCurrent, NoCallbackAfterStop, Lives, Make, Set

\* Letting go of the current forwarder leaves no reference to the handler.
LEMMA DetachStep ==
    ASSUME ForwardInv, NEW h \in Handler, Detach(h)
    PROVE  ForwardInv'
<1>1. /\ life' = [life EXCEPT ![h] = "detached"]
      /\ current' = [current EXCEPT ![h] = FALSE]
      /\ ref' = [ref EXCEPT ![h] = ref[h] /\ ~current[h]]
      /\ late' = late
  BY DEF Detach, Set
<1>2. ~(ref[h] /\ ~current[h])
  BY DEF ForwardInv, RefIsCurrent
<1>3. ref' = [ref EXCEPT ![h] = FALSE]
  BY <1>1, <1>2
<1> QED
  BY <1>1, <1>3 DEF ForwardInv, Functions, RefIsCurrent, NoCallbackAfterStop, Lives

LEMMA StopStepKeeps ==
    ASSUME ForwardInv, NEW h \in Handler,
           RemoveForwarding(h) \/ Shutdown(h) \/ Destroy(h)
    PROVE  ForwardInv'
<1>1. CASE RemoveForwarding(h)
  BY <1>1 DEF ForwardInv, Functions, RefIsCurrent, NoCallbackAfterStop, Lives, RemoveForwarding, Set
<1>2. CASE Shutdown(h)
  BY <1>2 DEF ForwardInv, Functions, RefIsCurrent, NoCallbackAfterStop, Lives, Shutdown, Set
<1>3. CASE Destroy(h)
  BY <1>3 DEF ForwardInv, Functions, RefIsCurrent, NoCallbackAfterStop, Lives, Destroy, Set,
              routerVars
<1> QED
  BY <1>1, <1>2, <1>3

LEMMA BeginStep ==
    ASSUME ForwardInv, NEW h \in Handler, BeginForwarding(h)
    PROVE  ForwardInv'
BY DEF ForwardInv, Functions, RefIsCurrent, NoCallbackAfterStop, BeginForwarding, Set

LEMMA DoStep ==
    ASSUME ForwardInv, NEW h \in Handler, DoPortForwardingAsync(h)
    PROVE  ForwardInv'
BY DEF ForwardInv, Functions, RefIsCurrent, NoCallbackAfterStop, DoPortForwardingAsync, Set

\* A forwarder that has called back, or found nobody to call, lets go of its handler.
LEMMA TellStep ==
    ASSUME ForwardInv, NEW h \in Handler, Tell(h)
    PROVE  ForwardInv'
<1>1. /\ current' = [current EXCEPT ![h] = current[h] /\ ~ref[h]]
      /\ ref' = [ref EXCEPT ![h] = FALSE]
      /\ life' = life /\ late' = late
  BY DEF Tell, Set
<1>2. current' \in [Handler -> BOOLEAN]
  BY <1>1 DEF ForwardInv, Functions
<1>3. \A g \in Handler : g # h => current'[g] = current[g] /\ ref'[g] = ref[g]
  BY <1>1 DEF ForwardInv, Functions
<1>4. ~ref'[h] /\ ref' \in [Handler -> BOOLEAN]
  BY <1>1 DEF ForwardInv, Functions
<1> QED
  BY <1>1, <1>2, <1>3, <1>4 DEF ForwardInv, Functions, RefIsCurrent, NoCallbackAfterStop

LEMMA ForwardStutters ==
    ASSUME ForwardInv, UNCHANGED <<life, current, ref, late>>
    PROVE  ForwardInv'
BY DEF ForwardInv, Functions, RefIsCurrent, NoCallbackAfterStop

LEMMA ForwardNextKeeps == ForwardInv /\ ForwardNext => ForwardInv'
<1> SUFFICES ASSUME ForwardInv, NEW h \in Handler,
                    Make(h) \/ StopStep(h) \/ Destroy(h) \/ BeginForwarding(h) \/ ThreadStep(h)
             PROVE  ForwardInv'
  BY DEF ForwardNext
<1>1. CASE Make(h)             BY <1>1, MakeStep
<1>2. CASE StopStep(h)         BY <1>2, DetachStep, StopStepKeeps DEF StopStep
<1>3. CASE Destroy(h)          BY <1>3, StopStepKeeps
<1>4. CASE BeginForwarding(h)  BY <1>4, BeginStep
<1>5. CASE ThreadStep(h)
  <2>1. CASE DoPortForwardingAsync(h) BY <2>1, DoStep
  <2>2. CASE Tell(h)                  BY <2>2, TellStep
  <2>3. CASE Forward(h) \/ AskRouter(h) \/ BeginRemoval(h) \/ EndRemoval(h)
    <3>1. UNCHANGED <<life, current, ref, late>>
      BY <2>3 DEF Forward, AskRouter, BeginRemoval, EndRemoval, handlerVars
    <3> QED  BY <3>1, ForwardStutters
  <2> QED  BY <1>5, <2>1, <2>2, <2>3 DEF ThreadStep
<1> QED  BY <1>1, <1>2, <1>3, <1>4, <1>5

-----------------------------------------------------------------------------
\* "Prevent port forwarding async operation from invoking a callback on this
\* instance" (ConnectionHandlerRakNet::stopImpl): for any number of handlers, no
\* thread reaches a handler that is being stopped, unless it was begun too late.
THEOREM StoppedHandlersAreLeftAlone == ThreadsSpec => []NoCallbackAfterStop
<1>1. ThreadsInit => ForwardInv
  BY ForwardInvInit DEF ThreadsInit
<1>2. ForwardInv /\ [ThreadsNext]_threadVars => ForwardInv'
  <2> SUFFICES ASSUME ForwardInv, [ThreadsNext]_threadVars PROVE ForwardInv'
    OBVIOUS
  <2>1. CASE ForwardNext
    BY <2>1, ForwardNextKeeps
  <2>2. CASE UNCHANGED forwardVars
    <3>1. UNCHANGED <<life, current, ref, late>>
      BY <2>2 DEF forwardVars, handlerVars
    <3> QED  BY <3>1, ForwardStutters
  <2> QED  BY <2>1, <2>2 DEF ThreadsNext, threadVars
<1>3. ForwardInv => NoCallbackAfterStop
  BY DEF ForwardInv
<1> QED  BY <1>1, <1>2, <1>3, PTL DEF ThreadsSpec

-----------------------------------------------------------------------------
\* The GUID checker.

\* How far a connection without a fault has come: the packet that announces it
\* arrives once, and when the port has to be forwarded first, it is closed for good.
Course ==
    /\ natLink = "connecting" => inbox = << >> /\ ~natConnected /\ ~announcing
    /\ natLink = "up" =>
          \/ inbox = << >>
          \/ inbox = <<Packet("Accepted")>> /\ ~natConnected /\ ~announcing
    /\ natLink \in {"closing", "down"} => ~natConnected /\ ~announcing
    /\ natLink = "closing" => inbox = << >>
    /\ natLink = "down" => inbox \in {<< >>, <<Packet("Disconnected")>>}
    /\ natLink \in {"connecting", "up"} => ~forwarding /\ ~forwarded
    /\ natLink \in {"closing", "down"} => forwarding
    /\ announcing => ~DoPortForwarding
    /\ natLink \in Links

\* What was asked early is in the buffer; the rest, but for what was asked while the
\* connection was announced, was sent.
Sent ==
    /\ early \subseteq pending
    /\ asked \ pending \subseteq received
    /\ natConnected \/ announcing => early \subseteq received

CheckerInv ==
    /\ budget \in 0 .. Budget
    /\ budget = Budget => Course /\ Sent

LEMMA CheckStep ==
    ASSUME Course, Sent, NEW q \in Queries, CheckIfGuidsValid(q)
    PROVE  Course' /\ Sent'
<1>1. Course'
  BY DEF Course, CheckIfGuidsValid, natVars
<1>2. CASE natConnected
  <2>1. received' = received \cup {q}
    BY <1>2 DEF Course, CheckIfGuidsValid, Send, Links
  <2> QED
    BY <1>1, <1>2, <2>1 DEF Sent, CheckIfGuidsValid, natVars
<1>3. CASE ~natConnected
  BY <1>1, <1>3 DEF Sent, CheckIfGuidsValid, natVars
<1> QED
  BY <1>2, <1>3

LEMMA AcceptedStep ==
    ASSUME Course, Sent, NatAccepted
    PROVE  Course' /\ Sent'
<1>1. /\ ~announcing /\ inbox = <<Packet("Accepted")>> /\ inbox' = << >>
      /\ natLink = "up" /\ ~natConnected /\ ~forwarding /\ ~forwarded
  BY DEF Course, NatAccepted, Receive, Packet, Links
<1>2. CASE ~DoPortForwarding
  <2>1. received' = received \cup pending /\ announcing' /\ UNCHANGED natVars
        /\ UNCHANGED <<pending, asked, early>>
    BY <1>1, <1>2 DEF NatAccepted, Announces, OnNatServerConnected, Send
  <2>2. Course'
    BY <1>1, <1>2, <2>1 DEF Course, natVars, Links
  <2> QED
    BY <2>1, <2>2 DEF Sent
<1>3. CASE DoPortForwarding
  <2>1. /\ forwarding' = TRUE /\ natLink' = "closing" /\ natConnected' = FALSE
        /\ UNCHANGED <<announcing, received, pending, asked, early>>
    BY <1>1, <1>3 DEF NatAccepted, Announces, OnNatConnected, AfterClose
  <2>2. Course'
    BY <1>1, <2>1 DEF Course, Links
  <2> QED
    BY <1>1, <2>1, <2>2 DEF Sent
<1> QED
  BY <1>2, <1>3

LEMMA PollStep ==
    ASSUME Course, Sent, Poll
    PROVE  Course' /\ Sent'
<1>1. CASE NatAccepted
  BY <1>1, AcceptedStep
<1>2. CASE NatAnnounced
  <2>1. /\ announcing /\ ~DoPortForwarding /\ natLink = "up" /\ natConnected' = TRUE
        /\ announcing' = FALSE
        /\ UNCHANGED <<inbox, natLink, forwarding, forwarded, pending, asked, early, received>>
    BY <1>2 DEF Course, NatAnnounced, OnNatConnected, Links
  <2>2. Course'
    BY <2>1 DEF Course, Links
  <2> QED
    BY <2>1, <2>2 DEF Sent
<1>3. CASE NatDisconnected
  <2>1. inbox # << >> /\ Head(inbox).type \in {"ConnectionLost", "Disconnected"}
        /\ inbox' = Tail(inbox)
    BY <1>3 DEF NatDisconnected, Receive
  <2>2. natLink \in {"closing", "down"} /\ forwarding /\ inbox' = << >>
    BY <2>1 DEF Course, Packet, Links
  <2>3. UNCHANGED natVars /\ UNCHANGED checkerVars
    BY <1>3, <2>2 DEF NatDisconnected, OnNatDisconnected
  <2> QED
    BY <2>2, <2>3 DEF Course, Sent, natVars, checkerVars
<1>4. CASE GuidTaken
  <2>1. inbox # << >> /\ Head(inbox).type = "AlreadyConnected"
    BY <1>4 DEF GuidTaken, Receive
  <2> QED
    BY <2>1 DEF Course, Packet, Links
<1>5. CASE EndOfPoll
  BY <1>5 DEF EndOfPoll, Course, Sent, natVars, checkerVars
<1> QED
  BY <1>1, <1>2, <1>3, <1>4, <1>5 DEF Poll

\* A step of the NAT server that is no fault.
LEMMA NatFaultlessStep ==
    ASSUME Course, Sent, UNCHANGED checkerVars,
           NatAccepts(Packet("Accepted")) \/ NatCloses(Packet("Disconnected"))
    PROVE  Course' /\ Sent'
<1>1. CASE NatAccepts(Packet("Accepted"))
  <2>1. /\ natLink = "connecting" /\ natLink' = "up" /\ inbox' = <<Packet("Accepted")>>
        /\ ~natConnected /\ ~announcing
    BY <1>1 DEF Course, NatAccepts, NatAnswers, Queue
  <2>2. UNCHANGED <<natConnected, forwarding, forwarded, announcing>>
    BY <1>1 DEF NatAccepts, NatUnchanged, checkerVars
  <2> QED
    BY <2>1, <2>2 DEF Course, Sent, checkerVars, Links
<1>2. CASE NatCloses(Packet("Disconnected"))
  <2>1. /\ natLink = "closing" /\ natLink' = "down" /\ ~natConnected /\ ~announcing
        /\ inbox' = <<Packet("Disconnected")>>
    BY <1>2 DEF Course, NatCloses, NatAnswers, Queue
  <2>2. UNCHANGED <<natConnected, forwarding, forwarded, announcing>>
    BY <1>2 DEF NatCloses, NatUnchanged, checkerVars
  <2>3. Sent'
    BY <2>1, <2>2 DEF Sent, checkerVars
  <2>4. forwarding'
    BY <2>1, <2>2 DEF Course
  <2> QED
    BY <2>1, <2>2, <2>3, <2>4 DEF Course, Links
<1> QED
  BY <1>1, <1>2

LEMMA CheckerNextKeeps == CheckerInv /\ [Next]_vars => CheckerInv'
<1> SUFFICES ASSUME CheckerInv, [Next]_vars PROVE CheckerInv'
  OBVIOUS
<1>1. CASE Spend
  BY <1>1, BudgetAssumption DEF CheckerInv, Spend
<1>2. CASE budget' = budget /\ budget # Budget
  BY <1>2 DEF CheckerInv
<1>3. CASE budget' = budget /\ budget = Budget
  <2>1. Course /\ Sent
    BY <1>3 DEF CheckerInv
  <2>2. CASE Poll
    BY <1>3, <2>1, <2>2, PollStep DEF CheckerInv
  <2>3. CASE \E q \in Queries : CheckIfGuidsValid(q)
    BY <1>3, <2>1, <2>3, CheckStep DEF CheckerInv
  <2>4. CASE UNCHANGED vars
    BY <1>3, <2>1, <2>4 DEF CheckerInv, Course, Sent, vars, natVars, checkerVars
  <2>5. CASE NatStep
    <3>1. ~Spend
      BY <1>3, BudgetAssumption DEF CheckerInv, Spend
    <3>2. /\ UNCHANGED checkerVars
          /\ NatAccepts(Packet("Accepted")) \/ NatCloses(Packet("Disconnected"))
      BY <2>5, <3>1 DEF NatStep
    <3> QED
      BY <1>3, <2>1, <3>2, NatFaultlessStep DEF CheckerInv
  <2> QED
    BY <2>2, <2>3, <2>4, <2>5 DEF Next
<1>4. Spend \/ budget' = budget
  BY DEF Next, Poll, NatAccepted, NatAnnounced, NatDisconnected, GuidTaken, EndOfPoll, NatStep,
         CheckIfGuidsValid, vars
<1> QED
  BY <1>1, <1>2, <1>3, <1>4

\* While the network is faultless, no query is lost between the user's thread and
\* RakNet's, but for those made while the connection is being announced: for any
\* queries, with the host's port forwarded first or not.
THEOREM QueriesInTimeAreReceived == ThreadsSpec => []AskedInTimeIsReceived
<1>1. ThreadsInit => CheckerInv
  BY BudgetAssumption
    DEF ThreadsInit, Init, NatInit, CheckerInv, Course, Sent, Links
<1>2. CheckerInv /\ [ThreadsNext]_threadVars => CheckerInv'
  BY CheckerNextKeeps DEF ThreadsNext, threadVars
<1>3. CheckerInv => AskedInTimeIsReceived
  BY DEF CheckerInv, Sent, AskedInTimeIsReceived
<1> QED
  BY <1>1, <1>2, <1>3, PTL DEF ThreadsSpec
=============================================================================
