-------------------------- MODULE GuestHandlerProofs --------------------------
(***************************************************************************)
(* Proofs about GuestHandler for every number of attempts and budget, with *)
(* and without a LAN address and a proxy server.                           *)
(***************************************************************************)
EXTENDS GuestHandler, TLAPS, SequenceTheorems

-----------------------------------------------------------------------------
\* Types.

NatVarsOK ==
    /\ natLink \in Links
    /\ natConnected \in BOOLEAN
    /\ natAttempts \in 0 .. MaxAttempts
    /\ forwarding \in BOOLEAN /\ forwarded \in BOOLEAN
    /\ error \in BOOLEAN

GuestVarsOK ==
    /\ connected \in BOOLEAN /\ remote \in Paths \cup {NoPath}
    /\ attempts \in 0 .. MaxAttempts
    /\ punching \in BOOLEAN /\ tryingLan \in BOOLEAN /\ relayed \in BOOLEAN
    /\ asked \subseteq Searches /\ tested \in {"no", "ok", "refused"}

PeerVarsOK ==
    /\ link \in [Paths -> Links]
    /\ requests \in Seq({"Join", "Rejoin", "Test"})
    /\ budget \in 0 .. Budget

LEMMA TypeParts ==
    TypeOK <=> /\ testOnly \in BOOLEAN /\ phase \in Phases /\ inbox \in Seq(Packets)
               /\ NatVarsOK /\ GuestVarsOK /\ PeerVarsOK
BY DEF TypeOK, NatTypeOK, NatVarsOK, GuestVarsOK, PeerVarsOK

LEMMA TypePartsNext ==
    TypeOK' <=> /\ testOnly' \in BOOLEAN /\ phase' \in Phases /\ inbox' \in Seq(Packets)
                /\ NatVarsOK' /\ GuestVarsOK' /\ PeerVarsOK'
BY DEF TypeOK, NatTypeOK, NatVarsOK, GuestVarsOK, PeerVarsOK

LEMMA ReceiveType ==
    ASSUME TypeOK, NEW t, Receive(t)
    PROVE  /\ inbox' \in Seq(Packets) /\ phase' \in Phases
           /\ inbox # << >> /\ Head(inbox) \in Packets /\ Head(inbox).type = t
BY HeadTailProperties DEF TypeOK, Receive, Phases

\* Where packets of a type come from.
LEMMA Senders ==
    ASSUME NEW p \in Packets
    PROVE  /\ p.type \in {"Connected", "JoinAccepted", "JoinRefused", "AttemptFailed"}
                 => p.from \in Paths
           /\ p.type \in {"Accepted", "AlreadyConnected", "Punched", "PunchFailed",
                          "Unreachable", "NoRelay", "RelayFound", "Pong"} => p.from = "nat"
           /\ p.from \in Paths \cup {"nat"}
           /\ "nat" \notin Paths
BY DEF Packets, Paths, Downs

LEMMA NewPackets ==
    /\ \A t \in {"Accepted", "AlreadyConnected", "ConnectionLost", "Disconnected",
                 "Punched", "PunchFailed", "Unreachable", "NoRelay", "RelayFound", "Pong"} :
          Packet(t, "nat") \in Packets
    /\ \A a \in Paths, t \in {"Connected", "JoinAccepted", "JoinRefused"} \cup Downs :
          Packet(t, a) \in Packets
BY DEF Packets, Packet

LEMMA ConnectType ==
    ASSUME link \in [Paths -> Links], NEW a \in Paths
    PROVE  /\ ConnectTo(a) => link' \in [Paths -> Links]
           /\ CloseTo(a) => link' \in [Paths -> Links]
BY DEF ConnectTo, CloseTo, AfterConnect, AfterClose, Links

LEMMA OnNatConnectedType ==
    ASSUME NatVarsOK, NEW was \in BOOLEAN, OnNatConnected(was)
    PROVE  NatVarsOK'
<1>1. MaxAttempts \in 0 .. MaxAttempts
  BY AttemptsAssumption
<1>2. AfterClose(natLink) \in Links
  BY DEF NatVarsOK, Links, AfterClose
<1> QED
  BY <1>1, <1>2 DEF NatVarsOK, OnNatConnected

LEMMA OnNatDisconnectedType ==
    ASSUME NatVarsOK, NEW c \in BOOLEAN, OnNatDisconnected(c)
    PROVE  NatVarsOK'
<1>1. CASE forwarding
  BY <1>1 DEF NatVarsOK, OnNatDisconnected, natVars
<1>2. CASE ~forwarding /\ ~c /\ natAttempts > 0
  <2>1. natAttempts - 1 \in 0 .. MaxAttempts
    BY <1>2, AttemptsAssumption DEF NatVarsOK
  <2> QED
    BY <1>2, <2>1 DEF NatVarsOK, OnNatDisconnected, AfterConnect, Links
<1>3. CASE ~forwarding /\ ~(~c /\ natAttempts > 0)
  BY <1>3 DEF NatVarsOK, OnNatDisconnected
<1> QED
  BY <1>1, <1>2, <1>3

LEMMA AttemptsLeftType ==
    ASSUME attempts \in 0 .. MaxAttempts, NEW a
    PROVE  AttemptsLeft(a) \in 0 .. MaxAttempts
BY AttemptsAssumption DEF AttemptsLeft

LEMMA ReconnectType ==
    ASSUME GuestVarsOK, link \in [Paths -> Links], NEW a \in Paths, ReconnectOrGiveUp(a)
    PROVE  /\ connected' \in BOOLEAN /\ remote' \in Paths \cup {NoPath}
           /\ link' \in [Paths -> Links]
BY ConnectType DEF GuestVarsOK, ReconnectOrGiveUp

LEMMA NatPacketType == TypeOK /\ (NatAccepted \/ NatDisconnected \/ GuidTaken)
                         /\ UNCHANGED testOnly => TypeOK'
<1> SUFFICES ASSUME TypeOK, UNCHANGED testOnly, NatAccepted \/ NatDisconnected \/ GuidTaken
             PROVE  TypeOK'
  OBVIOUS
<1> USE TypeParts, TypePartsNext
<1>1. CASE NatAccepted
  <2>1. NatVarsOK'
    <3>1. OnNatConnected(natConnected) /\ natConnected \in BOOLEAN
      BY <1>1 DEF NatAccepted, NatVarsOK
    <3> QED
      BY <3>1, OnNatConnectedType
  <2>2. GuestVarsOK'
    <3>1. /\ connected' = connected /\ remote' = remote /\ tryingLan' = tryingLan
          /\ relayed' = relayed /\ tested' = tested
      BY <1>1 DEF NatAccepted
    <3>2. punching' \in BOOLEAN /\ asked' \subseteq Searches /\ attempts' \in 0 .. MaxAttempts
      <4>1. CASE Announces(natConnected)
        BY <1>1, <4>1, AttemptsAssumption
          DEF NatAccepted, OnNatServerConnected, GuestVarsOK, Searches
      <4>2. CASE ~Announces(natConnected)
        BY <1>1, <4>2 DEF NatAccepted, OnNatServerConnected, GuestVarsOK
      <4> QED
        BY <4>1, <4>2
    <3> QED
      BY <3>1, <3>2 DEF GuestVarsOK
  <2>3. PeerVarsOK'
    BY <1>1 DEF NatAccepted, peerVars, PeerVarsOK
  <2> QED
    BY <1>1, <2>1, <2>2, <2>3, ReceiveType DEF NatAccepted
<1>2. CASE NatDisconnected
  <2>1. NatVarsOK'
    <3>1. OnNatDisconnected(connected) /\ connected \in BOOLEAN
      BY <1>2 DEF NatDisconnected, GuestVarsOK
    <3> QED
      BY <3>1, OnNatDisconnectedType
  <2> QED
    BY <1>2, <2>1, ReceiveType
      DEF NatDisconnected, guestVars, peerVars, GuestVarsOK, PeerVarsOK
<1>3. CASE GuidTaken
  <2>1. NatVarsOK'
    BY <1>3, AttemptsAssumption DEF GuidTaken, OnGuidTaken, NatVarsOK, AfterClose, Links
  <2> QED
    BY <1>3, <2>1, ReceiveType DEF GuidTaken, guestVars, peerVars, GuestVarsOK, PeerVarsOK
<1> QED
  BY <1>1, <1>2, <1>3

LEMMA SearchPacketType == TypeOK /\ (HostFound \/ PunchFailed \/ HostUnreachable
                                     \/ RelayFound \/ NoRelay)
                            /\ UNCHANGED testOnly => TypeOK'
<1> SUFFICES ASSUME TypeOK, UNCHANGED testOnly,
                    HostFound \/ PunchFailed \/ HostUnreachable \/ RelayFound \/ NoRelay
             PROVE  TypeOK'
  OBVIOUS
<1> USE TypeParts, TypePartsNext
<1>a. "direct" \in Paths /\ "lan" \in Paths /\ "proxy" \in Paths
  BY DEF Paths
<1>1. CASE HostFound
  <2>1. NatVarsOK' /\ GuestVarsOK'
    BY <1>1 DEF HostFound, natVars, NatVarsOK, GuestVarsOK
  <2>2. PeerVarsOK'
    BY <1>1, <1>a, ConnectType DEF HostFound, PeerVarsOK
  <2> QED
    BY <1>1, <2>1, <2>2, ReceiveType DEF HostFound
<1>2. CASE PunchFailed
  <2>1. NatVarsOK' /\ GuestVarsOK'
    BY <1>2 DEF PunchFailed, TryLan, TryRelay, natVars, NatVarsOK, GuestVarsOK, Searches
  <2>2. PeerVarsOK'
    BY <1>2, <1>a, ConnectType DEF PunchFailed, TryLan, PeerVarsOK
  <2> QED
    BY <1>2, <2>1, <2>2, ReceiveType DEF PunchFailed
<1>3. CASE HostUnreachable
  BY <1>3, ReceiveType
    DEF HostUnreachable, guestVars, peerVars, NatVarsOK, GuestVarsOK, PeerVarsOK
<1>4. CASE RelayFound
  <2>1. NatVarsOK' /\ GuestVarsOK'
    BY <1>4 DEF RelayFound, natVars, NatVarsOK, GuestVarsOK
  <2>2. PeerVarsOK'
    BY <1>4, <1>a, ConnectType DEF RelayFound, PeerVarsOK
  <2> QED
    BY <1>4, <2>1, <2>2, ReceiveType DEF RelayFound
<1>5. CASE NoRelay
  BY <1>5, ReceiveType
    DEF NoRelay, natVars, peerVars, NatVarsOK, GuestVarsOK, PeerVarsOK, Searches
<1> QED
  BY <1>1, <1>2, <1>3, <1>4, <1>5

LEMMA HostPacketType == TypeOK /\ (HostConnected \/ HostDisconnected \/ AttemptFailed
                                   \/ JoinAccepted \/ JoinRefused)
                          /\ UNCHANGED testOnly => TypeOK'
<1> SUFFICES ASSUME TypeOK, UNCHANGED testOnly,
                    HostConnected \/ HostDisconnected \/ AttemptFailed
                      \/ JoinAccepted \/ JoinRefused
             PROVE  TypeOK'
  OBVIOUS
<1> USE TypeParts, TypePartsNext
<1> DEFINE from == Head(inbox).from
<1>a. PICK t : /\ Receive(t)
               /\ t \in {"AttemptFailed", "JoinAccepted", "JoinRefused"} => from \in Paths
  BY ReceiveType, Senders
    DEF HostConnected, HostDisconnected, AttemptFailed, JoinAccepted, JoinRefused
<1>b. inbox' \in Seq(Packets) /\ phase' \in Phases
  BY <1>a, ReceiveType
<1>c. \A a : AttemptsLeft(a) \in 0 .. MaxAttempts
  BY AttemptsLeftType DEF GuestVarsOK
<1>d. 0 \in 0 .. MaxAttempts /\ MaxAttempts \in 0 .. MaxAttempts
  BY AttemptsAssumption
<1>1. CASE HostConnected
  <2>1. NatVarsOK' /\ GuestVarsOK'
    BY <1>1, <1>d DEF HostConnected, natVars, NatVarsOK, GuestVarsOK
  <2>2. requests' \in Seq({"Join", "Rejoin", "Test"})
    <3>1. Ask \in {"Join", "Rejoin", "Test"}
      BY DEF Ask
    <3> QED
      BY <1>1, <3>1, AppendProperties DEF HostConnected, PeerVarsOK
  <2> QED
    BY <1>1, <1>b, <2>1, <2>2 DEF HostConnected, PeerVarsOK
<1>2. CASE HostDisconnected
  <2>1. /\ connected' \in BOOLEAN /\ remote' \in Paths \cup {NoPath}
        /\ link' \in [Paths -> Links]
    BY <1>2, ReconnectType DEF HostDisconnected, PeerVarsOK
  <2>2. attempts' \in 0 .. MaxAttempts
    BY <1>2, <1>c, <1>d DEF HostDisconnected
  <2> QED
    BY <1>2, <1>b, <2>1, <2>2
      DEF HostDisconnected, natVars, NatVarsOK, GuestVarsOK, PeerVarsOK
<1>3. CASE AttemptFailed
  <2>1. from \in Paths
    BY <1>3, ReceiveType, Senders DEF AttemptFailed
  <2>2. CASE ReconnectOrGiveUp(from) /\ attempts' = AttemptsLeft(from)
                /\ UNCHANGED <<tryingLan, relayed, asked>>
    <3>1. /\ connected' \in BOOLEAN /\ remote' \in Paths \cup {NoPath}
          /\ link' \in [Paths -> Links]
      BY <2>1, <2>2, ReconnectType DEF PeerVarsOK
    <3> QED
      BY <1>3, <1>b, <1>c, <2>2, <3>1
        DEF AttemptFailed, natVars, NatVarsOK, GuestVarsOK, PeerVarsOK
  <2>3. CASE /\ tryingLan' = (tryingLan /\ from # "lan")
             /\ IF tryingLan /\ from = "lan" THEN TryRelay /\ UNCHANGED relayed
                ELSE IF relayed /\ from = "proxy"
                THEN relayed' = FALSE /\ asked' = asked \cup {"ping"}
                ELSE UNCHANGED <<relayed, asked>>
             /\ UNCHANGED <<connected, remote, attempts, link>>
    <3>1. relayed' \in BOOLEAN /\ asked' \subseteq Searches
      BY <2>3 DEF TryRelay, GuestVarsOK, Searches
    <3> QED
      BY <1>3, <1>b, <2>3, <3>1
        DEF AttemptFailed, natVars, NatVarsOK, GuestVarsOK, PeerVarsOK
  <2> QED
    BY <1>3, <2>2, <2>3 DEF AttemptFailed
<1>4. CASE JoinAccepted
  <2>1. from \in Paths
    BY <1>4, ReceiveType, Senders DEF JoinAccepted
  <2>2. NatVarsOK'
    BY <1>4 DEF JoinAccepted, NatVarsOK, AfterClose, Links
  <2>3. link' \in [Paths -> Links]
    BY <1>4, <2>1, ConnectType DEF JoinAccepted, PeerVarsOK
  <2>4. GuestVarsOK'
    BY <1>4, <2>1 DEF JoinAccepted, GuestVarsOK
  <2> QED
    BY <1>4, <1>b, <2>2, <2>3, <2>4 DEF JoinAccepted, PeerVarsOK
<1>5. CASE JoinRefused
  <2>1. from \in Paths
    BY <1>5, ReceiveType, Senders DEF JoinRefused
  <2>2. link' \in [Paths -> Links]
    BY <1>5, <2>1, ConnectType DEF JoinRefused, PeerVarsOK
  <2>3. GuestVarsOK'
    BY <1>5, <1>d DEF JoinRefused, GuestVarsOK
  <2> QED
    BY <1>5, <1>b, <2>2, <2>3 DEF JoinRefused, NatVarsOK, PeerVarsOK
<1> QED
  BY <1>1, <1>2, <1>3, <1>4, <1>5

LEMMA QueueType ==
    ASSUME TypeOK, NEW p \in Packets, Queue(p)
    PROVE  inbox' \in Seq(Packets)
BY AppendProperties DEF Queue, TypeOK

LEMMA NatStepType == TypeOK /\ NatStep /\ UNCHANGED testOnly => TypeOK'
<1> SUFFICES ASSUME TypeOK, NatStep, UNCHANGED testOnly PROVE TypeOK'
  OBVIOUS
<1> USE TypeParts, TypePartsNext
<1>1. CASE NatProgress \/ NatFault
  <2>1. \E t \in {"Accepted", "AlreadyConnected", "ConnectionLost", "Disconnected"} :
           Queue(Packet(t, "nat"))
    BY <1>1 DEF NatProgress, NatFault, NatAccepts, NatCloses, NatRefuses, NatDrops
  <2>2. inbox' \in Seq(Packets)
    BY <2>1, NewPackets, QueueType
  <2>3. natLink' \in Links /\ NatUnchanged
    BY <1>1 DEF NatProgress, NatFault, NatAccepts, NatCloses, NatRefuses, NatDrops,
                NatAnswers, Links
  <2>4. budget' \in 0 .. Budget /\ UNCHANGED <<guestVars, link, requests>>
    BY <1>1, BudgetAssumption DEF NatProgress, NatFault, Spend, peerVars, PeerVarsOK
  <2> QED
    BY <2>2, <2>3, <2>4 DEF NatUnchanged, guestVars, NatVarsOK, GuestVarsOK, PeerVarsOK
<1>2. ASSUME NEW s \in Searches, SearchEnds(s) PROVE TypeOK'
  <2>1. inbox' \in Seq(Packets)
    <3>1. \A t \in Answers(s) : Packet(t, "nat") \in Packets
      BY NewPackets DEF Answers, Searches
    <3> QED
      BY <1>2, <3>1, QueueType DEF SearchEnds
  <2> QED
    BY <1>2, <2>1 DEF SearchEnds, natVars, peerVars, NatVarsOK, GuestVarsOK, PeerVarsOK
<1> QED
  BY <1>1, <1>2 DEF NatStep

LEMMA HostStepType ==
    ASSUME TypeOK, NEW a \in Paths, HostStep(a), UNCHANGED testOnly
    PROVE  TypeOK'
<1> USE TypeParts, TypePartsNext
<1>1. /\ NatVarsOK' /\ GuestVarsOK' /\ phase' \in Phases
  BY DEF HostStep, HostAnswers, HostSilent, HostGone, HostClosed, HostDecides,
         PeerUnchanged, natVars, guestVars, NatVarsOK, GuestVarsOK
<1>2. inbox' \in Seq(Packets)
  <2>1. \E t \in {"Connected", "JoinAccepted", "JoinRefused"} \cup Downs :
           Queue(Packet(t, a))
    BY DEF HostStep, HostAnswers, HostSilent, HostGone, HostClosed, HostDecides, Downs
  <2> QED
    BY <2>1, NewPackets, QueueType
<1>3. link' \in [Paths -> Links]
  BY DEF HostStep, HostAnswers, HostSilent, HostGone, HostClosed, HostDecides,
         PeerStep, PeerVarsOK, Links
<1>4. requests' \in Seq({"Join", "Rejoin", "Test"})
  <2>1. \/ requests' = requests \/ requests' = << >>
        \/ requests # << >> /\ requests' = Tail(requests)
    BY DEF HostStep, HostAnswers, HostSilent, HostGone, HostClosed, HostDecides
  <2> QED
    BY <2>1, HeadTailProperties, EmptySeq DEF PeerVarsOK
<1>5. budget' \in 0 .. Budget
  BY BudgetAssumption
    DEF HostStep, HostAnswers, HostSilent, HostGone, HostClosed, HostDecides, Spend, PeerVarsOK
<1> QED
  BY <1>1, <1>2, <1>3, <1>4, <1>5 DEF PeerVarsOK

LEMMA NextType == TypeOK /\ [Next]_vars => TypeOK'
<1> SUFFICES ASSUME TypeOK, [Next]_vars PROVE TypeOK'
  OBVIOUS
<1>1. CASE Poll /\ UNCHANGED testOnly
  <2>1. CASE EndOfPoll
    BY <1>1, <2>1 DEF EndOfPoll, PollEnds, TypeOK, NatTypeOK, Phases, natVars, guestVars, peerVars
  <2> QED
    BY <1>1, <2>1, NatPacketType, SearchPacketType, HostPacketType DEF Poll
<1>2. CASE NatStep /\ UNCHANGED testOnly
  BY <1>2, NatStepType
<1>3. CASE (\E a \in Paths : HostStep(a)) /\ UNCHANGED testOnly
  BY <1>3, HostStepType
<1>4. CASE UNCHANGED vars
  BY <1>4 DEF vars, natVars, guestVars, peerVars, TypeOK, NatTypeOK
<1> QED
  BY <1>1, <1>2, <1>3, <1>4 DEF Next

\* Every variable of the guest keeps its type.
THEOREM GuestTypeCorrect == Spec => []TypeOK
<1>1. Init => TypeOK
  <2> SUFFICES ASSUME Init PROVE TypeOK
    OBVIOUS
  <2>a. 0 \in 0 .. MaxAttempts /\ MaxAttempts \in 0 .. MaxAttempts
    BY AttemptsAssumption
  <2>1. NatVarsOK /\ phase \in Phases /\ inbox \in Seq(Packets)
    BY <2>a, EmptySeq DEF Init, GuestInit, NatInit, NatVarsOK, Phases, Links
  <2>2. GuestVarsOK /\ testOnly \in BOOLEAN
    BY <2>a DEF Init, GuestInit, GuestVarsOK
  <2>3. PeerVarsOK
    BY BudgetAssumption, EmptySeq DEF Init, PeerVarsOK, Links
  <2> QED
    BY <2>1, <2>2, <2>3, TypeParts
<1> QED
  BY <1>1, NextType, PTL DEF Spec

-----------------------------------------------------------------------------
\* The turn.  Looking for the host is one thread that runs through the servers
\* and the network: a search that will be answered, its answer, a connection,
\* the packet that says that the connection is gone.

IsEnd(p) == p.type \in Downs /\ p.from \in Paths

IsTurn(p) ==
    p.type \in {"Punched", "PunchFailed", "RelayFound", "NoRelay", "Pong"} \/ IsEnd(p)

TurnIn(q)   == \E i \in 1 .. Len(q) : IsTurn(q[i])
EndIn(q, a) == \E i \in 1 .. Len(q) : IsEnd(q[i]) /\ q[i].from = a
OneTurn(q)  == \A i, j \in 1 .. Len(q) : IsTurn(q[i]) /\ IsTurn(q[j]) => i = j

\* Behind every packet of a connection that is gone, its end is in the queue.
Followed(q, lk) ==
    \A i \in 1 .. Len(q) : q[i].from \in Paths /\ ~IsEnd(q[i]) =>
        \/ lk[q[i].from] # "down"
        \/ \E j \in i + 1 .. Len(q) : IsEnd(q[j]) /\ q[j].from = q[i].from

AllDown == \A a \in Paths : link[a] = "down"

TurnInv ==
    /\ OneTurn(inbox) /\ OneWayAtATime
    /\ \A s, t \in asked : s = t
    /\ asked # {} => AllDown
    /\ TurnIn(inbox) => asked = {} /\ AllDown

LEMMA TailTurn ==
    ASSUME NEW q \in Seq(Packets), q # << >>
    PROVE  /\ TurnIn(q) <=> IsTurn(Head(q)) \/ TurnIn(Tail(q))
           /\ \A a : EndIn(q, a) <=> (IsEnd(Head(q)) /\ Head(q).from = a) \/ EndIn(Tail(q), a)
           /\ OneTurn(q) => OneTurn(Tail(q)) /\ (IsTurn(Head(q)) => ~TurnIn(Tail(q)))
<1>1. /\ Len(q) \in Nat /\ Len(q) >= 1
      /\ Head(q) = q[1] /\ Len(Tail(q)) = Len(q) - 1
      /\ \A i \in 1 .. Len(Tail(q)) : Tail(q)[i] = q[i + 1] /\ i + 1 \in 1 .. Len(q)
  BY HeadTailProperties, EmptySeq, LenProperties
<1>2. \A j \in 1 .. Len(q) : j = 1 \/ (j - 1 \in 1 .. Len(Tail(q)) /\ Tail(q)[j - 1] = q[j])
  BY <1>1
<1>3. 1 \in 1 .. Len(q)
  BY <1>1
<1>4. TurnIn(q) <=> IsTurn(Head(q)) \/ TurnIn(Tail(q))
  BY <1>1, <1>2, <1>3 DEF TurnIn
<1>5. \A a : EndIn(q, a) <=> (IsEnd(Head(q)) /\ Head(q).from = a) \/ EndIn(Tail(q), a)
  BY <1>1, <1>2, <1>3 DEF EndIn
<1>6. ASSUME OneTurn(q) PROVE OneTurn(Tail(q))
  BY <1>1, <1>6 DEF OneTurn
<1>7. ASSUME OneTurn(q), IsTurn(Head(q)) PROVE ~TurnIn(Tail(q))
  BY <1>1, <1>3, <1>7 DEF OneTurn, TurnIn
<1> QED
  BY <1>4, <1>5, <1>6, <1>7

LEMMA TailFollowed ==
    ASSUME NEW q \in Seq(Packets), q # << >>, NEW lk, Followed(q, lk)
    PROVE  /\ Followed(Tail(q), lk)
           /\ Head(q).from \in Paths /\ ~IsEnd(Head(q)) =>
                 lk[Head(q).from] # "down" \/ EndIn(Tail(q), Head(q).from)
<1>1. /\ Len(q) \in Nat /\ Len(q) >= 1
      /\ Head(q) = q[1] /\ Len(Tail(q)) = Len(q) - 1
      /\ \A i \in 1 .. Len(Tail(q)) : Tail(q)[i] = q[i + 1] /\ i + 1 \in 1 .. Len(q)
  BY HeadTailProperties, EmptySeq, LenProperties
<1>2. \A i \in 1 .. Len(q) : \A j \in i + 1 .. Len(q) :
         j - 1 \in 1 .. Len(Tail(q)) /\ Tail(q)[j - 1] = q[j]
  BY <1>1
<1>3. Followed(Tail(q), lk)
  <2> SUFFICES ASSUME NEW i \in 1 .. Len(Tail(q)),
                      Tail(q)[i].from \in Paths, ~IsEnd(Tail(q)[i]),
                      lk[Tail(q)[i].from] = "down"
               PROVE  \E j \in i + 1 .. Len(Tail(q)) :
                         IsEnd(Tail(q)[j]) /\ Tail(q)[j].from = Tail(q)[i].from
    BY DEF Followed
  <2>1. Tail(q)[i] = q[i + 1] /\ i + 1 \in 1 .. Len(q)
    BY <1>1
  <2>2. PICK j \in (i + 1) + 1 .. Len(q) : IsEnd(q[j]) /\ q[j].from = q[i + 1].from
    BY <2>1 DEF Followed
  <2>3. j - 1 \in i + 1 .. Len(Tail(q)) /\ Tail(q)[j - 1] = q[j]
    BY <1>1, <1>2, <2>1, <2>2
  <2> QED
    BY <2>1, <2>2, <2>3
<1>4. ASSUME Head(q).from \in Paths, ~IsEnd(Head(q)), lk[Head(q).from] = "down"
      PROVE  EndIn(Tail(q), Head(q).from)
  <2>1. PICK j \in 1 + 1 .. Len(q) : IsEnd(q[j]) /\ q[j].from = q[1].from
    BY <1>1, <1>4 DEF Followed
  <2>2. j - 1 \in 1 .. Len(Tail(q)) /\ Tail(q)[j - 1] = q[j]
    BY <1>1, <2>1
  <2> QED
    BY <1>1, <2>1, <2>2 DEF EndIn
<1> QED
  BY <1>3, <1>4

LEMMA AppendTurn ==
    ASSUME NEW q \in Seq(Packets), NEW p \in Packets
    PROVE  /\ TurnIn(Append(q, p)) <=> TurnIn(q) \/ IsTurn(p)
           /\ \A a : EndIn(Append(q, p), a) <=> EndIn(q, a) \/ (IsEnd(p) /\ p.from = a)
           /\ OneTurn(q) /\ (IsTurn(p) => ~TurnIn(q)) => OneTurn(Append(q, p))
<1> DEFINE r == Append(q, p)
<1>1. /\ Len(q) \in Nat /\ Len(r) = Len(q) + 1
      /\ r[Len(q) + 1] = p
      /\ \A i \in 1 .. Len(q) : r[i] = q[i] /\ i \in 1 .. Len(r)
  BY AppendProperties, LenProperties
<1>2. /\ Len(q) + 1 \in 1 .. Len(r)
      /\ \A i \in 1 .. Len(r) : i = Len(q) + 1 \/ i \in 1 .. Len(q)
  BY <1>1
<1> HIDE DEF r
<1>3. TurnIn(r) <=> TurnIn(q) \/ IsTurn(p)
  BY <1>1, <1>2 DEF TurnIn
<1>4. \A a : EndIn(r, a) <=> EndIn(q, a) \/ (IsEnd(p) /\ p.from = a)
  BY <1>1, <1>2 DEF EndIn
<1>5. ASSUME OneTurn(q), IsTurn(p) => ~TurnIn(q) PROVE OneTurn(r)
  BY <1>1, <1>2, <1>5 DEF OneTurn, TurnIn
<1> QED
  BY <1>3, <1>4, <1>5 DEF r

LEMMA AppendFollowed ==
    ASSUME NEW q \in Seq(Packets), NEW p \in Packets, NEW lk, NEW lk2, Followed(q, lk),
           \A a \in Paths : lk2[a] = "down" => lk[a] = "down" \/ (IsEnd(p) /\ p.from = a),
           p.from \in Paths /\ ~IsEnd(p) => lk2[p.from] # "down"
    PROVE  Followed(Append(q, p), lk2)
<1> DEFINE r == Append(q, p)
<1>1. /\ Len(q) \in Nat /\ Len(r) = Len(q) + 1
      /\ r[Len(q) + 1] = p
      /\ \A i \in 1 .. Len(q) : r[i] = q[i] /\ i \in 1 .. Len(r)
  BY AppendProperties, LenProperties
<1>2. \A i \in 1 .. Len(r) : i = Len(q) + 1 \/ i \in 1 .. Len(q)
  BY <1>1
<1>3. \A i \in 1 .. Len(q) : /\ Len(q) + 1 \in i + 1 .. Len(r)
                             /\ i + 1 .. Len(q) \subseteq i + 1 .. Len(r)
                             /\ i + 1 .. Len(q) \subseteq 1 .. Len(q)
  BY <1>1
<1> HIDE DEF r
<1> SUFFICES ASSUME NEW i \in 1 .. Len(r), r[i].from \in Paths, ~IsEnd(r[i]),
                    lk2[r[i].from] = "down"
             PROVE  \E j \in i + 1 .. Len(r) : IsEnd(r[j]) /\ r[j].from = r[i].from
  BY DEF Followed, r
<1>4. i # Len(q) + 1
  BY <1>1
<1>5. i \in 1 .. Len(q) /\ r[i] = q[i]
  BY <1>1, <1>2, <1>4
<1>6. CASE IsEnd(p) /\ p.from = r[i].from
  BY <1>1, <1>3, <1>5, <1>6
<1>7. CASE lk[r[i].from] = "down"
  <2>1. PICK j \in i + 1 .. Len(q) : IsEnd(q[j]) /\ q[j].from = q[i].from
    BY <1>5, <1>7 DEF Followed
  <2>2. j \in i + 1 .. Len(r) /\ r[j] = q[j]
    BY <1>1, <1>3, <1>5
  <2> QED
    BY <1>5, <2>1, <2>2
<1> QED
  BY <1>6, <1>7

LEMMA FollowedMore ==
    ASSUME NEW q, NEW lk, NEW lk2, Followed(q, lk),
           \A a \in Paths : lk2[a] = "down" => lk[a] = "down"
    PROVE  Followed(q, lk2)
BY DEF Followed

LEMMA ConnectLink ==
    ASSUME TypeOK, AllDown, NEW a \in Paths, ConnectTo(a)
    PROVE  /\ link'[a] # "down"
           /\ \A b \in Paths : b # a => link'[b] = "down"
BY DEF TypeOK, AllDown, ConnectTo, AfterConnect

LEMMA CloseLink ==
    ASSUME TypeOK, NEW a \in Paths, CloseTo(a)
    PROVE  \A b \in Paths : link'[b] = "down" <=> link[b] = "down"
BY DEF TypeOK, CloseTo, AfterClose, Links

\* The session part of the invariant: GoneHostIsNoticed.
SessionHeld ==
    connected => /\ remote \in Paths
                 /\ link[remote] # "down" \/ EndIn(inbox, remote)

LEMMA HeldIsNoticed == SessionHeld => GoneHostIsNoticed
BY DEF SessionHeld, GoneHostIsNoticed, EndIn, EndQueued, IsEnd

PeerInv == TurnInv /\ Followed(inbox, link) /\ SessionHeld

\* What is left when a packet is taken from the queue.
LEMMA ReceivePeer ==
    ASSUME TypeOK, PeerInv, NEW t, Receive(t)
    PROVE  /\ OneTurn(inbox') /\ Followed(inbox', link)
           /\ TurnIn(inbox') => asked = {} /\ AllDown
           /\ IsTurn(Head(inbox)) => asked = {} /\ AllDown /\ ~TurnIn(inbox')
           /\ \A a : EndIn(inbox', a) => TurnIn(inbox')
           /\ connected => /\ remote \in Paths
                           /\ \/ link[remote] # "down"
                              \/ IsEnd(Head(inbox)) /\ Head(inbox).from = remote
                              \/ EndIn(inbox', remote)
           /\ Head(inbox).from \in Paths /\ ~IsEnd(Head(inbox)) =>
                 link[Head(inbox).from] # "down" \/ EndIn(inbox', Head(inbox).from)
<1>1. inbox \in Seq(Packets) /\ inbox # << >> /\ inbox' = Tail(inbox)
  BY DEF TypeOK, Receive
<1>2. \A a : EndIn(inbox', a) => TurnIn(inbox')
  BY DEF EndIn, TurnIn, IsTurn
<1> QED
  BY <1>1, <1>2, TailTurn, TailFollowed DEF PeerInv, TurnInv, SessionHeld

\* A packet that moves no turn.
LEMMA ReceiveQuiet ==
    ASSUME TypeOK, PeerInv, NEW t, Receive(t), ~IsTurn(Head(inbox)),
           asked' = asked, \A a \in Paths : link'[a] = "down" <=> link[a] = "down",
           connected' => connected /\ remote' = remote
    PROVE  PeerInv'
<1>1. AllDown' <=> AllDown
  BY DEF AllDown
<1>2. TurnInv'
  BY <1>1, ReceivePeer DEF PeerInv, TurnInv, OneWayAtATime
<1>3. Followed(inbox, link)'
  BY ReceivePeer, FollowedMore
<1>4. SessionHeld'
  BY ReceivePeer DEF SessionHeld, IsTurn
<1> QED
  BY <1>2, <1>3, <1>4 DEF PeerInv

\* A packet that was the turn, which now is a connection, a search, or nothing.
LEMMA ReceiveTurn ==
    ASSUME TypeOK, PeerInv, NEW t, Receive(t), IsTurn(Head(inbox)),
           \/ asked' = {} /\ \E a \in Paths : ConnectTo(a)
           \/ asked' = {} /\ link' = link
           \/ (\E s : asked' = {s}) /\ link' = link,
           connected' =>
               /\ connected /\ remote' = remote
               /\ IsEnd(Head(inbox)) /\ Head(inbox).from = remote => link'[remote] # "down"
    PROVE  PeerInv'
<1>1. AllDown /\ ~TurnIn(inbox') /\ OneTurn(inbox')
  BY ReceivePeer
<1>2. OneWayAtATime'
  <2>1. CASE link' = link
    BY <1>1, <2>1 DEF OneWayAtATime, AllDown
  <2>2. CASE \E a \in Paths : ConnectTo(a)
    BY <1>1, <2>2, ConnectLink DEF OneWayAtATime
  <2> QED
    BY <2>1, <2>2
<1>3. /\ \A s, u \in asked' : s = u
      /\ asked' # {} => AllDown'
  BY <1>1 DEF AllDown
<1>4. TurnInv'
  BY <1>1, <1>2, <1>3 DEF TurnInv
<1>5. Followed(inbox, link)'
  BY <1>1, ReceivePeer, FollowedMore DEF AllDown
<1>6. SessionHeld'
  BY <1>1, ReceivePeer DEF SessionHeld, AllDown
<1> QED
  BY <1>4, <1>5, <1>6 DEF PeerInv

\* A packet is put in the queue; it may be the turn that was elsewhere.
LEMMA QueuePeer ==
    ASSUME TypeOK, PeerInv, NEW p \in Packets, Queue(p),
           asked' \subseteq asked, OneWayAtATime', AllDown => AllDown',
           IsTurn(p) => asked' = {} /\ AllDown' /\ (asked # {} \/ ~AllDown),
           \A a \in Paths : link'[a] = "down" => link[a] = "down" \/ (IsEnd(p) /\ p.from = a),
           p.from \in Paths /\ ~IsEnd(p) => link'[p.from] # "down",
           UNCHANGED <<connected, remote>>
    PROVE  PeerInv'
<1>1. inbox \in Seq(Packets) /\ inbox' = Append(inbox, p)
  BY DEF TypeOK, Queue
<1>2. /\ TurnIn(inbox') <=> TurnIn(inbox) \/ IsTurn(p)
      /\ \A a : EndIn(inbox', a) <=> EndIn(inbox, a) \/ (IsEnd(p) /\ p.from = a)
      /\ OneTurn(inbox) /\ (IsTurn(p) => ~TurnIn(inbox)) => OneTurn(inbox')
  BY <1>1, AppendTurn
<1>3. IsTurn(p) => ~TurnIn(inbox)
  BY DEF PeerInv, TurnInv
<1>4. TurnInv'
  BY <1>2, <1>3 DEF PeerInv, TurnInv
<1>5. Followed(inbox, link)'
  BY <1>1, AppendFollowed DEF PeerInv
<1>6. SessionHeld'
  BY <1>2 DEF PeerInv, SessionHeld
<1> QED
  BY <1>4, <1>5, <1>6 DEF PeerInv

-----------------------------------------------------------------------------
\* The connection to the NAT server.  It is announced, and so the search begun,
\* once: before that nothing else has happened; and when natConnected is FALSE
\* again, nothing will bring the connection back.

IsNatEnd(p)   == p.from = "nat" /\ p.type \in {"ConnectionLost", "Disconnected"}
IsNatEvent(p) == IsNatEnd(p) \/ p.type = "Accepted"

NatEventIn(q) == \E i \in 1 .. Len(q) : IsNatEvent(q[i])

\* The packet that ends the connection is the last the NAT server is heard of.
NatOrdered(q, l) ==
    \A i \in 1 .. Len(q) : IsNatEnd(q[i]) =>
        l = "down" /\ \A j \in i + 1 .. Len(q) : ~IsNatEvent(q[j])

NatPackets == {p \in Packets : p.type \in {"Accepted", "AlreadyConnected",
                                           "ConnectionLost", "Disconnected"}
                                /\ p.from = "nat"}

Fresh ==
    /\ asked = {} /\ AllDown /\ ~connected
    /\ \A i \in 1 .. Len(inbox) : inbox[i] \in NatPackets

NatOver == natLink = "down" /\ ~NatEventIn(inbox)

NatInv == NatOrdered(inbox, natLink) /\ (natConnected \/ Fresh \/ NatOver)

LEMMA TailNat ==
    ASSUME NEW q \in Seq(Packets), q # << >>, NEW l, NatOrdered(q, l)
    PROVE  /\ NatOrdered(Tail(q), l)
           /\ NatEventIn(q) <=> IsNatEvent(Head(q)) \/ NatEventIn(Tail(q))
           /\ IsNatEnd(Head(q)) => l = "down" /\ ~NatEventIn(Tail(q))
           /\ (\A i \in 1 .. Len(q) : q[i] \in NatPackets) =>
                 /\ Head(q) \in NatPackets
                 /\ \A i \in 1 .. Len(Tail(q)) : Tail(q)[i] \in NatPackets
<1>1. /\ Len(q) \in Nat /\ Len(q) >= 1
      /\ Head(q) = q[1] /\ Len(Tail(q)) = Len(q) - 1
      /\ \A i \in 1 .. Len(Tail(q)) : Tail(q)[i] = q[i + 1] /\ i + 1 \in 1 .. Len(q)
  BY HeadTailProperties, EmptySeq, LenProperties
<1>2. \A j \in 1 .. Len(q) : j = 1 \/ (j - 1 \in 1 .. Len(Tail(q)) /\ Tail(q)[j - 1] = q[j])
  BY <1>1
<1>3. 1 \in 1 .. Len(q)
  BY <1>1
<1>4. NatOrdered(Tail(q), l)
  <2> SUFFICES ASSUME NEW i \in 1 .. Len(Tail(q)), IsNatEnd(Tail(q)[i])
               PROVE  l = "down" /\ \A j \in i + 1 .. Len(Tail(q)) : ~IsNatEvent(Tail(q)[j])
    BY DEF NatOrdered
  <2>1. l = "down" /\ \A j \in (i + 1) + 1 .. Len(q) : ~IsNatEvent(q[j])
    BY <1>1 DEF NatOrdered
  <2>2. \A j \in i + 1 .. Len(Tail(q)) : j + 1 \in (i + 1) + 1 .. Len(q) /\ Tail(q)[j] = q[j + 1]
    BY <1>1
  <2> QED
    BY <2>1, <2>2
<1>5. NatEventIn(q) <=> IsNatEvent(Head(q)) \/ NatEventIn(Tail(q))
  BY <1>1, <1>2, <1>3 DEF NatEventIn
<1>6. ASSUME IsNatEnd(Head(q)) PROVE l = "down" /\ ~NatEventIn(Tail(q))
  <2>1. l = "down" /\ \A j \in 1 + 1 .. Len(q) : ~IsNatEvent(q[j])
    BY <1>1, <1>3, <1>6 DEF NatOrdered
  <2>2. \A i \in 1 .. Len(Tail(q)) : i + 1 \in 1 + 1 .. Len(q) /\ Tail(q)[i] = q[i + 1]
    BY <1>1
  <2> QED
    BY <2>1, <2>2 DEF NatEventIn
<1>7. ASSUME \A i \in 1 .. Len(q) : q[i] \in NatPackets
      PROVE  /\ Head(q) \in NatPackets
             /\ \A i \in 1 .. Len(Tail(q)) : Tail(q)[i] \in NatPackets
  BY <1>1, <1>3, <1>7
<1> QED
  BY <1>4, <1>5, <1>6, <1>7

LEMMA AppendNat ==
    ASSUME NEW q \in Seq(Packets), NEW p \in Packets, NEW l, NEW l2, NatOrdered(q, l),
           l = "down" => l2 = "down" /\ ~IsNatEvent(p),
           IsNatEnd(p) => l2 = "down"
    PROVE  /\ NatOrdered(Append(q, p), l2)
           /\ NatEventIn(Append(q, p)) <=> NatEventIn(q) \/ IsNatEvent(p)
           /\ (\A i \in 1 .. Len(q) : q[i] \in NatPackets) /\ p \in NatPackets =>
                 \A i \in 1 .. Len(Append(q, p)) : Append(q, p)[i] \in NatPackets
<1> DEFINE r == Append(q, p)
<1>1. /\ Len(q) \in Nat /\ Len(r) = Len(q) + 1
      /\ r[Len(q) + 1] = p
      /\ \A i \in 1 .. Len(q) : r[i] = q[i] /\ i \in 1 .. Len(r)
  BY AppendProperties, LenProperties
<1>2. /\ Len(q) + 1 \in 1 .. Len(r)
      /\ \A i \in 1 .. Len(r) : i = Len(q) + 1 \/ i \in 1 .. Len(q)
  BY <1>1
<1>3. \A i \in 1 .. Len(q) : \A j \in i + 1 .. Len(r) : j = Len(q) + 1 \/ j \in i + 1 .. Len(q)
  BY <1>1
<1>4. \A i \in 1 .. Len(q) : \A j \in i + 1 .. Len(q) : j \in 1 .. Len(q)
  BY <1>1
<1>5. \A j \in (Len(q) + 1) + 1 .. Len(r) : FALSE
  BY <1>1
<1> HIDE DEF r
<1>6. NatOrdered(r, l2)
  <2> SUFFICES ASSUME NEW i \in 1 .. Len(r), IsNatEnd(r[i])
               PROVE  l2 = "down" /\ \A j \in i + 1 .. Len(r) : ~IsNatEvent(r[j])
    BY DEF NatOrdered
  <2>1. CASE i = Len(q) + 1
    BY <1>1, <1>5, <2>1
  <2>2. CASE i \in 1 .. Len(q)
    <3>1. l = "down" /\ \A j \in i + 1 .. Len(q) : ~IsNatEvent(q[j])
      BY <1>1, <2>2 DEF NatOrdered
    <3> QED
      BY <1>1, <1>3, <1>4, <2>2, <3>1
  <2> QED
    BY <1>2, <2>1, <2>2
<1>7. NatEventIn(r) <=> NatEventIn(q) \/ IsNatEvent(p)
  BY <1>1, <1>2 DEF NatEventIn
<1>8. (\A i \in 1 .. Len(q) : q[i] \in NatPackets) /\ p \in NatPackets =>
         \A i \in 1 .. Len(r) : r[i] \in NatPackets
  BY <1>1, <1>2
<1> QED
  BY <1>6, <1>7, <1>8 DEF r

LEMMA NatOrderedMore ==
    ASSUME NEW q, NEW l, NEW l2, NatOrdered(q, l),
           ~NatEventIn(q) \/ (l = "down" => l2 = "down")
    PROVE  NatOrdered(q, l2)
BY DEF NatOrdered, NatEventIn, IsNatEvent

\* A packet that only the session is concerned with, or that cannot come first.
LEMMA ReceiveNat ==
    ASSUME TypeOK, NatInv, NEW t, Receive(t), natConnected' = natConnected,
           natLink = "down" => natLink' = "down",
           Head(inbox) \in NatPackets => UNCHANGED <<asked, link, connected>>
    PROVE  NatInv'
<1>1. inbox \in Seq(Packets) /\ inbox # << >> /\ inbox' = Tail(inbox)
  BY DEF TypeOK, Receive
<1>2. NatOrdered(inbox', natLink')
  BY <1>1, TailNat, NatOrderedMore DEF NatInv
<1>3. Fresh => Fresh'
  BY <1>1, TailNat DEF NatInv, Fresh, AllDown
<1>4. NatOver => NatOver'
  BY <1>1, TailNat DEF NatInv, NatOver
<1> QED
  BY <1>2, <1>3, <1>4 DEF NatInv

LEMMA QueueNat ==
    ASSUME TypeOK, NatInv, NEW p \in Packets, Queue(p), natConnected' = natConnected,
           natLink = "down" => natLink' = "down" /\ ~IsNatEvent(p),
           IsNatEnd(p) => natLink' = "down",
           Fresh => p \in NatPackets /\ UNCHANGED <<asked, link, connected>>
    PROVE  NatInv'
<1>1. inbox \in Seq(Packets) /\ inbox' = Append(inbox, p)
  BY DEF TypeOK, Queue
<1>2. NatOrdered(inbox', natLink')
  BY <1>1, AppendNat DEF NatInv
<1>3. Fresh => Fresh'
  BY <1>1, AppendNat DEF NatInv, Fresh, AllDown
<1>4. NatOver => NatOver'
  BY <1>1, AppendNat DEF NatInv, NatOver
<1> QED
  BY <1>2, <1>3, <1>4 DEF NatInv

-----------------------------------------------------------------------------
\* The steps.

GuestInv == PeerInv /\ NatInv

\* Which packets are turns, and which the NAT server's.
LEMMA PacketKinds ==
    ASSUME NEW p \in Packets
    PROVE  /\ IsTurn(p) <=>
                 \/ p.type \in {"Punched", "PunchFailed", "RelayFound", "NoRelay", "Pong"}
                 \/ p.type \in Downs /\ p.from # "nat"
           /\ IsEnd(p) <=> p.type \in Downs /\ p.from # "nat"
           /\ IsNatEvent(p) <=> \/ p.type = "Accepted"
                                \/ p.type \in {"ConnectionLost", "Disconnected"} /\ p.from = "nat"
           /\ IsNatEnd(p) <=> p.type \in {"ConnectionLost", "Disconnected"} /\ p.from = "nat"
           /\ p \in NatPackets <=>
                 \/ p.type \in {"Accepted", "AlreadyConnected"}
                 \/ p.type \in {"ConnectionLost", "Disconnected"} /\ p.from = "nat"
           /\ p.from \in Paths <=> p.from # "nat"
BY DEF Packets, IsTurn, IsEnd, IsNatEvent, IsNatEnd, NatPackets, Downs, Paths

LEMMA FreshIsQuiet == TypeOK /\ Fresh => ~TurnIn(inbox)
BY PacketKinds DEF Fresh, TurnIn, NatPackets, Downs

LEMMA NatAcceptedStep ==
    ASSUME TypeOK, GuestInv, NatAccepted
    PROVE  GuestInv'
<1>1. /\ Receive("Accepted") /\ OnNatConnected(natConnected)
      /\ OnNatServerConnected(Announces(natConnected))
      /\ UNCHANGED <<connected, remote, link>>
      /\ inbox \in Seq(Packets) /\ inbox # << >> /\ inbox' = Tail(inbox)
  BY DEF NatAccepted, peerVars, TypeOK, Receive
<1>2. /\ Head(inbox) \in Packets /\ Head(inbox).type = "Accepted"
      /\ ~IsTurn(Head(inbox)) /\ IsNatEvent(Head(inbox))
  BY <1>1, ReceiveType, PacketKinds DEF Downs
<1>3. natLink = "down" => natLink' = "down"
  BY <1>1 DEF OnNatConnected, AfterClose
<1>4. NatOrdered(inbox', natLink')
  BY <1>1, <1>3, TailNat, NatOrderedMore DEF GuestInv, NatInv
<1>5. CASE Announces(natConnected)
  <2>1. ~natConnected /\ natConnected' = TRUE /\ asked' = asked \cup {"punch"}
    BY <1>1, <1>5 DEF Announces, OnNatConnected, OnNatServerConnected
  <2>2. Fresh
    BY <1>1, <1>2, <2>1, TailNat DEF GuestInv, NatInv, NatOver
  <2>3. ~TurnIn(inbox')
    BY <1>1, <2>2, FreshIsQuiet, TailTurn
  <2>4. /\ asked' = {"punch"} /\ AllDown' /\ ~connected'
        /\ OneWayAtATime' /\ OneTurn(inbox')
    BY <1>1, <2>1, <2>2, ReceivePeer DEF Fresh, AllDown, OneWayAtATime, GuestInv
  <2>5. PeerInv'
    BY <1>1, <2>3, <2>4, ReceivePeer DEF GuestInv, PeerInv, TurnInv, SessionHeld
  <2> QED
    BY <1>4, <2>1, <2>5 DEF GuestInv, NatInv
<1>6. CASE ~Announces(natConnected)
  <2>1. asked' = asked
    BY <1>1, <1>6 DEF OnNatServerConnected
  <2>2. PeerInv'
    BY <1>1, <1>2, <2>1, ReceiveQuiet DEF GuestInv
  <2>3. natConnected' = TRUE \/ natConnected' = natConnected
    BY <1>1 DEF OnNatConnected
  <2>4. NatInv'
    BY <1>1, <1>3, <1>4, <2>1, <2>3, ReceiveNat DEF GuestInv, NatInv
  <2> QED
    BY <2>2, <2>4 DEF GuestInv
<1> QED
  BY <1>5, <1>6

LEMMA NatDisconnectedStep ==
    ASSUME TypeOK, GuestInv, NatDisconnected
    PROVE  GuestInv'
<1>1. PICK t \in {"ConnectionLost", "Disconnected"} : Receive(t)
  BY DEF NatDisconnected
<1>2. /\ Head(inbox).from = "nat" /\ OnNatDisconnected(connected)
      /\ UNCHANGED <<asked, connected, remote, link>>
      /\ inbox \in Seq(Packets) /\ inbox # << >> /\ inbox' = Tail(inbox)
  BY <1>1 DEF NatDisconnected, guestVars, peerVars, TypeOK, Receive
<1>3. ~IsTurn(Head(inbox)) /\ IsNatEnd(Head(inbox))
  BY <1>1, <1>2, ReceiveType, PacketKinds DEF IsNatEnd, Downs
<1>4. PeerInv'
  BY <1>1, <1>2, <1>3, ReceiveQuiet DEF GuestInv
<1>5. natLink = "down" /\ ~NatEventIn(inbox')
  BY <1>2, <1>3, TailNat DEF GuestInv, NatInv
<1>6. NatOrdered(inbox', natLink')
  BY <1>5 DEF NatOrdered, NatEventIn, IsNatEvent
<1>7. natConnected' = natConnected \/ (~natConnected' /\ natLink' = natLink)
  BY <1>2 DEF OnNatDisconnected, natVars
<1>8. ~NatOver
  BY <1>2, <1>3, TailNat DEF NatOver, IsNatEvent, GuestInv, NatInv
<1>9. Fresh => Fresh'
  BY <1>2, TailNat DEF GuestInv, NatInv, Fresh, AllDown
<1> QED
  BY <1>4, <1>5, <1>6, <1>7, <1>8, <1>9 DEF GuestInv, NatInv, NatOver

LEMMA GuidTakenStep ==
    ASSUME TypeOK, GuestInv, GuidTaken
    PROVE  GuestInv'
<1>1. /\ Receive("AlreadyConnected") /\ UNCHANGED <<asked, connected, remote, link>>
      /\ natConnected' = natConnected /\ natLink' = AfterClose(natLink)
  BY DEF GuidTaken, OnGuidTaken, guestVars, peerVars
<1>2. ~IsTurn(Head(inbox))
  BY <1>1, ReceiveType, PacketKinds DEF Downs
<1>3. natLink = "down" => natLink' = "down"
  BY <1>1 DEF AfterClose
<1> QED
  BY <1>1, <1>2, <1>3, ReceiveQuiet, ReceiveNat DEF GuestInv

LEMMA SearchPacketStep ==
    ASSUME TypeOK, GuestInv,
           HostFound \/ PunchFailed \/ HostUnreachable \/ RelayFound \/ NoRelay
    PROVE  GuestInv'
<1>1. PICK t \in {"Punched", "Pong", "PunchFailed", "Unreachable", "RelayFound", "NoRelay"} :
         Receive(t) /\ (t = "Unreachable" <=> HostUnreachable)
  BY DEF HostFound, PunchFailed, HostUnreachable, RelayFound, NoRelay, Receive
<1>2. /\ Head(inbox) \in Packets /\ Head(inbox).type = t
      /\ Head(inbox) \notin NatPackets /\ ~IsEnd(Head(inbox))
      /\ IsTurn(Head(inbox)) <=> t # "Unreachable"
  BY <1>1, ReceiveType, PacketKinds DEF Downs
<1>3. UNCHANGED <<connected, remote, natLink, natConnected>>
  BY DEF HostFound, PunchFailed, HostUnreachable, RelayFound, NoRelay, natVars, guestVars
<1>4. NatInv'
  BY <1>1, <1>2, <1>3, ReceiveNat DEF GuestInv
<1>5. CASE t = "Unreachable"
  <2>1. UNCHANGED <<asked, link>>
    BY <1>1, <1>5 DEF HostUnreachable, guestVars, peerVars
  <2> QED
    BY <1>1, <1>2, <1>3, <1>4, <1>5, <2>1, ReceiveQuiet DEF GuestInv
<1>6. CASE t # "Unreachable"
  <2>1. asked = {}
    BY <1>1, <1>2, <1>6, ReceivePeer DEF GuestInv
  <2>2. \/ asked' = {} /\ \E a \in Paths : ConnectTo(a)
        \/ asked' = {} /\ link' = link
        \/ (\E s : asked' = {s}) /\ link' = link
    <3>1. "direct" \in Paths /\ "lan" \in Paths /\ "proxy" \in Paths
      BY DEF Paths
    <3>2. CASE HostFound
      BY <2>1, <3>1, <3>2 DEF HostFound
    <3>3. CASE PunchFailed
      BY <2>1, <3>1, <3>3 DEF PunchFailed, TryLan, TryRelay
    <3>4. CASE RelayFound
      BY <2>1, <3>1, <3>4 DEF RelayFound
    <3>5. CASE NoRelay
      BY <2>1, <3>5 DEF NoRelay, peerVars
    <3> QED
      BY <1>1, <1>6, <3>2, <3>3, <3>4, <3>5
  <2>3. PeerInv'
    BY <1>1, <1>2, <1>3, <1>6, <2>2, ReceiveTurn DEF GuestInv
  <2> QED
    BY <1>4, <2>3 DEF GuestInv
<1> QED
  BY <1>5, <1>6

LEMMA HostConnectedStep ==
    ASSUME TypeOK, GuestInv, HostConnected
    PROVE  GuestInv'
<1>1. /\ Receive("Connected")
      /\ UNCHANGED <<asked, connected, remote, link, natConnected, natLink>>
  BY DEF HostConnected, natVars
<1>2. ~IsTurn(Head(inbox))
  BY <1>1, ReceiveType, PacketKinds DEF Downs
<1> QED
  BY <1>1, <1>2, ReceiveQuiet, ReceiveNat DEF GuestInv

LEMMA HostDisconnectedStep ==
    ASSUME TypeOK, GuestInv, HostDisconnected
    PROVE  GuestInv'
<1> DEFINE a == Head(inbox).from
<1>1. PICK t \in {"ConnectionLost", "Disconnected"} : Receive(t)
  BY DEF HostDisconnected
<1>2. /\ a \in Paths /\ ReconnectOrGiveUp(a)
      /\ UNCHANGED <<asked, natLink, natConnected>>
  BY DEF HostDisconnected, natVars
<1>3. Head(inbox) \in Packets /\ IsEnd(Head(inbox)) /\ IsTurn(Head(inbox))
  BY <1>1, <1>2, ReceiveType DEF IsEnd, IsTurn, Downs
<1>4. asked = {} /\ AllDown
  BY <1>1, <1>3, ReceivePeer DEF GuestInv
<1>5. \/ ConnectTo(a) /\ UNCHANGED <<connected, remote>> /\ link'[a] # "down"
      \/ ~connected' /\ link' = link
  BY <1>2, <1>4, ConnectLink DEF ReconnectOrGiveUp
<1>6. PeerInv'
  BY <1>1, <1>2, <1>3, <1>4, <1>5, ReceiveTurn DEF GuestInv
<1>7. Head(inbox) \notin NatPackets
  BY <1>2, <1>3, PacketKinds DEF NatPackets
<1>8. NatInv'
  BY <1>1, <1>2, <1>7, ReceiveNat DEF GuestInv
<1> QED
  BY <1>6, <1>8 DEF GuestInv

LEMMA AttemptFailedStep ==
    ASSUME TypeOK, GuestInv, AttemptFailed
    PROVE  GuestInv'
<1> DEFINE a == Head(inbox).from
<1>1. /\ Receive("AttemptFailed") /\ UNCHANGED <<natLink, natConnected>>
  BY DEF AttemptFailed, natVars
<1>2. a \in Paths /\ Head(inbox) \in Packets /\ Head(inbox).type = "AttemptFailed"
  BY <1>1, ReceiveType, Senders
<1>3. IsEnd(Head(inbox)) /\ IsTurn(Head(inbox)) /\ Head(inbox) \notin NatPackets
  BY <1>2 DEF IsEnd, IsTurn, Downs, NatPackets
<1>4. asked = {} /\ AllDown
  BY <1>1, <1>3, ReceivePeer DEF GuestInv
<1>5. CASE connected /\ a = remote /\ ReconnectOrGiveUp(a) /\ asked' = asked
  <2>1. \/ ConnectTo(a) /\ UNCHANGED <<connected, remote>> /\ link'[a] # "down"
        \/ ~connected' /\ link' = link
    BY <1>2, <1>4, <1>5, ConnectLink DEF ReconnectOrGiveUp
  <2> QED
    BY <1>1, <1>2, <1>3, <1>4, <1>5, <2>1, ReceiveTurn, ReceiveNat DEF GuestInv
<1>6. CASE /\ ~(connected /\ a = remote) /\ UNCHANGED <<connected, remote, link>>
           /\ asked' = asked \/ \E s : asked' = asked \cup {s}
  BY <1>1, <1>2, <1>3, <1>4, <1>6, ReceiveTurn, ReceiveNat DEF GuestInv
<1> QED
  BY <1>5, <1>6 DEF AttemptFailed, TryRelay

LEMMA JoinAcceptedStep ==
    ASSUME TypeOK, GuestInv, JoinAccepted
    PROVE  GuestInv'
<1> DEFINE a == Head(inbox).from
<1>1. /\ Receive("JoinAccepted") /\ UNCHANGED <<asked, natConnected>>
      /\ natLink = "down" => natLink' = "down"
  BY DEF JoinAccepted, AfterClose
<1>2. a \in Paths /\ Head(inbox) \in Packets /\ Head(inbox).type = "JoinAccepted"
  BY <1>1, ReceiveType, Senders
<1>3. ~IsEnd(Head(inbox)) /\ ~IsTurn(Head(inbox)) /\ Head(inbox) \notin NatPackets
  BY <1>2 DEF IsEnd, IsTurn, Downs, NatPackets
<1>4. NatInv'
  BY <1>1, <1>3, ReceiveNat DEF GuestInv
<1>5. CASE testOnly
  <2>1. CloseTo(a) /\ UNCHANGED <<connected, remote>>
    BY <1>5 DEF JoinAccepted
  <2> QED
    BY <1>1, <1>2, <1>3, <1>4, <2>1, CloseLink, ReceiveQuiet DEF GuestInv
<1>6. CASE ~testOnly
  <2>1. connected' = TRUE /\ remote' = a /\ link' = link
    BY <1>6 DEF JoinAccepted
  <2>2. TurnInv'
    BY <1>1, <2>1, ReceivePeer DEF GuestInv, PeerInv, TurnInv, AllDown, OneWayAtATime
  <2>3. Followed(inbox, link)' /\ SessionHeld'
    BY <1>1, <1>2, <1>3, <2>1, ReceivePeer DEF GuestInv, SessionHeld
  <2> QED
    BY <1>4, <2>2, <2>3 DEF GuestInv, PeerInv
<1> QED
  BY <1>5, <1>6

LEMMA JoinRefusedStep ==
    ASSUME TypeOK, GuestInv, JoinRefused
    PROVE  GuestInv'
<1> DEFINE a == Head(inbox).from
<1>1. /\ Receive("JoinRefused") /\ UNCHANGED <<asked, natLink, natConnected>>
      /\ CloseTo(a) /\ connected' = FALSE
  BY DEF JoinRefused
<1>2. a \in Paths /\ Head(inbox) \in Packets /\ Head(inbox).type = "JoinRefused"
  BY <1>1, ReceiveType, Senders
<1>3. ~IsTurn(Head(inbox)) /\ Head(inbox) \notin NatPackets
  BY <1>2 DEF IsEnd, IsTurn, Downs, NatPackets
<1> QED
  BY <1>1, <1>2, <1>3, CloseLink, ReceiveQuiet, ReceiveNat DEF GuestInv

LEMMA NatServerStep ==
    ASSUME TypeOK, GuestInv, NatProgress \/ NatFault
    PROVE  GuestInv'
<1>1. PICK t \in {"Accepted", "AlreadyConnected", "ConnectionLost", "Disconnected"} :
         /\ Queue(Packet(t, "nat"))
         /\ natLink # "down"
         /\ t # "Accepted" => natLink' = "down"
  BY DEF NatProgress, NatFault, NatAccepts, NatCloses, NatRefuses, NatDrops, NatAnswers
<1> DEFINE p == Packet(t, "nat")
<1>2. p \in Packets /\ p.type = t /\ p.from = "nat"
  BY NewPackets DEF Packet
<1>3. UNCHANGED <<asked, connected, remote, link, natConnected>>
  BY DEF NatProgress, NatFault, NatAccepts, NatCloses, NatRefuses, NatDrops, NatUnchanged,
         guestVars, peerVars
<1> HIDE DEF p
<1>4. /\ ~IsTurn(p) /\ ~IsEnd(p) /\ p.from \notin Paths /\ p \in NatPackets
      /\ IsNatEnd(p) => natLink' = "down"
  BY <1>1, <1>2, PacketKinds DEF Downs
<1>5. PeerInv'
  <2>1. OneWayAtATime' /\ (AllDown => AllDown')
    BY <1>3 DEF GuestInv, PeerInv, TurnInv, OneWayAtATime, AllDown
  <2> QED
    BY <1>1, <1>2, <1>3, <1>4, <2>1, QueuePeer DEF GuestInv, p
<1>6. NatInv'
  BY <1>1, <1>2, <1>3, <1>4, QueueNat DEF GuestInv, p
<1> QED
  BY <1>5, <1>6 DEF GuestInv

LEMMA SearchEndsStep ==
    ASSUME TypeOK, GuestInv, NEW s \in Searches, SearchEnds(s)
    PROVE  GuestInv'
<1>1. /\ asked = {s} /\ asked' = {} /\ AllDown
      /\ UNCHANGED <<connected, remote, link, natConnected, natLink>>
  BY DEF SearchEnds, GuestInv, PeerInv, TurnInv, natVars, peerVars
<1>2. AllDown' /\ OneWayAtATime' /\ ~Fresh
  BY <1>1 DEF AllDown, OneWayAtATime, Fresh
<1>3. CASE UNCHANGED inbox
  <2>1. PeerInv'
    BY <1>1, <1>2, <1>3 DEF GuestInv, PeerInv, TurnInv, SessionHeld
  <2>2. NatInv'
    BY <1>1, <1>2, <1>3 DEF GuestInv, NatInv, NatOver
  <2> QED
    BY <2>1, <2>2 DEF GuestInv
<1>4. CASE \E t \in Answers(s) : Queue(Packet(t, "nat"))
  <2>1. PICK t \in {"Punched", "PunchFailed", "Unreachable", "RelayFound", "NoRelay", "Pong"} :
           Queue(Packet(t, "nat"))
    BY <1>4 DEF Answers, Searches
  <2> DEFINE p == Packet(t, "nat")
  <2>2. p \in Packets /\ p.type = t /\ p.from = "nat"
    BY NewPackets DEF Packet
  <2> HIDE DEF p
  <2>3. ~IsEnd(p) /\ p.from \notin Paths /\ ~IsNatEvent(p) /\ ~IsNatEnd(p)
    BY <2>1, <2>2, PacketKinds DEF Downs
  <2>4. PeerInv'
    BY <1>1, <1>2, <2>1, <2>2, <2>3, QueuePeer DEF GuestInv, p
  <2>5. NatInv'
    BY <1>1, <1>2, <2>1, <2>2, <2>3, QueueNat DEF GuestInv, p
  <2> QED
    BY <2>4, <2>5 DEF GuestInv
<1> QED
  BY <1>3, <1>4 DEF SearchEnds

LEMMA HostStepStep ==
    ASSUME TypeOK, GuestInv, NEW a \in Paths, HostStep(a)
    PROVE  GuestInv'
<1>1. UNCHANGED <<asked, connected, remote, natConnected, natLink>>
  BY DEF HostStep, HostAnswers, HostSilent, HostGone, HostClosed, HostDecides,
         PeerUnchanged, natVars, guestVars
<1>2. PICK t \in {"Connected", "JoinAccepted", "JoinRefused"} \cup Downs :
         /\ Queue(Packet(t, a))
         /\ link[a] # "down"
         /\ IF t \in Downs THEN link'[a] = "down" ELSE link'[a] # "down"
         /\ \A b \in Paths : b # a => link'[b] = link[b]
  BY DEF HostStep, HostAnswers, HostSilent, HostGone, HostClosed, HostDecides, PeerStep,
         Downs, TypeOK
<1> DEFINE p == Packet(t, a)
<1>3. p \in Packets /\ p.type = t /\ p.from = a /\ a # "nat"
  BY NewPackets DEF Packet, Paths
<1> HIDE DEF p
<1>4. (IsEnd(p) <=> t \in Downs) /\ (IsTurn(p) <=> t \in Downs) /\ ~IsNatEvent(p) /\ ~IsNatEnd(p)
  BY <1>2, <1>3, PacketKinds DEF Downs
<1>5. ~AllDown /\ ~Fresh
  BY <1>2 DEF AllDown, Fresh
<1>6. asked = {}
  BY <1>5 DEF GuestInv, PeerInv, TurnInv
<1>7. \A b \in Paths : b # a => link[b] = "down" /\ link'[b] = "down"
  BY <1>2 DEF GuestInv, PeerInv, TurnInv, OneWayAtATime
<1>8. OneWayAtATime' /\ (t \in Downs => AllDown')
  BY <1>2, <1>7 DEF OneWayAtATime, AllDown
<1>9. PeerInv'
  BY <1>1, <1>2, <1>3, <1>4, <1>5, <1>6, <1>7, <1>8, QueuePeer DEF GuestInv, p
<1>10. NatInv'
  BY <1>1, <1>2, <1>3, <1>4, <1>5, QueueNat DEF GuestInv, p
<1> QED
  BY <1>9, <1>10 DEF GuestInv

LEMMA NextGuest == TypeOK /\ GuestInv /\ [Next]_vars => GuestInv'
<1> SUFFICES ASSUME TypeOK, GuestInv, [Next]_vars PROVE GuestInv'
  OBVIOUS
<1>1. CASE Poll /\ ~EndOfPoll
  BY <1>1, NatAcceptedStep, NatDisconnectedStep, GuidTakenStep, SearchPacketStep,
     HostConnectedStep, HostDisconnectedStep, AttemptFailedStep, JoinAcceptedStep,
     JoinRefusedStep DEF Poll
<1>2. CASE NatStep
  BY <1>2, NatServerStep, SearchEndsStep DEF NatStep
<1>3. CASE \E a \in Paths : HostStep(a)
  BY <1>3, HostStepStep
<1>4. CASE EndOfPoll \/ UNCHANGED vars
  <2>1. UNCHANGED <<inbox, asked, connected, remote, link, natConnected, natLink>>
    BY <1>4 DEF EndOfPoll, vars, natVars, guestVars, peerVars
  <2> QED
    BY <2>1 DEF GuestInv, PeerInv, TurnInv, SessionHeld, NatInv, NatOver, Fresh, AllDown,
                OneWayAtATime
<1> QED
  BY <1>1, <1>2, <1>3, <1>4 DEF Next

LEMMA InitGuest == Init => GuestInv
<1> SUFFICES ASSUME Init PROVE GuestInv
  OBVIOUS
<1>1. /\ inbox = << >> /\ Len(inbox) = 0
      /\ asked = {} /\ ~connected /\ AllDown
  BY EmptySeq DEF Init, GuestInit, NatInit, AllDown
<1>2. \A i \in 1 .. Len(inbox) : FALSE
  BY <1>1
<1>3. PeerInv
  BY <1>1, <1>2
    DEF PeerInv, TurnInv, OneTurn, OneWayAtATime, AllDown, TurnIn, Followed, SessionHeld
<1>4. NatInv
  BY <1>1, <1>2 DEF NatInv, NatOrdered, Fresh
<1> QED
  BY <1>3, <1>4 DEF GuestInv

LEMMA GuestInvHolds == Spec => []GuestInv
BY InitGuest, NextGuest, GuestTypeCorrect, PTL DEF Spec

\* Whatever fails or is late at the NAT server, the proxy server, in the LAN and
\* at the host, the guest never holds two connections to it.
THEOREM OneWayIsTried == Spec => []OneWayAtATime
<1>1. GuestInv => OneWayAtATime
  BY DEF GuestInv, PeerInv, TurnInv
<1> QED
  BY <1>1, GuestInvHolds, PTL

\* A guest in a session has its host, is on its way back to it, or has the
\* packet that says that it is gone in its queue.
THEOREM GoneHostsAreNoticed == Spec => []GoneHostIsNoticed
<1>1. GuestInv => GoneHostIsNoticed
  BY HeldIsNoticed DEF GuestInv, PeerInv
<1> QED
  BY <1>1, GuestInvHolds, PTL

\* An answer that lets the guest in comes over the path that it is in session on.
LEMMA AcceptedOnPath ==
    ASSUME TypeOK, GuestInv, JoinAccepted, connected
    PROVE  Head(inbox).from = remote
<1> DEFINE a == Head(inbox).from
<1>1. Receive("JoinAccepted") /\ a \in Paths /\ Head(inbox).type = "JoinAccepted"
  BY ReceiveType, Senders DEF JoinAccepted
<1>2. ~IsEnd(Head(inbox))
  BY <1>1 DEF IsEnd, Downs
<1>3. /\ remote \in Paths
      /\ link[remote] # "down" \/ EndIn(inbox', remote)
      /\ link[a] # "down" \/ EndIn(inbox', a)
      /\ (EndIn(inbox', remote) \/ EndIn(inbox', a)) => AllDown
  BY <1>1, <1>2, ReceivePeer DEF GuestInv
<1>4. CASE AllDown
  <2>1. EndIn(inbox', remote) /\ EndIn(inbox', a) /\ OneTurn(inbox')
    BY <1>1, <1>3, <1>4, ReceivePeer DEF AllDown, GuestInv
  <2> QED
    BY <2>1 DEF EndIn, OneTurn, IsTurn
<1>5. CASE ~AllDown
  BY <1>1, <1>3, <1>5 DEF GuestInv, PeerInv, TurnInv, OneWayAtATime
<1> QED
  BY <1>4, <1>5

\* While a session runs it stays on its path.
THEOREM SessionsKeepTheirPath == Spec => SessionKeepsPath
<1>1. TypeOK /\ GuestInv /\ [Next]_vars => [connected /\ connected' => remote' = remote]_vars
  <2> SUFFICES ASSUME TypeOK, GuestInv, Next, connected, connected'
               PROVE  remote' = remote
    OBVIOUS
  <2>1. CASE JoinAccepted
    BY <2>1, AcceptedOnPath DEF JoinAccepted
  <2>2. CASE Poll /\ ~JoinAccepted
    BY <2>2 DEF Poll, NatAccepted, NatDisconnected, GuidTaken, HostFound, PunchFailed,
                HostUnreachable, RelayFound, NoRelay, HostConnected, HostDisconnected,
                AttemptFailed, JoinRefused, EndOfPoll, ReconnectOrGiveUp, guestVars
  <2>3. CASE NatStep
    BY <2>3 DEF NatStep, NatProgress, NatFault, SearchEnds, guestVars
  <2>4. CASE \E a \in Paths : HostStep(a)
    BY <2>4 DEF HostStep, HostAnswers, HostSilent, HostGone, HostClosed, HostDecides,
                PeerUnchanged, guestVars
  <2> QED
    BY <2>1, <2>2, <2>3, <2>4 DEF Next
<1> QED
  BY <1>1, GuestTypeCorrect, GuestInvHolds, PTL DEF Spec, SessionKeepsPath
=============================================================================
