-------------------------- MODULE HostHandlerProofs --------------------------
(***************************************************************************)
(* Proofs about HostHandler for every set of guests, number of attempts    *)
(* and budget.                                                             *)
(***************************************************************************)
EXTENDS HostHandler, TLAPS, SequenceTheorems

-----------------------------------------------------------------------------
\* The queue.

LEMMA HeadIsPacket ==
    ASSUME TypeOK, inbox # << >>
    PROVE  Head(inbox) \in Packets /\ Tail(inbox) \in Seq(Packets)
  BY HeadTailProperties DEF TypeOK

LEMMA PacketsAre ==
    ASSUME NEW p \in Packets
    PROVE  /\ p.type \in Requests \cup {"NewIncoming"} => p.from \in Guests
           /\ p.type \in {"Accepted", "AlreadyConnected"} => p.from = NatServer
           /\ p.type \in {"Reinvite", "ReconnectNat"} => p.from = NoGuest
           /\ p.type \in Downs => p.from \in Guests \cup {NatServer}
           /\ p.key \in Nat
  BY DEF Packets, Requests, Downs

LEMMA NewPackets ==
    /\ Packet("Accepted", NatServer) \in Packets
    /\ Packet("AlreadyConnected", NatServer) \in Packets
    /\ Packet("ConnectionLost", NatServer) \in Packets
    /\ Packet("Disconnected", NatServer) \in Packets
    /\ Packet("Reinvite", NoGuest) \in Packets
    /\ Packet("ReconnectNat", NoGuest) \in Packets
    /\ \A c \in Guests : /\ Packet("NewIncoming", c) \in Packets
                         /\ Packet("ConnectionLost", c) \in Packets
                         /\ Packet("Disconnected", c) \in Packets
    /\ \A c \in Guests, t \in Requests, k \in Nat :
          [type |-> t, from |-> c, key |-> k] \in Packets
  BY DEF Packets, Packet, Requests, Downs

-----------------------------------------------------------------------------
\* Types.

LEMMA ReceiveType ==
    ASSUME TypeOK, NEW t, Receive(t)
    PROVE  /\ inbox' \in Seq(Packets) /\ phase' \in Phases
           /\ inbox # << >> /\ Head(inbox) \in Packets
  BY HeadIsPacket DEF Receive, Phases

LEMMA QueueType ==
    ASSUME TypeOK, NEW p \in Packets, Queue(p)
    PROVE  inbox' \in Seq(Packets)
  BY AppendProperties DEF Queue, TypeOK

\* What the variables of the base class are, and those of the host.
NatVarsOK ==
    /\ natLink \in Links
    /\ natConnected \in BOOLEAN
    /\ natAttempts \in 0 .. MaxAttempts
    /\ forwarding \in BOOLEAN /\ forwarded \in BOOLEAN
    /\ error \in BOOLEAN

HostVarsOK ==
    /\ connected \in BOOLEAN /\ remote \in Guests \cup {NoGuest}
    /\ timer \in {"off", "running", "expired"} /\ dontWait \in BOOLEAN
    /\ key \in Nat
    /\ accepting \in BOOLEAN /\ left \in BOOLEAN /\ inviting \in BOOLEAN

PeerVarsOK ==
    /\ link \in [Guests -> {"down", "up", "closing"}]
    /\ replies \in [Guests -> Seq({"accepted", "refused"})]
    /\ budget \in 0 .. Budget

LEMMA TypeParts ==
    TypeOK <=> /\ inbox \in Seq(Packets) /\ phase \in Phases
               /\ NatVarsOK /\ HostVarsOK /\ PeerVarsOK
  BY DEF TypeOK, NatTypeOK, NatVarsOK, HostVarsOK, PeerVarsOK

LEMMA TypePartsNext ==
    TypeOK' <=> /\ inbox' \in Seq(Packets) /\ phase' \in Phases
                /\ NatVarsOK' /\ HostVarsOK' /\ PeerVarsOK'
  BY DEF TypeOK, NatTypeOK, NatVarsOK, HostVarsOK, PeerVarsOK

LEMMA OnNatConnectedType ==
    ASSUME NatVarsOK, NEW was \in BOOLEAN, OnNatConnected(was)
    PROVE  NatVarsOK'
  <1>1. MaxAttempts \in 0 .. MaxAttempts
    BY AttemptsAssumption
  <1>2. AfterClose(natLink) \in Links
    BY DEF NatVarsOK, Links, AfterClose
  <1>3. QED
    BY <1>1, <1>2 DEF NatVarsOK, OnNatConnected

LEMMA OnNatDisconnectedType ==
    ASSUME NatVarsOK, NEW c \in BOOLEAN, OnNatDisconnected(c)
    PROVE  NatVarsOK'
  <1>1. natAttempts > 0 => natAttempts - 1 \in 0 .. MaxAttempts
    BY AttemptsAssumption DEF NatVarsOK
  <1>2. AfterConnect(natLink) \in Links
    BY DEF NatVarsOK, Links, AfterConnect
  <1>3. CASE forwarding
    BY <1>3 DEF NatVarsOK, OnNatDisconnected, natVars
  <1>4. CASE ~forwarding /\ ~c /\ natAttempts > 0
    BY <1>1, <1>2, <1>4 DEF NatVarsOK, OnNatDisconnected
  <1>5. CASE ~forwarding /\ ~(~c /\ natAttempts > 0)
    BY <1>5 DEF NatVarsOK, OnNatDisconnected
  <1>6. QED
    BY <1>3, <1>4, <1>5

LEMMA RestartType ==
    ASSUME NatVarsOK, Restart
    PROVE  NatVarsOK'
  <1>1. MaxAttempts \in 0 .. MaxAttempts
    BY AttemptsAssumption
  <1>2. AfterConnect(natLink) \in Links
    BY DEF NatVarsOK, Links, AfterConnect
  <1>3. CASE natConnected
    BY <1>3, OnNatConnectedType DEF Restart
  <1>4. CASE ~natConnected
    BY <1>1, <1>2, <1>4 DEF NatVarsOK, Restart
  <1>5. QED
    BY <1>3, <1>4

LEMMA OnNatServerConnectedType ==
    ASSUME HostVarsOK, NEW called \in BOOLEAN, OnNatServerConnected(called)
    PROVE  key' \in Nat /\ accepting' \in BOOLEAN /\ inviting' \in BOOLEAN
  <1>1. key \in Nat /\ key + 1 \in Nat
    BY DEF HostVarsOK
  <1>2. CASE called
    BY <1>1, <1>2 DEF OnNatServerConnected
  <1>3. CASE ~called
    BY <1>3 DEF HostVarsOK, OnNatServerConnected
  <1>4. QED
    BY <1>2, <1>3

LEMMA AnnouncesType ==
    ASSUME NatVarsOK, NEW was \in BOOLEAN
    PROVE  Announces(was) \in BOOLEAN
  BY DEF NatVarsOK, Announces

LEMMA DoRestartType ==
    ASSUME NatVarsOK, HostVarsOK, DoRestart
    PROVE  NatVarsOK' /\ HostVarsOK'
  <1>1. NatVarsOK'
    BY RestartType DEF DoRestart
  <1>2. key' \in Nat /\ accepting' \in BOOLEAN /\ inviting' \in BOOLEAN
    <2>1. (natConnected /\ Announces(FALSE)) \in BOOLEAN
      OBVIOUS
    <2>2. QED
      BY <2>1, OnNatServerConnectedType DEF DoRestart
  <1>3. QED
    BY <1>1, <1>2 DEF HostVarsOK, DoRestart, SessionReset

LEMMA NatAcceptedType == TypeOK /\ NatAccepted => TypeOK'
<1> SUFFICES ASSUME TypeOK, NatAccepted PROVE TypeOK'
  OBVIOUS
<1>1. NatVarsOK /\ HostVarsOK /\ PeerVarsOK /\ natConnected \in BOOLEAN
  BY TypeParts DEF NatVarsOK
<1>2. inbox' \in Seq(Packets) /\ phase' \in Phases
  BY ReceiveType DEF NatAccepted
<1>3. NatVarsOK'
  BY <1>1, OnNatConnectedType DEF NatAccepted
<1>4. key' \in Nat /\ accepting' \in BOOLEAN /\ inviting' \in BOOLEAN
  BY <1>1, AnnouncesType, OnNatServerConnectedType DEF NatAccepted
<1>5. HostVarsOK' /\ PeerVarsOK'
  BY <1>1, <1>4 DEF NatAccepted, sessionVars, peerVars, HostVarsOK, PeerVarsOK
<1>6. QED
  BY <1>2, <1>3, <1>5, TypePartsNext

LEMMA NatDisconnectedType == TypeOK /\ NatDisconnected => TypeOK'
<1> SUFFICES ASSUME TypeOK, NatDisconnected PROVE TypeOK'
  OBVIOUS
<1>1. NatVarsOK /\ HostVarsOK /\ PeerVarsOK /\ connected \in BOOLEAN
  BY TypeParts DEF HostVarsOK
<1>2. inbox' \in Seq(Packets) /\ phase' \in Phases
  BY ReceiveType DEF NatDisconnected
<1>3. NatVarsOK'
  BY <1>1, OnNatDisconnectedType DEF NatDisconnected
<1>4. HostVarsOK' /\ PeerVarsOK'
  BY <1>1 DEF NatDisconnected, hostVars, sessionVars, peerVars, HostVarsOK, PeerVarsOK
<1>5. QED
  BY <1>2, <1>3, <1>4, TypePartsNext

LEMMA GuidTakenType == TypeOK /\ (GuidTaken \/ ReconnectNat) => TypeOK'
<1> SUFFICES ASSUME TypeOK, GuidTaken \/ ReconnectNat PROVE TypeOK'
  OBVIOUS
<1>1. NatVarsOK /\ HostVarsOK /\ PeerVarsOK
  BY TypeParts
<1>2. inbox' \in Seq(Packets) /\ phase' \in Phases
  BY ReceiveType DEF GuidTaken, ReconnectNat
<1>3. NatVarsOK'
  <2>1. 0 \in 0 .. MaxAttempts /\ MaxAttempts \in 0 .. MaxAttempts
    BY AttemptsAssumption
  <2>2. AfterClose(natLink) \in Links /\ AfterConnect(AfterClose(natLink)) \in Links
    BY <1>1 DEF NatVarsOK, Links, AfterClose, AfterConnect
  <2>3. QED
    BY <1>1, <2>1, <2>2 DEF GuidTaken, ReconnectNat, OnGuidTaken, OnReconnectNat, NatVarsOK
<1>4. HostVarsOK' /\ PeerVarsOK'
  BY <1>1 DEF GuidTaken, ReconnectNat, hostVars, sessionVars, peerVars, HostVarsOK, PeerVarsOK
<1>5. QED
  BY <1>2, <1>3, <1>4, TypePartsNext

LEMMA NewIncomingType == TypeOK /\ NewIncoming => TypeOK'
<1> SUFFICES ASSUME TypeOK, NewIncoming PROVE TypeOK'
  OBVIOUS
<1>1. NatVarsOK /\ HostVarsOK /\ PeerVarsOK
  BY TypeParts
<1>2. inbox' \in Seq(Packets) /\ phase' \in Phases
  BY ReceiveType DEF NewIncoming
<1>3. NatVarsOK' /\ HostVarsOK' /\ PeerVarsOK'
  BY <1>1 DEF NewIncoming, natVars, peerVars, NatVarsOK, HostVarsOK, PeerVarsOK
<1>4. QED
  BY <1>2, <1>3, TypePartsNext

LEMMA GuestDisconnectedType == TypeOK /\ GuestDisconnected => TypeOK'
<1> SUFFICES ASSUME TypeOK, GuestDisconnected PROVE TypeOK'
  OBVIOUS
<1>1. NatVarsOK /\ HostVarsOK /\ PeerVarsOK
  BY TypeParts
<1>2. inbox' \in Seq(Packets) /\ phase' \in Phases
  BY ReceiveType DEF GuestDisconnected
<1>3. timer' \in {"off", "running", "expired"}
  BY <1>1 DEF GuestDisconnected, HostVarsOK
<1>4. dontWait' \in BOOLEAN /\ left' \in BOOLEAN
  BY <1>1 DEF GuestDisconnected, HostVarsOK
<1>5. NatVarsOK' /\ HostVarsOK' /\ PeerVarsOK'
  BY <1>1, <1>3, <1>4 DEF GuestDisconnected, natVars, peerVars, NatVarsOK, HostVarsOK, PeerVarsOK
<1>6. QED
  BY <1>2, <1>5, TypePartsNext

LEMMA RequestType == TypeOK /\ Request => TypeOK'
<1> SUFFICES ASSUME TypeOK, Request PROVE TypeOK'
  OBVIOUS
<1> DEFINE p == Head(inbox)
<1>1. NatVarsOK /\ HostVarsOK /\ PeerVarsOK
  BY TypeParts
<1>2. /\ inbox' \in Seq(Packets) /\ phase' \in Phases
      /\ p \in Packets /\ p.type \in Requests
  BY ReceiveType DEF Request, Receive
<1>3. p.from \in Guests /\ p.key \in Nat
  BY <1>2, PacketsAre
<1>4. replies' \in [Guests -> Seq({"accepted", "refused"})]
  <2>1. PICK a \in {"accepted", "refused"} :
           replies' = [replies EXCEPT ![p.from] =
                         IF link[p.from] # "up" THEN @ ELSE Append(@, a)]
    BY DEF Request
  <2>2. Append(replies[p.from], a) \in Seq({"accepted", "refused"})
    BY <1>1, <1>3, AppendProperties DEF PeerVarsOK
  <2>3. QED
    BY <1>1, <2>1, <2>2 DEF PeerVarsOK
<1>5. NatVarsOK' /\ connected' \in BOOLEAN /\ remote' \in Guests \cup {NoGuest}
      /\ left' \in BOOLEAN
  <2>1. CASE Acceptable(p) /\ p.type # "Test"
    <3>1. AfterClose(natLink) \in Links
      BY <1>1 DEF NatVarsOK, Links, AfterClose
    <3>2. NatVarsOK' /\ connected' \in BOOLEAN /\ remote' \in Guests \cup {NoGuest}
      BY <1>1, <1>3, <2>1, <3>1 DEF Request, SetActiveConnection, NatVarsOK
    <3>3. left' \in BOOLEAN
      BY <1>1, <1>3, <2>1 DEF Request, HostVarsOK
    <3>4. QED
      BY <3>2, <3>3
  <2>2. CASE ~(Acceptable(p) /\ p.type # "Test")
    BY <1>1, <2>2 DEF Request, natVars, NatVarsOK, HostVarsOK
  <2>3. QED
    BY <2>1, <2>2
<1>6. HostVarsOK' /\ PeerVarsOK'
  BY <1>1, <1>4, <1>5 DEF Request, HostVarsOK, PeerVarsOK
<1>7. QED
  BY <1>2, <1>5, <1>6, TypePartsNext

LEMMA ReinviteType == TypeOK /\ Reinvite => TypeOK'
<1> SUFFICES ASSUME TypeOK, Reinvite PROVE TypeOK'
  OBVIOUS
<1>1. NatVarsOK /\ HostVarsOK /\ PeerVarsOK
  BY TypeParts
<1>2. inbox' \in Seq(Packets) /\ phase' \in Phases
  BY ReceiveType DEF Reinvite
<1>3. NatVarsOK' /\ HostVarsOK'
  <2>1. CASE connected
    BY <1>1, <2>1 DEF Reinvite, natVars, NatVarsOK, HostVarsOK
  <2>2. CASE ~connected
    BY <1>1, <2>2, DoRestartType DEF Reinvite
  <2>3. QED
    BY <2>1, <2>2
<1>4. link' \in [Guests -> {"down", "up", "closing"}]
  <2>1. \A c \in Guests : AfterClose(link[c]) \in {"down", "up", "closing"}
    BY <1>1 DEF PeerVarsOK, AfterClose
  <2>2. link' = link \/ link' = [link EXCEPT ![remote] = AfterClose(@)]
    BY DEF Reinvite
  <2>3. QED
    BY <1>1, <2>1, <2>2 DEF PeerVarsOK
<1>5. PeerVarsOK'
  BY <1>1, <1>4 DEF Reinvite, PeerVarsOK
<1>6. QED
  BY <1>2, <1>3, <1>5, TypePartsNext

LEMMA AdditionalUpdateType == TypeOK /\ AdditionalUpdate => TypeOK'
<1> SUFFICES ASSUME TypeOK, AdditionalUpdate PROVE TypeOK'
  OBVIOUS
<1>1. inbox \in Seq(Packets) /\ NatVarsOK /\ HostVarsOK /\ PeerVarsOK
  BY TypeParts
<1>2. inbox' \in Seq(Packets) /\ phase' \in Phases /\ PeerVarsOK'
  BY <1>1 DEF AdditionalUpdate, PollEnds, Phases, peerVars, PeerVarsOK
<1>3. NatVarsOK' /\ HostVarsOK'
  <2>1. CASE ~GaveUp
    BY <1>1, <2>1 DEF AdditionalUpdate, natVars, hostVars, sessionVars, NatVarsOK, HostVarsOK
  <2>2. CASE GaveUp /\ ~natConnected
    BY <1>1, <2>2, DoRestartType DEF AdditionalUpdate
  <2>3. CASE GaveUp /\ natConnected
    BY <1>1, <2>3 DEF AdditionalUpdate, SessionReset, NatVarsOK, HostVarsOK
  <2>4. QED
    BY <2>1, <2>2, <2>3
<1>4. QED
  BY <1>2, <1>3, TypePartsNext

LEMMA OtherThreadsType ==
    TypeOK /\ (CreateNewInvitation \/ PortForwarded \/ TimeIsUp) => TypeOK'
<1> SUFFICES ASSUME TypeOK, CreateNewInvitation \/ PortForwarded \/ TimeIsUp
             PROVE  TypeOK'
  OBVIOUS
<1>1. /\ inbox \in Seq(Packets) /\ phase \in Phases
      /\ NatVarsOK /\ HostVarsOK /\ PeerVarsOK
  BY TypeParts
<1>2. CASE CreateNewInvitation
  <2>1. inbox' \in Seq(Packets)
    BY <1>2, QueueType, NewPackets DEF CreateNewInvitation
  <2>2. budget' \in 0 .. Budget
    BY <1>1, <1>2, GuestAssumption DEF CreateNewInvitation, Spend, PeerVarsOK
  <2>3. NatVarsOK' /\ HostVarsOK' /\ PeerVarsOK' /\ phase' \in Phases
    BY <1>1, <1>2, <2>2 DEF CreateNewInvitation, natVars, sessionVars,
                            NatVarsOK, HostVarsOK, PeerVarsOK
  <2>4. QED
    BY <2>1, <2>3, TypePartsNext
<1>3. CASE PortForwarded
  <2>1. inbox' \in Seq(Packets)
    BY <1>3, QueueType, NewPackets DEF PortForwarded, ForwardingDone
  <2>2. NatVarsOK' /\ HostVarsOK' /\ PeerVarsOK' /\ phase' \in Phases
    BY ZenonT(40), <1>1, <1>3 DEF PortForwarded, ForwardingDone, hostVars, sessionVars, peerVars,
                      NatVarsOK, HostVarsOK, PeerVarsOK
  <2>3. QED
    BY <2>1, <2>2, TypePartsNext
<1>4. CASE TimeIsUp
  <2>1. /\ NatVarsOK' /\ HostVarsOK' /\ PeerVarsOK'
        /\ phase' \in Phases /\ inbox' \in Seq(Packets)
    BY <1>1, <1>4 DEF TimeIsUp, natVars, peerVars, NatVarsOK, HostVarsOK, PeerVarsOK
  <2>2. QED
    BY <2>1, TypePartsNext
<1>5. QED
  BY <1>2, <1>3, <1>4

LEMMA NatStepType == TypeOK /\ NatStep => TypeOK'
<1> SUFFICES ASSUME TypeOK, NatStep PROVE TypeOK'
  OBVIOUS
<1>1. phase \in Phases /\ NatVarsOK /\ HostVarsOK /\ PeerVarsOK
  BY TypeParts
<1> USE DEF NatStep, NatProgress, NatFault, NatAccepts, NatRefuses, NatDrops,
            NatCloses, NatAnswers, NatUnchanged
<1>2. inbox' \in Seq(Packets)
  BY QueueType, NewPackets
<1>3. NatVarsOK' /\ phase' \in Phases
  BY <1>1 DEF NatVarsOK, Links
<1>4. budget' \in 0 .. Budget
  BY <1>1, GuestAssumption DEF Spend, peerVars, PeerVarsOK
<1>5. HostVarsOK' /\ PeerVarsOK'
  BY <1>1, <1>4 DEF hostVars, sessionVars, peerVars, HostVarsOK, PeerVarsOK
<1>6. QED
  BY <1>2, <1>3, <1>5, TypePartsNext

LEMMA GuestStepType ==
    ASSUME TypeOK, NEW c \in Guests, GuestStep(c)
    PROVE  TypeOK'
<1>1. /\ inbox \in Seq(Packets) /\ phase \in Phases
      /\ NatVarsOK /\ HostVarsOK /\ PeerVarsOK /\ key \in Nat
  BY TypeParts DEF HostVarsOK
<1>2. PeerUnchanged
  BY DEF GuestStep, GuestConnects, GuestLost, GuestCloses, GuestAsks, GuestHears
<1>3. NatVarsOK' /\ HostVarsOK' /\ phase' \in Phases
  BY <1>1, <1>2 DEF PeerUnchanged, natVars, hostVars, sessionVars, NatVarsOK, HostVarsOK
<1>4. inbox' \in Seq(Packets) /\ PeerVarsOK'
  <2> DEFINE R == Seq({"accepted", "refused"})
  <2>1. CASE GuestConnects(c)
    <3>1. inbox' \in Seq(Packets)
      BY <2>1, QueueType, NewPackets DEF GuestConnects
    <3>2. PeerVarsOK'
      BY <1>1, <2>1, GuestAssumption DEF GuestConnects, PeerStep, Spend, PeerVarsOK
    <3>3. QED
      BY <3>1, <3>2
  <2>2. CASE GuestLost(c)
    <3>1. inbox' \in Seq(Packets)
      BY <2>2, QueueType, NewPackets DEF GuestLost
    <3>2. << >> \in R
      OBVIOUS
    <3>3. PeerVarsOK'
      BY <1>1, <2>2, <3>2 DEF GuestLost, PeerStep, PeerVarsOK
    <3>4. QED
      BY <3>1, <3>3
  <2>3. CASE GuestCloses(c)
    <3>1. inbox' \in Seq(Packets)
      BY <2>3, QueueType, NewPackets DEF GuestCloses
    <3>2. PeerVarsOK'
      BY <1>1, <2>3 DEF GuestCloses, PeerStep, PeerVarsOK
    <3>3. QED
      BY <3>1, <3>2
  <2>4. CASE \E t \in Requests, k \in 1 .. key : GuestAsks(c, t, k)
    <3>1. PICK t \in Requests, k \in 1 .. key : GuestAsks(c, t, k)
      BY <2>4
    <3>2. k \in Nat
      BY <1>1
    <3>3. inbox' \in Seq(Packets)
      BY <3>1, <3>2, QueueType, NewPackets DEF GuestAsks
    <3>4. PeerVarsOK'
      BY <1>1, <3>1, GuestAssumption DEF GuestAsks, Spend, PeerVarsOK
    <3>5. QED
      BY <3>3, <3>4
  <2>5. CASE GuestHears(c)
    <3>1. Tail(replies[c]) \in R
      BY <1>1, <2>5, HeadTailProperties DEF GuestHears, PeerVarsOK
    <3>2. PeerVarsOK' /\ inbox' \in Seq(Packets)
      BY <1>1, <2>5, <3>1 DEF GuestHears, PeerVarsOK
    <3>3. QED
      BY <3>2
  <2>6. QED
    BY <2>1, <2>2, <2>3, <2>4, <2>5 DEF GuestStep
<1>5. QED
  BY <1>3, <1>4, TypePartsNext

LEMMA InitType == Init => TypeOK
<1> SUFFICES ASSUME Init PROVE TypeOK
  OBVIOUS
<1>1. NatVarsOK /\ inbox \in Seq(Packets) /\ phase \in Phases
  <2>1. MaxAttempts \in 0 .. MaxAttempts
    BY AttemptsAssumption
  <2>2. << >> \in Seq(Packets)
    OBVIOUS
  <2>3. QED
    BY <2>1, <2>2 DEF Init, HostInit, NatInit, NatVarsOK, Links, Phases
<1>2. HostVarsOK
  BY DEF Init, HostInit, HostVarsOK
<1>3. PeerVarsOK
  BY GuestAssumption DEF Init, PeerVarsOK
<1>4. QED
  BY <1>1, <1>2, <1>3, TypeParts

LEMMA NextType == TypeOK /\ [Next]_vars => TypeOK'
<1> SUFFICES ASSUME TypeOK, [Next]_vars PROVE TypeOK'
  OBVIOUS
<1>1. CASE Poll
  BY <1>1, NatAcceptedType, NatDisconnectedType, GuidTakenType, NewIncomingType,
     GuestDisconnectedType, RequestType, ReinviteType, AdditionalUpdateType DEF Poll
<1>2. CASE CreateNewInvitation \/ PortForwarded \/ TimeIsUp
  BY <1>2, OtherThreadsType
<1>3. CASE NatStep
  BY <1>3, NatStepType
<1>4. CASE \E c \in Guests : GuestStep(c)
  BY <1>4, GuestStepType
<1>5. CASE UNCHANGED vars
  BY <1>5 DEF vars, natVars, hostVars, sessionVars, peerVars, TypeOK, NatTypeOK
<1>6. QED
  BY <1>1, <1>2, <1>3, <1>4, <1>5 DEF Next, HostStep

\* Type correctness: among other things the NAT attempts stay between 0 and
\* their maximum, and only guests, never the NAT server, get into a session.
THEOREM HostTypeCorrect == Spec => []TypeOK
<1>1. QED
  BY InitType, NextType, PTL DEF Spec

-----------------------------------------------------------------------------
\* Sessions.

\* m_dontWait is set in a session only, whose reset clears it.
SessionInv ==
    /\ SessionShape
    /\ dontWait => connected /\ left

\* An action that leaves the session's variables alone.
LEMMA SessionUnchanged == SessionInv /\ UNCHANGED sessionVars => SessionInv'
  BY DEF SessionInv, SessionShape, sessionVars

LEMMA ResetSession == SessionReset => SessionInv'
  BY DEF SessionInv, SessionShape, SessionReset

LEMMA NextSession == TypeOK /\ SessionInv /\ [Next]_vars => SessionInv'
<1> SUFFICES ASSUME TypeOK, SessionInv, [Next]_vars PROVE SessionInv'
  OBVIOUS
<1>1. CASE NatAccepted \/ NatDisconnected \/ GuidTaken \/ ReconnectNat
  BY <1>1, SessionUnchanged
  DEF NatAccepted, NatDisconnected, GuidTaken, ReconnectNat, hostVars
<1>2. CASE NewIncoming
  <2>1. timer' \in {"off", timer}
    BY <1>2 DEF NewIncoming
  <2>2. QED
    BY <1>2, <2>1 DEF NewIncoming, SessionInv, SessionShape
<1>3. CASE GuestDisconnected
  <2>1. Head(inbox).from \in Guests
    BY <1>3 DEF GuestDisconnected
  <2>2. Head(inbox).from = remote => connected
    BY <2>1, GuestAssumption DEF SessionInv, SessionShape
  <2>3. timer' # "off" => connected
    BY <1>3, <2>2 DEF GuestDisconnected, SessionInv, SessionShape
  <2>4. dontWait' => connected /\ left'
    BY <1>3, <2>2 DEF GuestDisconnected, SessionInv
  <2>5. connected' = connected /\ remote' = remote
    BY <1>3 DEF GuestDisconnected
  <2>6. QED
    BY <2>3, <2>4, <2>5 DEF SessionInv, SessionShape
<1>4. CASE Request
  <2> DEFINE p == Head(inbox)
  <2>1. p.from \in Guests
    BY <1>4, ReceiveType, PacketsAre DEF Request, Receive
  <2>2. CASE Acceptable(p) /\ p.type # "Test"
    <3>1. /\ connected' /\ remote' = p.from
          /\ timer' = timer /\ dontWait' = dontWait
          /\ left' = (left /\ connected)
      BY <1>4, <2>2 DEF Request, SetActiveConnection
    <3>2. SessionShape'
      BY <2>1, <3>1, GuestAssumption DEF SessionShape
    <3>3. (dontWait => connected /\ left)'
      BY <3>1 DEF SessionInv
    <3>4. QED
      BY <3>2, <3>3 DEF SessionInv
  <2>3. CASE ~(Acceptable(p) /\ p.type # "Test")
    BY <1>4, <2>3, SessionUnchanged DEF Request, sessionVars
  <2>4. QED
    BY <2>2, <2>3
<1>5. CASE Reinvite
  <2>1. CASE connected
    BY <1>5, <2>1 DEF Reinvite, SessionInv, SessionShape
  <2>2. CASE ~connected
    BY <1>5, <2>2, ResetSession DEF Reinvite, DoRestart
  <2>3. QED
    BY <2>1, <2>2
<1>6. CASE AdditionalUpdate
  BY <1>6, SessionUnchanged, ResetSession DEF AdditionalUpdate, DoRestart, hostVars
<1>7. CASE CreateNewInvitation \/ PortForwarded
  BY <1>7, SessionUnchanged DEF CreateNewInvitation, PortForwarded, hostVars
<1>8. CASE TimeIsUp
  BY <1>8 DEF TimeIsUp, SessionInv, SessionShape
<1>9. CASE NatStep
  BY <1>9, SessionUnchanged DEF NatStep, NatProgress, NatFault, hostVars
<1>10. CASE \E c \in Guests : GuestStep(c)
  BY <1>10, SessionUnchanged
  DEF GuestStep, GuestConnects, GuestLost, GuestCloses, GuestAsks, GuestHears,
      PeerUnchanged, hostVars
<1>11. CASE UNCHANGED vars
  BY <1>11, SessionUnchanged DEF vars, hostVars
<1>12. QED
  BY <1>1, <1>2, <1>3, <1>4, <1>5, <1>6, <1>7, <1>8, <1>9, <1>10, <1>11
  DEF Next, HostStep, Poll

LEMMA SessionInvHolds == Spec => []SessionInv
<1>1. Init => SessionInv
  BY DEF Init, HostInit, SessionInv, SessionShape
<1>2. QED
  BY <1>1, NextSession, HostTypeCorrect, PTL DEF Spec

\* The host's bookkeeping of a session begins and ends with it.
THEOREM HostSessionShape == Spec => []SessionShape
<1>1. SessionInv => SessionShape
  BY DEF SessionInv
<1>2. QED
  BY <1>1, SessionInvHolds, PTL

\* A guest that is merely lost gets its waiting time, however earlier sessions
\* ended.
THEOREM LostGuestsAreAwaited == Spec => []LostGuestIsAwaited
<1>1. SessionInv => LostGuestIsAwaited
  BY DEF SessionInv, LostGuestIsAwaited
<1>2. QED
  BY <1>1, SessionInvHolds, PTL

LEMMA StepKeepsGuest ==
    TypeOK /\ [Next]_vars => (connected /\ connected' => remote' = remote)
<1> SUFFICES ASSUME TypeOK, [Next]_vars, connected, connected'
             PROVE  remote' = remote
  OBVIOUS
<1> USE DEF sessionVars, hostVars
<1>1. CASE NatAccepted \/ NatDisconnected \/ GuidTaken \/ ReconnectNat
  BY <1>1 DEF NatAccepted, NatDisconnected, GuidTaken, ReconnectNat
<1>2. CASE NewIncoming \/ GuestDisconnected
  BY <1>2 DEF NewIncoming, GuestDisconnected
<1>3. CASE Request
  BY <1>3 DEF Request, Acceptable, SetActiveConnection
<1>4. CASE Reinvite \/ AdditionalUpdate
  BY <1>4 DEF Reinvite, AdditionalUpdate, DoRestart, SessionReset
<1>5. CASE CreateNewInvitation \/ PortForwarded \/ TimeIsUp
  BY <1>5 DEF CreateNewInvitation, PortForwarded, TimeIsUp
<1>6. CASE NatStep
  BY <1>6 DEF NatStep, NatProgress, NatFault
<1>7. CASE \E c \in Guests : GuestStep(c)
  BY <1>7 DEF GuestStep, GuestConnects, GuestLost, GuestCloses, GuestAsks,
              GuestHears, PeerUnchanged
<1>8. CASE UNCHANGED vars
  BY <1>8 DEF vars
<1>9. QED
  BY <1>1, <1>2, <1>3, <1>4, <1>5, <1>6, <1>7, <1>8 DEF Next, HostStep, Poll

\* Whatever keys, requests and connections other guests come with, they never
\* get hold of a running session.
THEOREM SessionsAreNotTakenOver == Spec => NoTakeover
<1>1. TypeOK /\ [Next]_vars => [connected /\ connected' => remote' = remote]_vars
  BY StepKeepsGuest
<1>2. QED
  BY <1>1, HostTypeCorrect, PTL DEF Spec, NoTakeover

-----------------------------------------------------------------------------
\* The handler implements HostSession.

\* HostSession's actions, in the words of the host's variables, when the types and
\* the invariant hold before and after the step.
LEMMA SeenStep ==
    ASSUME TypeOK, SessionInv, TypeOK', SessionInv',
           \/ UNCHANGED sessionVars
           \/ ~connected /\ connected' /\ ~left' /\ timer' = timer
           \/ connected /\ connected' /\ remote' = remote
                /\ timer' = "running" /\ (left => left')
           \/ connected /\ timer = "running" /\ timer' = "expired"
                /\ UNCHANGED <<connected, remote, left>>
           \/ connected /\ timer # "off" /\ timer' = "off"
                /\ UNCHANGED <<connected, remote, left>>
           \/ connected /\ left' /\ UNCHANGED <<connected, remote, timer>>
           \/ connected /\ ~connected' /\ timer # "off"
                /\ (left \/ timer = "expired")
           \/ ~connected /\ ~connected'
    PROVE  Session!Next \/ UNCHANGED Session!sessionState
<1> USE DEF Session!Next, Session!sessionState
<1>1. CASE UNCHANGED sessionVars
  BY <1>1 DEF sessionVars
<1>2. CASE ~connected /\ connected' /\ ~left' /\ timer' = timer
  <2>1. Session!Begin
    BY <1>2 DEF Session!Begin, Session!Open, TypeOK, SessionInv, SessionShape
  <2>2. QED
    BY <2>1
<1>3. CASE connected /\ connected' /\ remote' = remote
             /\ timer' = "running" /\ (left => left')
  <2>1. Session!Lose
    BY <1>3 DEF Session!Lose, TypeOK, SessionInv, SessionShape
  <2>2. QED
    BY <2>1
<1>4. CASE connected /\ timer = "running" /\ timer' = "expired"
             /\ UNCHANGED <<connected, remote, left>>
  <2>1. Session!TimePasses
    BY <1>4 DEF Session!TimePasses
  <2>2. QED
    BY <2>1
<1>5. CASE connected /\ timer # "off" /\ timer' = "off"
             /\ UNCHANGED <<connected, remote, left>>
  <2>1. Session!Return
    BY <1>5 DEF Session!Return, TypeOK
  <2>2. QED
    BY <2>1
<1>6. CASE connected /\ left' /\ UNCHANGED <<connected, remote, timer>>
  <2>1. Session!Kick
    BY <1>6 DEF Session!Kick, SessionInv, SessionShape
  <2>2. QED
    BY <2>1
<1>7. CASE connected /\ ~connected' /\ timer # "off"
             /\ (left \/ timer = "expired")
  <2>1. Session!End
    BY <1>7 DEF Session!End, TypeOK, SessionInv, SessionShape
  <2>2. QED
    BY <2>1
<1>8. CASE ~connected /\ ~connected'
  BY <1>8 DEF SessionInv, SessionShape
<1>9. QED
  BY <1>1, <1>2, <1>3, <1>4, <1>5, <1>6, <1>7, <1>8

LEMMA TypeBooleans ==
    TypeOK => connected \in BOOLEAN /\ dontWait \in BOOLEAN /\ left \in BOOLEAN
  BY DEF TypeOK

LEMMA SessionStep ==
    ASSUME TypeOK, SessionInv, TypeOK', SessionInv', [Next]_vars
    PROVE  Session!Next \/ UNCHANGED Session!sessionState
<1>1. CASE NatAccepted \/ NatDisconnected \/ GuidTaken \/ ReconnectNat
  BY <1>1, SeenStep
  DEF NatAccepted, NatDisconnected, GuidTaken, ReconnectNat, hostVars
<1>2. CASE NewIncoming
  <2>1. /\ UNCHANGED <<connected, remote, dontWait, left>>
        /\ timer' = timer \/ (connected /\ timer' = "off")
    BY <1>2 DEF NewIncoming
  <2>2. CASE timer' = timer
    BY <2>1, <2>2, SeenStep DEF sessionVars
  <2>3. CASE timer' # timer
    BY <2>1, <2>3, SeenStep
  <2>4. QED
    BY <2>2, <2>3
<1>3. CASE GuestDisconnected
  <2>1. Head(inbox).from \in Guests /\ UNCHANGED <<connected, remote>>
    BY <1>3 DEF GuestDisconnected
  <2>2. CASE Head(inbox).from = remote
    <3>1. connected
      BY <2>1, <2>2, GuestAssumption DEF SessionInv, SessionShape
    <3>2. timer' = "running" /\ (left => left')
      BY <1>3, <2>2, <3>1 DEF GuestDisconnected
    <3>3. QED
      BY <2>1, <3>1, <3>2, SeenStep
  <2>3. CASE Head(inbox).from # remote
    <3>1. timer' = timer /\ dontWait' = dontWait /\ left' = left
      BY <1>3, <2>3, TypeBooleans DEF GuestDisconnected
    <3>2. QED
      BY <2>1, <3>1, SeenStep DEF sessionVars
  <2>4. QED
    BY <2>2, <2>3
<1>4. CASE Request
  <2> DEFINE p == Head(inbox)
  <2>1. CASE Acceptable(p) /\ p.type # "Test"
    <3>1. /\ connected' /\ remote' = p.from /\ timer' = timer
          /\ dontWait' = dontWait /\ left' = (left /\ connected)
      BY <1>4, <2>1 DEF Request, SetActiveConnection
    <3>2. CASE connected
      <4>1. p.from = remote
        BY <2>1, <3>2 DEF Acceptable
      <4>2. UNCHANGED sessionVars
        BY <3>1, <3>2, <4>1, TypeBooleans DEF sessionVars
      <4>3. QED
        BY <4>2, SeenStep
    <3>3. CASE ~connected
      BY <3>1, <3>3, SeenStep
    <3>4. QED
      BY <3>2, <3>3
  <2>2. CASE ~(Acceptable(p) /\ p.type # "Test")
    BY <1>4, <2>2, SeenStep DEF Request, sessionVars
  <2>3. QED
    BY <2>1, <2>2
<1>5. CASE Reinvite
  <2>1. CASE connected
    BY <1>5, <2>1, SeenStep DEF Reinvite
  <2>2. CASE ~connected
    BY <1>5, <2>2, SeenStep DEF Reinvite, DoRestart, SessionReset
  <2>3. QED
    BY <2>1, <2>2
<1>6. CASE AdditionalUpdate
  <2>1. CASE ~GaveUp
    BY <1>6, <2>1, SeenStep DEF AdditionalUpdate, hostVars
  <2>2. CASE GaveUp
    <3>1. connected /\ timer # "off" /\ (left \/ timer = "expired")
      BY <2>2 DEF GaveUp, SessionInv, SessionShape
    <3>2. ~connected'
      BY <1>6, <2>2 DEF AdditionalUpdate, DoRestart, SessionReset
    <3>3. QED
      BY <3>1, <3>2, SeenStep
  <2>3. QED
    BY <2>1, <2>2
<1>7. CASE CreateNewInvitation \/ PortForwarded
  BY <1>7, SeenStep DEF CreateNewInvitation, PortForwarded, hostVars
<1>8. CASE TimeIsUp
  <2>1. connected
    BY <1>8 DEF TimeIsUp, SessionInv, SessionShape
  <2>2. QED
    BY <1>8, <2>1, SeenStep DEF TimeIsUp
<1>9. CASE NatStep
  BY <1>9, SeenStep DEF NatStep, NatProgress, NatFault, hostVars
<1>10. CASE \E c \in Guests : GuestStep(c)
  BY <1>10, SeenStep
  DEF GuestStep, GuestConnects, GuestLost, GuestCloses, GuestAsks, GuestHears,
      PeerUnchanged, hostVars
<1>11. CASE UNCHANGED vars
  BY <1>11, SeenStep DEF vars, hostVars
<1>12. QED
  BY <1>1, <1>2, <1>3, <1>4, <1>5, <1>6, <1>7, <1>8, <1>9, <1>10, <1>11
  DEF Next, HostStep, Poll

\* The handler keeps HostSession's promise to the game, for any guests, however
\* many packets of earlier sessions are in its queue.
THEOREM HostKeepsSession == Spec => SessionSpec
<1>1. Init => Session!Init
  BY DEF Init, HostInit, Session!Init, Session!Open
<1>2. TypeOK /\ SessionInv /\ TypeOK' /\ SessionInv' /\ [Next]_vars
      => [Session!Next]_(Session!sessionState)
  BY SessionStep
<1>3. QED
  BY <1>1, <1>2, HostTypeCorrect, SessionInvHolds, PTL
  DEF Spec, SessionSpec, Session!Spec

-----------------------------------------------------------------------------
\* The way back to the NAT server.

Waiting == {inbox[i] : i \in 1 .. Len(inbox)}

NatEndWaits  == \E p \in Waiting : p.type \in Downs /\ p.from = NatServer
Waits(types) == \E p \in Waiting : p.type \in types

\* A connection to the NAT server that is down is so for a reason the host has
\* seen and answered, or will see in its queue; one that is up has been or will
\* be announced.  Only a poll makes a connection again, so a report of its end
\* is never in the queue together with a new connection that stands.
ReachInv ==
    /\ natConnected => accepting
    /\ NatEndWaits => /\ natLink \in {"down", "connecting"}
                      /\ phase = "network" => natLink = "down"
    /\ phase # "stuck" /\ natLink = "up" => natConnected \/ Waits({"Accepted"})
    /\ phase # "stuck" /\ ~connected /\ natLink = "down" =>
          \/ forwarding \/ error
          \/ NatEndWaits \/ Waits({"AlreadyConnected", "ReconnectNat"})

LEMMA ReceiveWaiting ==
    ASSUME TypeOK, NEW t, Receive(t)
    PROVE  /\ Head(inbox) \in Waiting /\ Head(inbox).type = t
           /\ Waiting' \subseteq Waiting
           /\ Waiting \subseteq Waiting' \cup {Head(inbox)}
           /\ phase # "stuck" /\ phase' = "receive"
<1>1. /\ inbox \in Seq(Packets) /\ inbox # << >> /\ inbox' = Tail(inbox)
      /\ Head(inbox).type = t
      /\ phase # "stuck" /\ phase' = "receive"
  BY DEF TypeOK, Receive
<1>2. /\ Len(inbox) \in Nat /\ Len(inbox) >= 1
      /\ Head(inbox) = inbox[1] /\ Len(inbox') = Len(inbox) - 1
      /\ \A i \in 1 .. Len(inbox') : inbox'[i] = inbox[i + 1]
  BY <1>1, HeadTailProperties, EmptySeq, LenProperties
<1>3. Head(inbox) \in Waiting
  BY <1>2 DEF Waiting
<1>4. Waiting' \subseteq Waiting
  <2>1. \A i \in 1 .. Len(inbox') : i + 1 \in 1 .. Len(inbox)
    BY <1>2
  <2>2. QED
    BY <1>2, <2>1 DEF Waiting
<1>5. Waiting \subseteq Waiting' \cup {Head(inbox)}
  <2>1. \A i \in 2 .. Len(inbox) : i - 1 \in 1 .. Len(inbox') /\ inbox'[i - 1] = inbox[i]
    BY <1>2
  <2>2. \A i \in 1 .. Len(inbox) : i = 1 \/ i \in 2 .. Len(inbox)
    BY <1>2
  <2>3. QED
    BY <1>2, <2>1, <2>2 DEF Waiting
<1>6. QED
  BY <1>1, <1>3, <1>4, <1>5

LEMMA QueueWaiting ==
    ASSUME TypeOK, NEW p \in Packets, Queue(p)
    PROVE  Waiting' = Waiting \cup {p}
<1>1. /\ inbox \in Seq(Packets) /\ inbox' = Append(inbox, p)
      /\ Len(inbox) \in Nat
  BY LenProperties DEF TypeOK, Queue
<1>2. /\ Len(inbox') = Len(inbox) + 1
      /\ \A i \in 1 .. Len(inbox) : inbox'[i] = inbox[i]
      /\ inbox'[Len(inbox) + 1] = p
  BY <1>1, AppendProperties
<1>3. \A i \in 1 .. Len(inbox') : i \in 1 .. Len(inbox) \/ i = Len(inbox) + 1
  BY <1>1, <1>2
<1>4. \A i \in 1 .. Len(inbox) : i \in 1 .. Len(inbox')
  BY <1>1, <1>2
<1>5. Len(inbox) + 1 \in 1 .. Len(inbox')
  BY <1>1, <1>2
<1>6. QED
  BY <1>2, <1>3, <1>4, <1>5 DEF Waiting

LEMMA EmptyWaiting == inbox = << >> => Waiting = {}
  BY DEF Waiting

\* Receiving a packet the NAT connection has nothing to do with.
LEMMA ReceiveOther ==
    ASSUME TypeOK, ReachInv, NEW t, Receive(t),
           t \notin {"Accepted", "AlreadyConnected", "ReconnectNat"},
           t \in Downs => Head(inbox).from # NatServer
    PROVE  /\ phase # "stuck" /\ phase' = "receive"
           /\ NatEndWaits <=> NatEndWaits'
           /\ Waits({"Accepted"}) <=> Waits({"Accepted"})'
           /\ Waits({"AlreadyConnected", "ReconnectNat"})
                <=> Waits({"AlreadyConnected", "ReconnectNat"})'
  BY ReceiveWaiting DEF NatEndWaits, Waits

LEMMA ReceiveAny ==
    ASSUME TypeOK, ReachInv, NEW t, Receive(t)
    PROVE  /\ phase # "stuck" /\ phase' = "receive"
           /\ NatEndWaits' => natLink \in {"down", "connecting"}
           /\ t \notin Downs => (NatEndWaits => NatEndWaits')
           /\ t # "Accepted" => (Waits({"Accepted"}) => Waits({"Accepted"})')
           /\ t \notin {"AlreadyConnected", "ReconnectNat"} =>
                 (Waits({"AlreadyConnected", "ReconnectNat"})
                    => Waits({"AlreadyConnected", "ReconnectNat"})')
  BY ReceiveWaiting DEF NatEndWaits, Waits, ReachInv

LEMMA NatAcceptedReach == TypeOK /\ ReachInv /\ NatAccepted => ReachInv'
<1> SUFFICES ASSUME TypeOK, ReachInv, NatAccepted PROVE ReachInv'
  OBVIOUS
<1>1. /\ phase # "stuck" /\ phase' = "receive"
      /\ NatEndWaits' => natLink \in {"down", "connecting"}
      /\ NatEndWaits => NatEndWaits'
      /\ Waits({"AlreadyConnected", "ReconnectNat"})
           => Waits({"AlreadyConnected", "ReconnectNat"})'
  BY ReceiveAny DEF NatAccepted, Downs
<1>2. connected' = connected /\ error' = error
  BY DEF NatAccepted, OnNatConnected, sessionVars
<1>3. CASE forwarded \/ ~DoPortForwarding
  <2>1. natConnected' = TRUE /\ natLink' = natLink /\ forwarding' = forwarding
    BY <1>3 DEF NatAccepted, OnNatConnected
  <2>2. accepting'
    BY <1>3 DEF NatAccepted, OnNatServerConnected, Announces, ReachInv
  <2>3. QED
    BY <1>1, <1>2, <2>1, <2>2 DEF ReachInv
<1>4. CASE ~(forwarded \/ ~DoPortForwarding)
  <2>1. natConnected' = natConnected /\ natLink' = AfterClose(natLink) /\ forwarding'
    BY <1>4 DEF NatAccepted, OnNatConnected
  <2>2. accepting' = accepting
    BY <1>4 DEF NatAccepted, OnNatServerConnected, Announces
  <2>3. QED
    BY <1>1, <1>2, <2>1, <2>2 DEF ReachInv, AfterClose
<1>5. QED
  BY <1>3, <1>4

LEMMA NatDisconnectedReach == TypeOK /\ ReachInv /\ NatDisconnected => ReachInv'
<1> SUFFICES ASSUME TypeOK, ReachInv, NatDisconnected PROVE ReachInv'
  OBVIOUS
<1>1. PICK t \in Downs : Receive(t)
  BY DEF NatDisconnected
<1>2. NatEndWaits
  BY <1>1, ReceiveWaiting DEF NatEndWaits, NatDisconnected
<1>3. natLink \in {"down", "connecting"}
  BY <1>2 DEF ReachInv
<1>4. /\ phase # "stuck" /\ phase' = "receive"
      /\ connected' = connected /\ accepting' = accepting
  BY <1>1, ReceiveAny DEF NatDisconnected, hostVars, sessionVars
<1>5. CASE forwarding
  BY <1>3, <1>4, <1>5 DEF NatDisconnected, OnNatDisconnected, natVars, ReachInv
<1>6. CASE ~forwarding /\ ~connected /\ natAttempts > 0
  <2>1. natLink' = "connecting" /\ natConnected' = natConnected
    BY <1>3, <1>6 DEF NatDisconnected, OnNatDisconnected, AfterConnect
  <2>2. QED
    BY <1>4, <2>1 DEF ReachInv
<1>7. CASE ~forwarding /\ ~(~connected /\ natAttempts > 0)
  <2>1. natLink' = natLink /\ ~natConnected' /\ (~connected => error')
    BY <1>7 DEF NatDisconnected, OnNatDisconnected
  <2>2. QED
    BY <1>3, <1>4, <2>1 DEF ReachInv
<1>8. QED
  BY <1>5, <1>6, <1>7

LEMMA GuidTakenReach == TypeOK /\ ReachInv /\ (GuidTaken \/ ReconnectNat) => ReachInv'
<1> SUFFICES ASSUME TypeOK, ReachInv, GuidTaken \/ ReconnectNat PROVE ReachInv'
  OBVIOUS
<1>1. /\ phase # "stuck" /\ phase' = "receive"
      /\ NatEndWaits' => natLink \in {"down", "connecting"}
  BY ReceiveAny DEF GuidTaken, ReconnectNat
<1>2. /\ connected' = connected /\ accepting' = accepting
      /\ natConnected' = natConnected
  BY DEF GuidTaken, ReconnectNat, OnGuidTaken, OnReconnectNat, hostVars, sessionVars
<1>3. CASE GuidTaken
  BY <1>1, <1>2, <1>3 DEF GuidTaken, OnGuidTaken, AfterClose, ReachInv
<1>4. CASE ReconnectNat
  BY <1>1, <1>2, <1>4 DEF ReconnectNat, OnReconnectNat, AfterClose, AfterConnect, ReachInv
<1>5. QED
  BY <1>3, <1>4

LEMMA GuestPacketReach ==
    TypeOK /\ ReachInv /\ (NewIncoming \/ GuestDisconnected) => ReachInv'
<1> SUFFICES ASSUME TypeOK, ReachInv, NewIncoming \/ GuestDisconnected PROVE ReachInv'
  OBVIOUS
<1>1. PICK t \in Downs \cup {"NewIncoming"} : Receive(t)
  BY DEF NewIncoming, GuestDisconnected
<1>2. t \in Downs => Head(inbox).from # NatServer
  BY <1>1, GuestAssumption DEF NewIncoming, GuestDisconnected, Receive, Downs
<1>3. natVars' = natVars /\ connected' = connected /\ accepting' = accepting
  BY DEF NewIncoming, GuestDisconnected
<1>4. QED
  BY <1>1, <1>2, <1>3, ReceiveOther DEF natVars, ReachInv, Downs

LEMMA RequestReach == TypeOK /\ ReachInv /\ Request => ReachInv'
<1> SUFFICES ASSUME TypeOK, ReachInv, Request PROVE ReachInv'
  OBVIOUS
<1> DEFINE p == Head(inbox)
<1>1. PICK t \in Requests : Receive(t)
  BY DEF Request
<1>2. accepting' = accepting
  BY DEF Request
<1>3. CASE Acceptable(p) /\ p.type # "Test"
  <2>1. /\ connected' /\ natLink' = AfterClose(natLink)
        /\ natConnected' = natConnected
    BY <1>3 DEF Request, SetActiveConnection
  <2>2. /\ phase # "stuck" /\ phase' = "receive"
        /\ NatEndWaits' => natLink \in {"down", "connecting"}
    BY <1>1, ReceiveAny
  <2>3. QED
    BY <1>2, <2>1, <2>2 DEF ReachInv, AfterClose
<1>4. CASE ~(Acceptable(p) /\ p.type # "Test")
  <2>1. natVars' = natVars /\ connected' = connected
    BY <1>4 DEF Request
  <2>2. QED
    BY <1>1, <1>2, <2>1, ReceiveOther DEF natVars, ReachInv, Downs, Requests
<1>5. QED
  BY <1>3, <1>4

LEMMA ReinviteReach == TypeOK /\ ReachInv /\ Reinvite => ReachInv'
<1> SUFFICES ASSUME TypeOK, ReachInv, Reinvite PROVE ReachInv'
  OBVIOUS
<1>1. /\ phase # "stuck" /\ phase' = "receive"
      /\ NatEndWaits <=> NatEndWaits'
      /\ Waits({"Accepted"}) <=> Waits({"Accepted"})'
      /\ Waits({"AlreadyConnected", "ReconnectNat"})
           <=> Waits({"AlreadyConnected", "ReconnectNat"})'
  BY ReceiveOther DEF Reinvite, Downs
<1>2. CASE connected
  <2>1. natVars' = natVars /\ connected' = connected /\ accepting' = accepting
    BY <1>2 DEF Reinvite
  <2>2. QED
    BY <1>1, <2>1 DEF natVars, ReachInv
<1>3. CASE ~connected /\ natConnected /\ (forwarded \/ ~DoPortForwarding)
  <2>1. /\ natConnected' = TRUE /\ natLink' = natLink
        /\ forwarding' = forwarding /\ error' = error
    BY <1>3 DEF Reinvite, DoRestart, Restart, OnNatConnected
  <2>2. accepting'
    BY <1>3 DEF Reinvite, DoRestart, OnNatServerConnected, Announces
  <2>3. QED
    BY <1>1, <1>3, <2>1, <2>2 DEF ReachInv
<1>4. CASE ~connected /\ natConnected /\ ~(forwarded \/ ~DoPortForwarding)
  <2>1. ~natConnected' /\ natLink' = AfterClose(natLink) /\ forwarding'
    BY <1>4 DEF Reinvite, DoRestart, Restart, OnNatConnected
  <2>2. QED
    BY <1>1, <2>1 DEF ReachInv, AfterClose
<1>5. CASE ~connected /\ ~natConnected
  <2>1. ~natConnected' /\ natLink' = AfterConnect(natLink)
    BY <1>5 DEF Reinvite, DoRestart, Restart
  <2>2. QED
    BY <1>1, <1>5, <2>1 DEF ReachInv, AfterConnect
<1>6. QED
  BY <1>2, <1>3, <1>4, <1>5

LEMMA AdditionalUpdateReach == TypeOK /\ ReachInv /\ AdditionalUpdate => ReachInv'
<1> SUFFICES ASSUME TypeOK, ReachInv, AdditionalUpdate PROVE ReachInv'
  OBVIOUS
<1>1. inbox = << >> /\ inbox' = << >> /\ phase # "stuck"
  BY DEF AdditionalUpdate, PollEnds
<1>2. /\ ~NatEndWaits /\ ~NatEndWaits'
      /\ ~Waits({"Accepted"}) /\ ~Waits({"AlreadyConnected", "ReconnectNat"})
  BY <1>1, EmptyWaiting DEF NatEndWaits, Waits, Waiting
<1>3. CASE ~GaveUp
  <2>1. natVars' = natVars /\ connected' = connected /\ accepting' = accepting
    BY <1>3 DEF AdditionalUpdate, hostVars, sessionVars
  <2>2. QED
    BY <1>1, <1>2, <2>1 DEF natVars, ReachInv
<1>4. CASE GaveUp /\ ~natConnected
  <2>1. ~natConnected' /\ natLink' = AfterConnect(natLink)
    BY <1>4 DEF AdditionalUpdate, DoRestart, Restart
  <2>2. QED
    BY <1>1, <1>2, <1>4, <2>1 DEF ReachInv, AfterConnect
<1>5. CASE GaveUp /\ natConnected
  <2>1. phase' = "stuck" /\ ~natConnected'
    BY <1>5 DEF AdditionalUpdate
  <2>2. QED
    BY <1>2, <2>1 DEF ReachInv
<1>6. QED
  BY <1>3, <1>4, <1>5

LEMMA OtherThreadsReach ==
    TypeOK /\ ReachInv /\ (CreateNewInvitation \/ PortForwarded \/ TimeIsUp) => ReachInv'
<1> SUFFICES ASSUME TypeOK, ReachInv, CreateNewInvitation \/ PortForwarded \/ TimeIsUp
             PROVE  ReachInv'
  OBVIOUS
<1>1. CASE CreateNewInvitation
  <2> DEFINE p == Packet("Reinvite", NoGuest)
  <2>1. p \in Packets /\ p.type = "Reinvite"
    BY NewPackets DEF Packet
  <2> HIDE DEF p
  <2>2. Queue(p)
    BY <1>1 DEF CreateNewInvitation, p
  <2>3. Waiting' = Waiting \cup {p}
    BY <2>1, <2>2, QueueWaiting
  <2>4. /\ NatEndWaits <=> NatEndWaits'
        /\ Waits({"Accepted"}) => Waits({"Accepted"})'
        /\ Waits({"AlreadyConnected", "ReconnectNat"})
             => Waits({"AlreadyConnected", "ReconnectNat"})'
    BY <2>1, <2>3 DEF NatEndWaits, Waits, Downs
  <2>5. UNCHANGED <<phase, natVars, connected, accepting>>
    BY <1>1 DEF CreateNewInvitation, sessionVars
  <2>6. QED
    BY <2>4, <2>5 DEF natVars, ReachInv
<1>2. CASE PortForwarded
  <2> DEFINE p == Packet("ReconnectNat", NoGuest)
  <2>1. p \in Packets /\ p.type = "ReconnectNat"
    BY NewPackets DEF Packet
  <2> HIDE DEF p
  <2>2. Queue(p)
    BY <1>2 DEF PortForwarded, ForwardingDone, p
  <2>3. Waiting' = Waiting \cup {p}
    BY <2>1, <2>2, QueueWaiting
  <2>4. /\ NatEndWaits <=> NatEndWaits'
        /\ Waits({"Accepted"}) => Waits({"Accepted"})'
        /\ Waits({"AlreadyConnected", "ReconnectNat"})'
    BY <2>1, <2>3 DEF NatEndWaits, Waits, Downs
  <2>5. UNCHANGED <<phase, natLink, natConnected, accepting>>
    BY <1>2 DEF PortForwarded, ForwardingDone, hostVars
  <2>6. QED
    BY <2>4, <2>5 DEF ReachInv
<1>3. CASE TimeIsUp
  BY <1>3 DEF TimeIsUp, natVars, ReachInv, NatEndWaits, Waits, Waiting
<1>4. QED
  BY <1>1, <1>2, <1>3

LEMMA NatStepReach == TypeOK /\ ReachInv /\ NatStep => ReachInv'
<1> SUFFICES ASSUME TypeOK, ReachInv, NatStep PROVE ReachInv'
  OBVIOUS
<1>1. phase = "network"
  BY DEF NatStep, NatProgress, NatFault, NatAccepts, NatRefuses, NatDrops,
         NatCloses, NatAnswers
<1>2. UNCHANGED <<phase, natConnected, forwarding, error, connected, accepting>>
  BY DEF NatStep, NatProgress, NatFault, NatAccepts, NatRefuses, NatDrops,
         NatCloses, NatUnchanged, hostVars, sessionVars
<1>3. CASE NatAccepts(Packet("Accepted", NatServer))
  <2> DEFINE p == Packet("Accepted", NatServer)
  <2>1. p \in Packets /\ p.type = "Accepted"
    BY NewPackets DEF Packet
  <2> HIDE DEF p
  <2>2. Queue(p) /\ natLink = "connecting" /\ natLink' = "up"
    BY <1>3 DEF NatAccepts, NatAnswers, p
  <2>3. Waiting' = Waiting \cup {p}
    BY <2>1, <2>2, QueueWaiting
  <2>4. ~NatEndWaits' /\ Waits({"Accepted"})'
    BY <1>1, <2>1, <2>2, <2>3 DEF ReachInv, NatEndWaits, Waits, Downs
  <2>5. QED
    BY <1>2, <2>2, <2>4 DEF ReachInv
<1>4. ASSUME NEW t \in Downs \cup {"AlreadyConnected"}, Queue(Packet(t, NatServer)),
             natLink' = "down"
      PROVE  ReachInv'
  <2> DEFINE p == Packet(t, NatServer)
  <2>1. p \in Packets /\ p.type = t /\ p.from = NatServer
    BY NewPackets DEF Packet, Downs
  <2> HIDE DEF p
  <2>2. Queue(p)
    BY <1>4 DEF p
  <2>3. Waiting' = Waiting \cup {p}
    BY <2>1, <2>2, QueueWaiting
  <2>4. NatEndWaits' \/ Waits({"AlreadyConnected", "ReconnectNat"})'
    BY <2>1, <2>3 DEF NatEndWaits, Waits
  <2>5. QED
    BY <1>2, <1>4, <2>4 DEF ReachInv
<1>5. QED
  <2>1. \/ NatAccepts(Packet("Accepted", NatServer))
        \/ \E t \in Downs \cup {"AlreadyConnected"} :
              Queue(Packet(t, NatServer)) /\ natLink' = "down"
    BY DEF NatStep, NatProgress, NatFault, NatRefuses, NatDrops, NatCloses,
           NatAnswers, Downs
  <2>2. QED
    BY <1>3, <1>4, <2>1

LEMMA GuestStepReach ==
    ASSUME TypeOK, ReachInv, NEW c \in Guests, GuestStep(c)
    PROVE  ReachInv'
<1>1. UNCHANGED <<phase, natVars, connected, accepting>>
  BY DEF GuestStep, GuestConnects, GuestLost, GuestCloses, GuestAsks, GuestHears,
         PeerUnchanged, hostVars, sessionVars
<1>2. \/ inbox' = inbox
      \/ \E p \in Packets : p.from = c /\ Queue(p)
  <2>1. key \in Nat
    BY DEF TypeOK
  <2>2. \A t \in Downs \cup {"NewIncoming"} : Packet(t, c).from = c
    BY DEF Packet
  <2>3. CASE GuestConnects(c) \/ GuestLost(c) \/ GuestCloses(c)
    BY <2>2, <2>3, NewPackets DEF GuestConnects, GuestLost, GuestCloses, Downs
  <2>4. CASE \E t \in Requests, k \in 1 .. key : GuestAsks(c, t, k)
    <3>1. PICK t \in Requests, k \in 1 .. key : GuestAsks(c, t, k)
      BY <2>4
    <3>2. [type |-> t, from |-> c, key |-> k] \in Packets
      BY <2>1, NewPackets
    <3>3. QED
      BY <3>1, <3>2 DEF GuestAsks
  <2>5. CASE GuestHears(c)
    BY <2>5 DEF GuestHears
  <2>6. QED
    BY <2>3, <2>4, <2>5 DEF GuestStep
<1>3. CASE inbox' = inbox
  BY <1>1, <1>3 DEF natVars, ReachInv, NatEndWaits, Waits, Waiting
<1>4. CASE \E p \in Packets : p.from = c /\ Queue(p)
  <2>1. PICK p \in Packets : p.from = c /\ Queue(p)
    BY <1>4
  <2>2. Waiting' = Waiting \cup {p}
    BY <2>1, QueueWaiting
  <2>3. /\ NatEndWaits <=> NatEndWaits'
        /\ Waits({"Accepted"}) => Waits({"Accepted"})'
        /\ Waits({"AlreadyConnected", "ReconnectNat"})
             => Waits({"AlreadyConnected", "ReconnectNat"})'
    BY <2>1, <2>2, GuestAssumption DEF NatEndWaits, Waits
  <2>4. QED
    BY <1>1, <2>3 DEF natVars, ReachInv
<1>5. QED
  BY <1>2, <1>3, <1>4

LEMMA NextReach == TypeOK /\ ReachInv /\ [Next]_vars => ReachInv'
<1> SUFFICES ASSUME TypeOK, ReachInv, [Next]_vars PROVE ReachInv'
  OBVIOUS
<1>1. CASE Poll
  BY <1>1, NatAcceptedReach, NatDisconnectedReach, GuidTakenReach, GuestPacketReach,
     RequestReach, ReinviteReach, AdditionalUpdateReach DEF Poll
<1>2. CASE CreateNewInvitation \/ PortForwarded \/ TimeIsUp
  BY <1>2, OtherThreadsReach
<1>3. CASE NatStep
  BY <1>3, NatStepReach
<1>4. CASE \E c \in Guests : GuestStep(c)
  BY <1>4, GuestStepReach
<1>5. CASE UNCHANGED vars
  BY <1>5 DEF vars, natVars, hostVars, sessionVars, ReachInv, NatEndWaits, Waits, Waiting
<1>6. QED
  BY <1>1, <1>2, <1>3, <1>4, <1>5 DEF Next, HostStep

LEMMA ReachableMeans == TypeOK /\ ReachInv => HostIsReachable
<1> SUFFICES ASSUME TypeOK, ReachInv, Quiet, ~connected
             PROVE  \/ natLink = "up" /\ natConnected /\ accepting
                    \/ natLink \in {"connecting", "closing"}
                    \/ forwarding \/ error
  BY DEF HostIsReachable
<1>1. ~NatEndWaits /\ \A types : ~Waits(types)
  BY EmptyWaiting DEF Quiet, NatEndWaits, Waits
<1>2. natLink \in Links /\ phase = "network"
  BY DEF TypeOK, NatTypeOK, Quiet
<1>3. QED
  BY <1>1, <1>2 DEF ReachInv, Links

\* Through all the losses, refusals, joins and port forwardings there may be, an
\* idle host without a guest is known at the NAT server, on its way there, or
\* has told its user that it is not.
THEOREM HostStaysReachable == Spec => []HostIsReachable
<1>1. Init => ReachInv
  <2> SUFFICES ASSUME Init PROVE ReachInv
    OBVIOUS
  <2>1. ~NatEndWaits
    BY EmptyWaiting DEF Init, HostInit, NatInit, NatEndWaits
  <2>2. QED
    BY <2>1 DEF Init, HostInit, NatInit, ReachInv
<1>2. QED
  BY <1>1, NextReach, ReachableMeans, HostTypeCorrect, PTL DEF Spec

-----------------------------------------------------------------------------
\* The end of a guest's connection.

EndAfter(i, c) ==
    \E j \in i + 1 .. Len(inbox) : inbox[j].from = c /\ inbox[j].type \in Downs

\* Behind every packet of a guest that is gone, its end is in the queue.
EndsFollow ==
    \A c \in Guests : \A i \in 1 .. Len(inbox) :
        inbox[i].from = c /\ inbox[i].type \notin Downs /\ link[c] = "down"
           => EndAfter(i, c)

TimedInv == EndsFollow /\ GoneGuestIsTimed

\* No guest's connection is found to be down that was not before.
NoneLost == \A c \in Guests : link'[c] = "down" => link[c] = "down"

LEMMA ReceiveEnds ==
    ASSUME TypeOK, EndsFollow, NEW t, Receive(t), NoneLost
    PROVE  /\ EndsFollow'
           /\ \A c \in Guests :
                 EndQueued(c) /\ ~(Head(inbox).from = c /\ t \in Downs) => EndQueued(c)'
           /\ \A c \in Guests :
                 Head(inbox).from = c /\ t \notin Downs /\ link[c] = "down" => EndQueued(c)'
<1>1. /\ inbox \in Seq(Packets) /\ inbox # << >> /\ inbox' = Tail(inbox)
      /\ Head(inbox).type = t
  BY DEF TypeOK, Receive
<1>2. /\ Len(inbox) \in Nat /\ Len(inbox) >= 1
      /\ Head(inbox) = inbox[1] /\ Len(inbox') = Len(inbox) - 1
      /\ \A i \in 1 .. Len(inbox') : inbox'[i] = inbox[i + 1]
  BY <1>1, HeadTailProperties, EmptySeq, LenProperties
<1>3. \A j \in 2 .. Len(inbox) : j - 1 \in 1 .. Len(inbox') /\ inbox'[j - 1] = inbox[j]
  BY <1>2
<1>4. EndsFollow'
  <2> SUFFICES ASSUME NEW c \in Guests, NEW i \in 1 .. Len(inbox'),
                      inbox'[i].from = c, inbox'[i].type \notin Downs, link'[c] = "down"
               PROVE  EndAfter(i, c)'
    BY DEF EndsFollow
  <2>1. i + 1 \in 1 .. Len(inbox) /\ inbox[i + 1] = inbox'[i] /\ link[c] = "down"
    BY <1>2 DEF NoneLost
  <2>2. PICK j \in i + 2 .. Len(inbox) : inbox[j].from = c /\ inbox[j].type \in Downs
    <3>1. EndAfter(i + 1, c)
      BY <2>1 DEF EndsFollow
    <3>2. (i + 1) + 1 = i + 2
      BY <1>2
    <3>3. QED
      BY <3>1, <3>2 DEF EndAfter
  <2>3. j - 1 \in i + 1 .. Len(inbox') /\ inbox'[j - 1] = inbox[j]
    BY <1>2, <1>3
  <2>4. QED
    BY <2>2, <2>3 DEF EndAfter
<1>5. \A c \in Guests :
         EndQueued(c) /\ ~(Head(inbox).from = c /\ t \in Downs) => EndQueued(c)'
  <2> SUFFICES ASSUME NEW c \in Guests, EndQueued(c),
                      ~(Head(inbox).from = c /\ t \in Downs)
               PROVE  EndQueued(c)'
    OBVIOUS
  <2>1. PICK j \in 1 .. Len(inbox) : inbox[j].from = c /\ inbox[j].type \in Downs
    BY DEF EndQueued
  <2>2. j # 1
    BY <1>1, <1>2, <2>1
  <2>3. j - 1 \in 1 .. Len(inbox') /\ inbox'[j - 1] = inbox[j]
    BY <1>2, <1>3, <2>2
  <2>4. QED
    BY <2>1, <2>3 DEF EndQueued
<1>6. \A c \in Guests :
         Head(inbox).from = c /\ t \notin Downs /\ link[c] = "down" => EndQueued(c)'
  <2> SUFFICES ASSUME NEW c \in Guests,
                      Head(inbox).from = c, t \notin Downs, link[c] = "down"
               PROVE  EndQueued(c)'
    OBVIOUS
  <2>1. EndAfter(1, c)
    BY <1>1, <1>2 DEF EndsFollow
  <2>2. PICK j \in 2 .. Len(inbox) : inbox[j].from = c /\ inbox[j].type \in Downs
    BY <2>1 DEF EndAfter
  <2>3. QED
    BY <1>3, <2>2 DEF EndQueued
<1>7. QED
  BY <1>4, <1>5, <1>6

LEMMA QueueEnds ==
    ASSUME TypeOK, EndsFollow, NEW p \in Packets, Queue(p),
           \A c \in Guests : link'[c] = "down" =>
              IF p.from = c THEN p.type \in Downs ELSE link[c] = "down"
    PROVE  /\ EndsFollow'
           /\ \A c \in Guests : EndQueued(c) => EndQueued(c)'
           /\ p.type \in Downs => EndQueued(p.from)'
<1>1. /\ inbox \in Seq(Packets) /\ inbox' = Append(inbox, p)
      /\ Len(inbox) \in Nat
  BY LenProperties DEF TypeOK, Queue
<1>2. /\ Len(inbox') = Len(inbox) + 1
      /\ \A i \in 1 .. Len(inbox) : inbox'[i] = inbox[i]
      /\ inbox'[Len(inbox) + 1] = p
  BY <1>1, AppendProperties
<1>3. \A i \in 1 .. Len(inbox) : i \in 1 .. Len(inbox')
  BY <1>1, <1>2
<1>4. EndsFollow'
  <2> SUFFICES ASSUME NEW c \in Guests, NEW i \in 1 .. Len(inbox'),
                      inbox'[i].from = c, inbox'[i].type \notin Downs, link'[c] = "down"
               PROVE  EndAfter(i, c)'
    BY DEF EndsFollow
  <2>1. i \in 1 .. Len(inbox) \/ i = Len(inbox) + 1
    BY <1>1, <1>2
  <2>2. i # Len(inbox) + 1
    BY <1>2
  <2>3. i \in 1 .. Len(inbox) /\ inbox'[i] = inbox[i]
    BY <1>2, <2>1, <2>2
  <2>4. CASE p.from = c
    <3>1. Len(inbox) + 1 \in i + 1 .. Len(inbox')
      BY <1>1, <1>2, <2>3
    <3>2. QED
      BY <1>2, <2>4, <3>1 DEF EndAfter
  <2>5. CASE p.from # c
    <3>1. EndAfter(i, c)
      BY <2>3, <2>5 DEF EndsFollow
    <3>2. PICK j \in i + 1 .. Len(inbox) : inbox[j].from = c /\ inbox[j].type \in Downs
      BY <3>1 DEF EndAfter
    <3>3. j \in 1 .. Len(inbox) /\ j \in i + 1 .. Len(inbox')
      BY <1>1, <1>2, <2>3
    <3>4. QED
      BY <1>2, <3>2, <3>3 DEF EndAfter
  <2>6. QED
    BY <2>4, <2>5
<1>5. \A c \in Guests : EndQueued(c) => EndQueued(c)'
  BY <1>2, <1>3 DEF EndQueued
<1>6. p.type \in Downs => EndQueued(p.from)'
  <2>1. Len(inbox) + 1 \in 1 .. Len(inbox')
    BY <1>1, <1>2
  <2>2. QED
    BY <1>2, <2>1 DEF EndQueued
<1>7. QED
  BY <1>4, <1>5, <1>6

\* A packet that touches neither the session nor the guests' connections.
LEMMA ReceiveTimed ==
    ASSUME TypeOK, SessionInv, TimedInv, NEW t, Receive(t),
           t \in Downs => Head(inbox).from \notin Guests,
           UNCHANGED <<sessionVars, link>>
    PROVE  TimedInv'
<1>1. connected' = connected /\ remote' = remote /\ timer' = timer /\ link' = link
  BY DEF sessionVars
<1>2. NoneLost
  BY <1>1 DEF NoneLost
<1>3. /\ EndsFollow'
      /\ \A c \in Guests : EndQueued(c) => EndQueued(c)'
  BY <1>2, ReceiveEnds DEF TimedInv
<1>4. connected => remote \in Guests
  BY DEF SessionInv, SessionShape, TypeOK
<1>5. GoneGuestIsTimed'
  BY <1>1, <1>3, <1>4 DEF TimedInv, GoneGuestIsTimed
<1>6. QED
  BY <1>3, <1>5 DEF TimedInv

\* The same for a packet that is put in the queue.
LEMMA QueueTimed ==
    ASSUME TypeOK, SessionInv, TimedInv, NEW p \in Packets, Queue(p),
           p.from \notin Guests,
           UNCHANGED <<sessionVars, link>>
    PROVE  TimedInv'
<1>1. connected' = connected /\ remote' = remote /\ timer' = timer /\ link' = link
  BY DEF sessionVars
<1>2. /\ EndsFollow'
      /\ \A c \in Guests : EndQueued(c) => EndQueued(c)'
  BY <1>1, QueueEnds DEF TimedInv
<1>3. connected => remote \in Guests
  BY DEF SessionInv, SessionShape, TypeOK
<1>4. GoneGuestIsTimed'
  BY <1>1, <1>2, <1>3 DEF TimedInv, GoneGuestIsTimed
<1>5. QED
  BY <1>2, <1>4 DEF TimedInv

LEMMA NatPacketTimed ==
    TypeOK /\ SessionInv /\ TimedInv
      /\ (NatAccepted \/ NatDisconnected \/ GuidTaken \/ ReconnectNat) => TimedInv'
<1> SUFFICES ASSUME TypeOK, SessionInv, TimedInv,
                    NatAccepted \/ NatDisconnected \/ GuidTaken \/ ReconnectNat
             PROVE  TimedInv'
  OBVIOUS
<1>1. UNCHANGED <<sessionVars, link>>
  BY DEF NatAccepted, NatDisconnected, GuidTaken, ReconnectNat, hostVars, peerVars
<1>2. CASE NatDisconnected
  <2>1. PICK t \in Downs : Receive(t)
    BY <1>2 DEF NatDisconnected
  <2>2. Head(inbox).from \notin Guests
    BY <1>2, GuestAssumption DEF NatDisconnected
  <2>3. QED
    BY <1>1, <2>1, <2>2, ReceiveTimed
<1>3. CASE NatAccepted \/ GuidTaken \/ ReconnectNat
  <2>1. PICK t \in {"Accepted", "AlreadyConnected", "ReconnectNat"} : Receive(t)
    BY <1>3 DEF NatAccepted, GuidTaken, ReconnectNat
  <2>2. t \notin Downs
    BY DEF Downs
  <2>3. QED
    BY <1>1, <2>1, <2>2, ReceiveTimed
<1>4. QED
  BY <1>2, <1>3

LEMMA NewIncomingTimed == TypeOK /\ SessionInv /\ TimedInv /\ NewIncoming => TimedInv'
<1> SUFFICES ASSUME TypeOK, SessionInv, TimedInv, NewIncoming PROVE TimedInv'
  OBVIOUS
<1>1. Receive("NewIncoming") /\ "NewIncoming" \notin Downs
  BY DEF NewIncoming, Downs
<1>2. connected' = connected /\ remote' = remote /\ link' = link
  BY DEF NewIncoming, peerVars
<1>3. NoneLost
  BY <1>2 DEF NoneLost
<1>4. /\ EndsFollow'
      /\ \A c \in Guests : EndQueued(c) => EndQueued(c)'
      /\ \A c \in Guests : Head(inbox).from = c /\ link[c] = "down" => EndQueued(c)'
  BY <1>1, <1>3, ReceiveEnds DEF TimedInv
<1>5. connected => remote \in Guests
  BY DEF SessionInv, SessionShape, TypeOK
<1>6. timer' # timer => Head(inbox).from = remote
  BY DEF NewIncoming
<1>7. GoneGuestIsTimed'
  BY <1>2, <1>4, <1>5, <1>6 DEF TimedInv, GoneGuestIsTimed
<1>8. QED
  BY <1>4, <1>7 DEF TimedInv

LEMMA GuestDisconnectedTimed ==
    TypeOK /\ SessionInv /\ TimedInv /\ GuestDisconnected => TimedInv'
<1> SUFFICES ASSUME TypeOK, SessionInv, TimedInv, GuestDisconnected PROVE TimedInv'
  OBVIOUS
<1>1. PICK t \in Downs : Receive(t)
  BY DEF GuestDisconnected
<1>2. connected' = connected /\ remote' = remote /\ link' = link
  BY DEF GuestDisconnected, peerVars
<1>3. NoneLost
  BY <1>2 DEF NoneLost
<1>4. /\ EndsFollow'
      /\ \A c \in Guests : EndQueued(c) /\ Head(inbox).from # c => EndQueued(c)'
  BY <1>1, <1>3, ReceiveEnds DEF TimedInv
<1>5. connected => remote \in Guests
  BY DEF SessionInv, SessionShape, TypeOK
<1>6. timer' = IF connected /\ Head(inbox).from = remote THEN "running" ELSE timer
  BY DEF GuestDisconnected
<1>7. GoneGuestIsTimed'
  BY <1>2, <1>4, <1>5, <1>6 DEF TimedInv, GoneGuestIsTimed
<1>8. QED
  BY <1>4, <1>7 DEF TimedInv

LEMMA RequestTimed == TypeOK /\ SessionInv /\ TimedInv /\ Request => TimedInv'
<1> SUFFICES ASSUME TypeOK, SessionInv, TimedInv, Request PROVE TimedInv'
  OBVIOUS
<1> DEFINE p == Head(inbox)
<1>1. PICK t \in Requests : Receive(t)
  BY DEF Request
<1>2. t \notin Downs /\ p.from \in Guests
  BY <1>1, ReceiveType, PacketsAre DEF Requests, Downs, Receive
<1>3. link' = link /\ timer' = timer
  BY DEF Request
<1>4. CASE Acceptable(p) /\ p.type # "Test"
  <2>1. PICK c \in Guests : p.from = c
    BY <1>2
  <2>2. connected' /\ remote' = c
    BY <1>4, <2>1 DEF Request, SetActiveConnection
  <2>3. NoneLost
    BY <1>3 DEF NoneLost
  <2>4. EndsFollow' /\ (link[c] = "down" => EndQueued(c)')
    BY <1>1, <1>2, <2>1, <2>3, ReceiveEnds DEF TimedInv
  <2>5. GoneGuestIsTimed'
    BY <1>3, <2>2, <2>4 DEF GoneGuestIsTimed, EndQueued
  <2>6. QED
    BY <2>4, <2>5 DEF TimedInv
<1>5. CASE ~(Acceptable(p) /\ p.type # "Test")
  <2>1. UNCHANGED <<sessionVars, link>>
    BY <1>5 DEF Request, sessionVars
  <2>2. QED
    BY <1>1, <1>2, <2>1, ReceiveTimed
<1>6. QED
  BY <1>4, <1>5

LEMMA ReinviteTimed == TypeOK /\ SessionInv /\ TimedInv /\ Reinvite => TimedInv'
<1> SUFFICES ASSUME TypeOK, SessionInv, TimedInv, Reinvite PROVE TimedInv'
  OBVIOUS
<1>1. Receive("Reinvite") /\ "Reinvite" \notin Downs
  BY DEF Reinvite, Downs
<1>2. \A c \in Guests : link'[c] = link[c] \/ link'[c] = AfterClose(link[c])
  BY DEF Reinvite, TypeOK
<1>3. NoneLost
  BY <1>2 DEF NoneLost, AfterClose
<1>4. /\ EndsFollow'
      /\ \A c \in Guests : EndQueued(c) => EndQueued(c)'
  BY <1>1, <1>3, ReceiveEnds DEF TimedInv
<1>5. CASE connected
  <2>1. connected' = connected /\ remote' = remote /\ timer' = timer
    BY <1>5 DEF Reinvite
  <2>2. remote \in Guests
    BY <1>5 DEF SessionInv, SessionShape, TypeOK
  <2>3. GoneGuestIsTimed'
    BY <1>3, <1>4, <2>1, <2>2 DEF NoneLost, TimedInv, GoneGuestIsTimed
  <2>4. QED
    BY <1>4, <2>3 DEF TimedInv
<1>6. CASE ~connected
  <2>1. ~connected'
    BY <1>6 DEF Reinvite, DoRestart, SessionReset
  <2>2. QED
    BY <1>4, <2>1 DEF TimedInv, GoneGuestIsTimed
<1>7. QED
  BY <1>5, <1>6

LEMMA QuietTimed ==
    ASSUME TimedInv, UNCHANGED <<inbox, link>>,
           \/ ~connected'
           \/ connected' = connected /\ remote' = remote /\ (timer' # "off" \/ timer' = timer)
    PROVE  TimedInv'
  BY DEF TimedInv, EndsFollow, EndAfter, GoneGuestIsTimed, EndQueued

LEMMA AdditionalUpdateTimed == TimedInv /\ AdditionalUpdate => TimedInv'
<1> SUFFICES ASSUME TimedInv, AdditionalUpdate PROVE TimedInv'
  OBVIOUS
<1>1. UNCHANGED <<inbox, link>>
  BY DEF AdditionalUpdate, peerVars
<1>2. UNCHANGED sessionVars \/ ~connected'
  BY DEF AdditionalUpdate, hostVars, DoRestart, SessionReset
<1>3. QED
  BY <1>1, <1>2, QuietTimed DEF sessionVars

LEMMA OtherThreadsTimed ==
    TypeOK /\ SessionInv /\ TimedInv
      /\ (CreateNewInvitation \/ PortForwarded \/ TimeIsUp) => TimedInv'
<1> SUFFICES ASSUME TypeOK, SessionInv, TimedInv,
                    CreateNewInvitation \/ PortForwarded \/ TimeIsUp
             PROVE  TimedInv'
  OBVIOUS
<1>1. ASSUME NEW t \in {"Reinvite", "ReconnectNat"}, Queue(Packet(t, NoGuest)),
             UNCHANGED <<sessionVars, link>>
      PROVE  TimedInv'
  <2>1. Packet(t, NoGuest) \in Packets /\ Packet(t, NoGuest).from \notin Guests
    BY NewPackets, GuestAssumption DEF Packet
  <2>2. QED
    BY <1>1, <2>1, QueueTimed
<1>2. CASE CreateNewInvitation
  BY <1>1, <1>2 DEF CreateNewInvitation
<1>3. CASE PortForwarded
  BY <1>1, <1>3 DEF PortForwarded, ForwardingDone, hostVars, peerVars
<1>4. CASE TimeIsUp
  BY <1>4, QuietTimed DEF TimeIsUp, peerVars
<1>5. QED
  BY <1>2, <1>3, <1>4

LEMMA NatStepTimed == TypeOK /\ SessionInv /\ TimedInv /\ NatStep => TimedInv'
<1> SUFFICES ASSUME TypeOK, SessionInv, TimedInv, NatStep PROVE TimedInv'
  OBVIOUS
<1>1. PICK t \in Downs \cup {"Accepted", "AlreadyConnected"} : Queue(Packet(t, NatServer))
  BY DEF NatStep, NatProgress, NatFault, NatAccepts, NatRefuses, NatDrops, NatCloses, Downs
<1>2. Packet(t, NatServer) \in Packets /\ Packet(t, NatServer).from \notin Guests
  BY NewPackets, GuestAssumption DEF Packet, Downs
<1>3. UNCHANGED <<sessionVars, link>>
  BY DEF NatStep, NatProgress, NatFault, hostVars, peerVars
<1>4. QED
  BY <1>1, <1>2, <1>3, QueueTimed

LEMMA GuestStepTimed ==
    ASSUME TypeOK, SessionInv, TimedInv, NEW c \in Guests, GuestStep(c)
    PROVE  TimedInv'
<1>1. connected' = connected /\ remote' = remote /\ timer' = timer
  BY DEF GuestStep, GuestConnects, GuestLost, GuestCloses, GuestAsks, GuestHears,
         PeerUnchanged, hostVars, sessionVars
<1>2. connected => remote \in Guests
  BY DEF SessionInv, SessionShape, TypeOK
<1>3. link \in [Guests -> {"down", "up", "closing"}] /\ key \in Nat
  BY DEF TypeOK
<1>4. CASE GuestConnects(c)
  <2> DEFINE p == Packet("NewIncoming", c)
  <2>1. p \in Packets /\ p.from = c
    BY NewPackets DEF Packet
  <2> HIDE DEF p
  <2>2. Queue(p) /\ link' = [link EXCEPT ![c] = "up"]
    BY <1>4 DEF GuestConnects, PeerStep, p
  <2>3. \A d \in Guests : link'[d] = IF d = c THEN "up" ELSE link[d]
    BY <1>3, <2>2
  <2>4. EndsFollow' /\ \A d \in Guests : EndQueued(d) => EndQueued(d)'
    BY <2>1, <2>2, <2>3, QueueEnds DEF TimedInv
  <2>5. QED
    BY <1>1, <1>2, <2>3, <2>4 DEF TimedInv, GoneGuestIsTimed
<1>5. CASE GuestLost(c) \/ GuestCloses(c)
  <2>1. PICK t \in Downs : Queue(Packet(t, c))
    BY <1>5 DEF GuestLost, GuestCloses, Downs
  <2> DEFINE p == Packet(t, c)
  <2>2. p \in Packets /\ p.from = c /\ p.type = t
    BY NewPackets DEF Packet, Downs
  <2>3. Queue(p)
    BY <2>1
  <2> HIDE DEF p
  <2>4. link' = [link EXCEPT ![c] = "down"]
    BY <1>5 DEF GuestLost, GuestCloses, PeerStep
  <2>5. \A d \in Guests : link'[d] = IF d = c THEN "down" ELSE link[d]
    BY <1>3, <2>4
  <2>6. /\ EndsFollow' /\ EndQueued(c)'
        /\ \A d \in Guests : EndQueued(d) => EndQueued(d)'
    BY <2>2, <2>3, <2>5, QueueEnds DEF TimedInv
  <2>7. QED
    BY <1>1, <1>2, <2>5, <2>6 DEF TimedInv, GoneGuestIsTimed
<1>6. CASE \E t \in Requests, k \in 1 .. key : GuestAsks(c, t, k)
  <2>1. PICK t \in Requests, k \in 1 .. key : GuestAsks(c, t, k)
    BY <1>6
  <2> DEFINE p == [type |-> t, from |-> c, key |-> k]
  <2>2. p \in Packets /\ p.from = c
    BY <1>3, NewPackets
  <2>3. Queue(p) /\ link[c] = "up" /\ link' = link
    BY <2>1 DEF GuestAsks
  <2> HIDE DEF p
  <2>4. EndsFollow' /\ \A d \in Guests : EndQueued(d) => EndQueued(d)'
    BY <2>2, <2>3, QueueEnds DEF TimedInv
  <2>5. QED
    BY <1>1, <1>2, <2>3, <2>4 DEF TimedInv, GoneGuestIsTimed
<1>7. CASE GuestHears(c)
  BY <1>1, <1>7, QuietTimed DEF GuestHears
<1>8. QED
  BY <1>4, <1>5, <1>6, <1>7 DEF GuestStep

LEMMA NextTimed == TypeOK /\ SessionInv /\ TimedInv /\ [Next]_vars => TimedInv'
<1> SUFFICES ASSUME TypeOK, SessionInv, TimedInv, [Next]_vars PROVE TimedInv'
  OBVIOUS
<1>1. CASE Poll
  BY <1>1, NatPacketTimed, NewIncomingTimed, GuestDisconnectedTimed, RequestTimed,
     ReinviteTimed, AdditionalUpdateTimed DEF Poll
<1>2. CASE CreateNewInvitation \/ PortForwarded \/ TimeIsUp
  BY <1>2, OtherThreadsTimed
<1>3. CASE NatStep
  BY <1>3, NatStepTimed
<1>4. CASE \E c \in Guests : GuestStep(c)
  BY <1>4, GuestStepTimed
<1>5. CASE UNCHANGED vars
  BY <1>5, QuietTimed DEF vars, hostVars, sessionVars, peerVars
<1>6. QED
  BY <1>1, <1>2, <1>3, <1>4, <1>5 DEF Next, HostStep

\* There is no session with a guest that is gone without the clock running or
\* the news of it waiting: every such session comes to an end.
THEOREM GoneGuestsAreTimed == Spec => []GoneGuestIsTimed
<1>1. Init => TimedInv
  BY DEF Init, HostInit, NatInit, TimedInv, EndsFollow, GoneGuestIsTimed
<1>2. TimedInv => GoneGuestIsTimed
  BY DEF TimedInv
<1>3. QED
  BY <1>1, <1>2, NextTimed, HostTypeCorrect, SessionInvHolds, PTL DEF Spec
=============================================================================
