---------------------------- MODULE GuestHandler ----------------------------
(***************************************************************************)
(* ConnectionHandlerRakNetClient: the handler of the player who joins a    *)
(* netplay session (source/remote_control/ConnectionHandlerRakNet.cpp).    *)
(*                                                                         *)
(* Connected to the NAT server, the guest asks it for a way to the host.   *)
(* If punching through fails it tries the LAN address of the invitation,   *)
(* then the relay of the proxy server, then a search of the LAN.  Once the *)
(* host has accepted its key it drops the NAT server, and reconnects to    *)
(* the host by itself when the connection is lost.                         *)
(***************************************************************************)
EXTENDS NatConnection

CONSTANTS
    HasLan,    \* the invitation carries a LAN address
    HasProxy,  \* m_proxyCoordinatorAddress is set
    Budget     \* bound: faults of the network and answers of the host

ASSUME BudgetAssumption == Budget \in Nat

VARIABLES
    testOnly,  \* m_testOnly, fixed when the handler is made
    connected, \* m_connected
    remote,    \* m_remotePeerAddress: the path of the session
    attempts,  \* m_remainReconnectionAttempts
    punching,  \* m_sendingNATPunchthroughRequest
    tryingLan, \* m_tryConnectToLanIp
    relayed,   \* m_remoteProxyAddress is set
    asked,     \* the searches for the host that will be answered
    link,      \* RakNet's connection to the host over each path
    requests,  \* requests sent to the host and not yet received there
    tested,    \* what m_testCallback was told
    budget     \* what is left of Budget

guestVars == <<connected, remote, attempts, punching, tryingLan, relayed,
               asked, tested>>
peerVars  == <<link, requests, budget>>
vars      == <<testOnly, phase, inbox, natVars, guestVars, peerVars>>

\* The address the NAT server or the LAN search found, the LAN address of the
\* invitation, and the relay's.
Paths  == {"direct", "lan", "proxy"}
NoPath == "none"

Searches == {"punch", "relay", "ping"}
Downs    == {"Disconnected", "ConnectionLost", "AttemptFailed"}

Packets ==
    [type : {"Accepted", "AlreadyConnected", "ConnectionLost", "Disconnected",
             "Punched", "PunchFailed", "Unreachable",
             "NoRelay", "RelayFound", "Pong"}, from : {"nat"}]
    \cup [type : {"Connected", "JoinAccepted", "JoinRefused"} \cup Downs,
          from : Paths]

Packet(t, from) == [type |-> t, from |-> from]

Spend == budget > 0 /\ budget' = budget - 1

-----------------------------------------------------------------------------
\* The ways to the host.

ConnectTo(a) == link' = [link EXCEPT ![a] = AfterConnect(@)]

\* Mutant: the connection is left alone.
CloseToForgotten(a) == UNCHANGED link

CloseTo(a) == link' = [link EXCEPT ![a] = AfterClose(@)]

\* attemptNatPunchthrough in onNatServerConnected(true).
OnNatServerConnected(called) ==
    IF called
    THEN /\ punching' = TRUE
         /\ asked' = asked \cup {"punch"}
         /\ attempts' = MaxAttempts
    ELSE UNCHANGED <<punching, asked, attempts>>

\* tryRelayConnection: with no proxy server, tryDiscoverLanServer.
TryRelay == asked' = asked \cup {IF HasProxy THEN "relay" ELSE "ping"}

\* tryLanConnection.
TryLan ==
    IF HasLan /\ ~tryingLan
    THEN tryingLan' = TRUE /\ ConnectTo("lan") /\ UNCHANGED asked
    ELSE TryRelay /\ UNCHANGED <<tryingLan, link>>

\* Mutant: giving up leaves the session standing.
ReconnectOrGiveUpQuietly(a) ==
    IF testOnly \/ attempts = 0
    THEN UNCHANGED <<connected, remote, link>>
    ELSE ConnectTo(a) /\ UNCHANGED <<connected, remote>>

\* onPeerConnected(a, false): tryReconnect(a) or, when that is of no use, the
\* end of the session.  RakNet counts as an attempt what it started.
ReconnectOrGiveUp(a) ==
    IF testOnly \/ attempts = 0
    THEN connected' = FALSE /\ remote' = NoPath /\ UNCHANGED link
    ELSE ConnectTo(a) /\ UNCHANGED <<connected, remote>>

\* Mutant: attempts are not counted.
AttemptsLeftUncounted(a) == attempts

AttemptsLeft(a) ==
    IF testOnly \/ attempts = 0 \/ link[a] # "down" THEN attempts
                                                   ELSE attempts - 1

-----------------------------------------------------------------------------
\* pollingProc and processPacket, one action per packet they know.

NatAccepted ==
    /\ Receive("Accepted")
    /\ OnNatConnected(natConnected)
    /\ OnNatServerConnected(Announces(natConnected))
    /\ UNCHANGED <<connected, remote, tryingLan, relayed, tested, peerVars>>

NatDisconnected ==
    /\ \E t \in {"ConnectionLost", "Disconnected"} : Receive(t)
    /\ Head(inbox).from = "nat"
    /\ OnNatDisconnected(connected)
    /\ UNCHANGED <<guestVars, peerVars>>

GuidTaken ==
    /\ Receive("AlreadyConnected")
    /\ OnGuidTaken
    /\ UNCHANGED <<guestVars, peerVars>>

\* ID_NAT_PUNCHTHROUGH_SUCCEEDED, and the answers to a search of the LAN.
HostFound ==
    /\ Receive("Punched") \/ Receive("Pong")
    /\ IF punching THEN punching' = FALSE /\ ConnectTo("direct")
                   ELSE UNCHANGED <<punching, link>>
    /\ UNCHANGED <<natVars, connected, remote, attempts, tryingLan, relayed,
                   asked, tested, requests, budget>>

PunchFailed ==
    /\ Receive("PunchFailed")
    /\ TryLan
    /\ UNCHANGED <<natVars, connected, remote, attempts, punching, relayed,
                   tested, requests, budget>>

\* onPeerUnreachable.
HostUnreachable ==
    /\ Receive("Unreachable")
    /\ error' = TRUE
    /\ UNCHANGED <<natLink, natConnected, natAttempts, forwarding, forwarded,
                   guestVars, peerVars>>

\* OnForwardingSuccess; OnNoServersOnline and the other failures.
RelayFound ==
    /\ Receive("RelayFound")
    /\ relayed' = TRUE
    /\ ConnectTo("proxy")
    /\ UNCHANGED <<natVars, connected, remote, attempts, punching, tryingLan,
                   asked, tested, requests, budget>>

NoRelay ==
    /\ Receive("NoRelay")
    /\ asked' = asked \cup {"ping"}
    /\ UNCHANGED <<natVars, connected, remote, attempts, punching, tryingLan,
                   relayed, tested, peerVars>>

\* onPeerConnected(a, true): ask to be let in, or in again.  What is sent over
\* a connection that is down already is lost.
Ask == IF testOnly THEN "Test" ELSE IF connected THEN "Rejoin" ELSE "Join"

HostConnected ==
    /\ Receive("Connected")
    /\ requests' = IF link[Head(inbox).from] = "up" THEN Append(requests, Ask)
                                                    ELSE requests
    /\ attempts' = MaxAttempts
    /\ UNCHANGED <<natVars, connected, remote, punching, tryingLan, relayed,
                   asked, tested, link, budget>>

\* onPeerConnected(a, false) for a connection there was; only then processPacket
\* notes that a connection closed by the host is not worth another attempt.
HostDisconnected ==
    /\ Receive("ConnectionLost") \/ Receive("Disconnected")
    /\ Head(inbox).from \in Paths
    /\ ReconnectOrGiveUp(Head(inbox).from)
    /\ attempts' = IF Head(inbox).type = "Disconnected" THEN 0
                   ELSE AttemptsLeft(Head(inbox).from)
    /\ UNCHANGED <<natVars, punching, tryingLan, relayed, asked, tested,
                   requests, budget>>

\* The same for an attempt that failed: its packet carries no GUID, so without
\* a session it only leads on to the next way to try.
AttemptFailed ==
    /\ Receive("AttemptFailed")
    /\ LET a == Head(inbox).from
       IN  \/ /\ connected /\ a = remote
              /\ ReconnectOrGiveUp(a)
              /\ attempts' = AttemptsLeft(a)
              /\ UNCHANGED <<tryingLan, relayed, asked>>
           \/ /\ ~(connected /\ a = remote)
              /\ tryingLan' = (tryingLan /\ a # "lan")
              /\ IF tryingLan /\ a = "lan" THEN TryRelay /\ UNCHANGED relayed
                 ELSE IF relayed /\ a = "proxy"
                 THEN relayed' = FALSE /\ asked' = asked \cup {"ping"}
                 ELSE UNCHANGED <<relayed, asked>>
              /\ UNCHANGED <<connected, remote, attempts, link>>
    /\ UNCHANGED <<natVars, punching, tested, requests, budget>>

\* ID_USER_PACKET_ENUM_ACCEPTED: setActiveConnection, or the test is over.
JoinAccepted ==
    /\ Receive("JoinAccepted")
    /\ IF testOnly
       THEN /\ CloseTo(Head(inbox).from)
            /\ tested' = "ok"
            /\ UNCHANGED <<connected, remote, punching, natLink>>
       ELSE /\ connected' = TRUE /\ remote' = Head(inbox).from
            /\ punching' = FALSE
            /\ natLink' = AfterClose(natLink)
            /\ UNCHANGED <<tested, link>>
    /\ UNCHANGED <<natConnected, natAttempts, forwarding, forwarded, error,
                   attempts, tryingLan, relayed, asked, requests, budget>>

\* ID_USER_PACKET_ENUM_REFUSED.
JoinRefused ==
    /\ Receive("JoinRefused")
    /\ CloseTo(Head(inbox).from)
    /\ attempts' = 0
    /\ connected' = FALSE /\ remote' = NoPath
    /\ error' = TRUE
    /\ tested' = IF testOnly THEN "refused" ELSE tested
    /\ UNCHANGED <<natLink, natConnected, natAttempts, forwarding, forwarded,
                   punching, tryingLan, relayed, asked, requests, budget>>

EndOfPoll == PollEnds /\ phase = "receive" /\ UNCHANGED <<inbox, natVars, guestVars, peerVars>>

Poll ==
    \/ NatAccepted \/ NatDisconnected \/ GuidTaken
    \/ HostFound \/ PunchFailed \/ HostUnreachable \/ RelayFound \/ NoRelay
    \/ HostConnected \/ HostDisconnected \/ AttemptFailed
    \/ JoinAccepted \/ JoinRefused
    \/ EndOfPoll
-----------------------------------------------------------------------------
\* RakNet, the NAT and proxy servers.

NatProgress ==
    /\ \/ NatAccepts(Packet("Accepted", "nat"))
       \/ NatCloses(Packet("Disconnected", "nat"))
    /\ UNCHANGED <<guestVars, peerVars>>

NatFault ==
    /\ Spend
    /\ \/ NatRefuses(Packet("ConnectionLost", "nat"))
       \/ NatRefuses(Packet("AlreadyConnected", "nat"))
       \/ NatDrops(Packet("ConnectionLost", "nat"))
    /\ UNCHANGED <<guestVars, link, requests>>

Answers(search) ==
    CASE search = "punch" -> {"Punched", "PunchFailed", "Unreachable"}
      [] search = "relay" -> {"RelayFound", "NoRelay"}
      [] search = "ping"  -> {"Pong"}

\* A search is answered, or nobody ever answers it.
SearchEnds(search) ==
    /\ phase = "network" /\ search \in asked
    /\ asked' = asked \ {search}
    /\ (\E t \in Answers(search) : Queue(Packet(t, "nat"))) \/ UNCHANGED inbox
    /\ UNCHANGED <<phase, natVars, connected, remote, attempts, punching,
                   tryingLan, relayed, tested, peerVars>>

\* RakNet and the host.
PeerStep(a, from, to) ==
    /\ phase = "network" /\ link[a] = from
    /\ link' = [link EXCEPT ![a] = to]

PeerUnchanged == UNCHANGED <<phase, natVars, guestVars>>

HostAnswers(a) ==
    /\ PeerStep(a, "connecting", "up")
    /\ Queue(Packet("Connected", a))
    /\ PeerUnchanged /\ UNCHANGED <<requests, budget>>

HostSilent(a) ==
    /\ PeerStep(a, "connecting", "down")
    /\ Queue(Packet("AttemptFailed", a))
    /\ PeerUnchanged /\ UNCHANGED <<requests, budget>>

HostGone(a) ==
    /\ PeerStep(a, "up", "down") /\ Spend
    /\ \E t \in {"ConnectionLost", "Disconnected"} : Queue(Packet(t, a))
    /\ requests' = << >>
    /\ PeerUnchanged

HostClosed(a) ==
    /\ PeerStep(a, "closing", "down")
    /\ Queue(Packet("Disconnected", a))
    /\ requests' = << >>
    /\ PeerUnchanged /\ UNCHANGED budget

HostDecides(a) ==
    /\ phase = "network" /\ link[a] = "up" /\ requests # << >>
    /\ requests' = Tail(requests)
    /\ \E t \in {"JoinAccepted", "JoinRefused"} : Queue(Packet(t, a))
    /\ PeerUnchanged /\ UNCHANGED <<link, budget>>

HostStep(a) ==
    \/ HostAnswers(a) \/ HostSilent(a) \/ HostGone(a)
    \/ HostClosed(a) \/ HostDecides(a)

-----------------------------------------------------------------------------

GuestInit ==
    /\ NatInit
    /\ connected = FALSE /\ remote = NoPath /\ attempts = 0
    /\ punching = FALSE /\ tryingLan = FALSE /\ relayed = FALSE
    /\ asked = {} /\ tested = "no"

Init ==
    /\ testOnly \in BOOLEAN
    /\ GuestInit
    /\ link = [a \in Paths |-> "down"]
    /\ requests = << >>
    /\ budget = Budget

NatStep == NatProgress \/ NatFault \/ \E s \in Searches : SearchEnds(s)

Next ==
    /\ Poll \/ NatStep \/ \E a \in Paths : HostStep(a)
    /\ UNCHANGED testOnly

Spec == Init /\ [][Next]_vars

\* RakNet's thread runs; every attempt to connect ends one way or the other.
Fairness ==
    /\ WF_vars(Poll /\ UNCHANGED testOnly)
    /\ \A a \in Paths :
          WF_vars(/\ HostAnswers(a) \/ HostSilent(a) \/ HostClosed(a)
                  /\ UNCHANGED testOnly)

FairSpec == Spec /\ Fairness

-----------------------------------------------------------------------------
(***************************************************************************)
(* Properties.                                                             *)
(***************************************************************************)

TypeOK ==
    /\ testOnly \in BOOLEAN
    /\ NatTypeOK
    /\ inbox \in Seq(Packets)
    /\ connected \in BOOLEAN /\ remote \in Paths \cup {NoPath}
    /\ attempts \in 0 .. MaxAttempts
    /\ punching \in BOOLEAN /\ tryingLan \in BOOLEAN /\ relayed \in BOOLEAN
    /\ asked \subseteq Searches /\ tested \in {"no", "ok", "refused"}
    /\ link \in [Paths -> Links]
    /\ requests \in Seq({"Join", "Rejoin", "Test"})
    /\ budget \in 0 .. Budget

EndQueued(a) ==
    \E i \in 1 .. Len(inbox) : inbox[i].from = a /\ inbox[i].type \in Downs

\* A guest in a session has its host, is on its way back to it, or is about to
\* learn that it is gone, through every order of losses, failed attempts and
\* late answers over three paths.
GoneHostIsNoticed ==
    connected => /\ remote \in Paths
                 /\ link[remote] # "down" \/ EndQueued(remote)

\* The ways to the host are tried one after the other, so RakNet never holds
\* two connections to it.
OneWayAtATime ==
    \A a, b \in Paths : a # b => "down" \in {link[a], link[b]}

\* A running session does not move to another path.
SessionKeepsPath == [][connected /\ connected' => remote' = remote]_vars

\* A session whose host is gone resumes or ends: reconnecting does not go on
\* for ever.
SessionSettles ==
    \A a \in Paths :
        (connected /\ remote = a /\ link[a] # "up")
            ~> (~connected \/ link[a] = "up")

\* A connectivity test with a result leaves no connection to the host behind.
TestLetsGo == tested # "no" ~> \A a \in Paths : link[a] = "down"

\* processPacket: the host has closed the connection by force, "so don't
\* attempt to reconnect".
ForcedCloseIsFinal ==
    [][\A a \in Paths :
          (inbox # << >> /\ Head(inbox) = Packet("Disconnected", a)
                         /\ inbox' = Tail(inbox))
            => link'[a] # "connecting"]_vars
=============================================================================
