----------------------------- MODULE HostHandler -----------------------------
(***************************************************************************)
(* ConnectionHandlerRakNetServer: the handler of the player who hosts a    *)
(* netplay session (source/remote_control/ConnectionHandlerRakNet.cpp).    *)
(*                                                                         *)
(* The host waits at the NAT server until a guest joins with the current   *)
(* invitation key, drops the NAT server, and plays with that one guest.    *)
(* A guest whose connection is lost is awaited for 20 seconds; then, or    *)
(* when it left by itself or the user wants to invite somebody else, the   *)
(* host goes back to the NAT server and makes a new key.                   *)
(*                                                                         *)
(* All of it runs on RakNet's thread.  The other threads put packets in    *)
(* the queue (createNewInvitation, port forwarding) and send game data     *)
(* under m_sendingLock, which is not recursive.                            *)
(***************************************************************************)
EXTENDS NatConnection

CONSTANTS
    Guests,      \* addresses of the clients
    NoGuest,     \* RakNet::SystemAddress()
    NatServer,   \* m_natPunchServerAddress
    AutoGenKey,  \* m_autoGenKey
    Budget       \* bound: connections made, faults and user requests

ASSUME GuestAssumption ==
    /\ NoGuest \notin Guests /\ NatServer \notin Guests
    /\ Budget \in Nat

VARIABLES
    connected, \* m_connected
    remote,    \* m_remotePeerAddress
    timer,     \* m_reconnectionWaitStartTime: 0, running, or 20 s old
    dontWait,  \* m_dontWait
    key,       \* m_invitationKey
    accepting, \* RakNet accepts incoming connections
    link,      \* RakNet's connection to each guest
    replies,   \* what the host sent each guest and it has not received yet
    budget,    \* what is left of Budget
    left,      \* history: this session's guest has left or is to be kicked
    inviting   \* history: a new invitation is asked for and not yet made

sessionVars == <<connected, remote, timer, dontWait, left>>
hostVars    == <<sessionVars, key, accepting, inviting>>
peerVars    == <<link, replies, budget>>
vars        == <<phase, inbox, natVars, hostVars, peerVars>>

Requests == {"Join", "Rejoin", "Test"}
Downs    == {"Disconnected", "ConnectionLost"}

Packets ==
    [type : {"Accepted", "AlreadyConnected"} \cup Downs, from : {NatServer}, key : {0}]
    \cup [type : {"NewIncoming"} \cup Downs, from : Guests, key : {0}]
    \cup [type : Requests, from : Guests, key : Nat]
    \cup [type : {"Reinvite", "ReconnectNat"}, from : {NoGuest}, key : {0}]

Packet(t, from) == [type |-> t, from |-> from, key |-> 0]

Spend == budget > 0 /\ budget' = budget - 1

-----------------------------------------------------------------------------
\* What the server class adds to the base class.

\* onNatServerConnected(true) and serverConnectedCallback, when they are called.
OnNatServerConnected(called) ==
    IF called
    THEN /\ accepting' = TRUE
         /\ key' = IF AutoGenKey THEN key + 1 ELSE key
         /\ inviting' = FALSE
    ELSE UNCHANGED <<accepting, key, inviting>>

\* Mutant: the reset forgets the request not to wait.
SessionResetKeepsDontWait ==
    /\ connected' = FALSE /\ remote' = NoGuest
    /\ timer' = "off"
    /\ UNCHANGED <<dontWait, left>>

SessionReset ==
    /\ connected' = FALSE /\ remote' = NoGuest
    /\ timer' = "off" /\ dontWait' = FALSE
    /\ UNCHANGED left

\* Mutant: m_natServerConnected stays set, so nothing is announced.
DoRestartUnannounced ==
    /\ SessionReset
    /\ Restart
    /\ OnNatServerConnected(natConnected /\ Announces(natConnected))

\* doRestart(), called without m_sendingLock.
DoRestart ==
    /\ SessionReset
    /\ Restart
    /\ OnNatServerConnected(natConnected /\ Announces(FALSE))

\* setActiveConnection(c).
SetActiveConnection(c) ==
    /\ connected' = TRUE /\ remote' = c
    /\ natLink' = AfterClose(natLink)
    /\ UNCHANGED <<natConnected, natAttempts, forwarding, forwarded, error>>

-----------------------------------------------------------------------------
\* pollingProc and processPacket, one action per packet they know.

NatAccepted ==
    /\ Receive("Accepted")
    /\ OnNatConnected(natConnected)
    /\ OnNatServerConnected(Announces(natConnected))
    /\ UNCHANGED <<sessionVars, peerVars>>

NatDisconnected ==
    /\ \E t \in Downs : Receive(t)
    /\ Head(inbox).from = NatServer
    /\ OnNatDisconnected(connected)
    /\ UNCHANGED <<hostVars, peerVars>>

GuidTaken ==
    /\ Receive("AlreadyConnected")
    /\ OnGuidTaken
    /\ UNCHANGED <<hostVars, peerVars>>

ReconnectNat ==
    /\ Receive("ReconnectNat")
    /\ OnReconnectNat
    /\ UNCHANGED <<hostVars, peerVars>>

\* Mutant: whoever connects is taken for the awaited guest.
NewIncomingOfAnybody ==
    /\ Receive("NewIncoming")
    /\ timer' = "off"
    /\ UNCHANGED <<natVars, connected, remote, dontWait, left,
                   key, accepting, inviting, peerVars>>

\* onPeerConnected(c, true): the awaited guest is back.
NewIncoming ==
    /\ Receive("NewIncoming")
    /\ timer' = IF connected /\ Head(inbox).from = remote THEN "off" ELSE timer
    /\ UNCHANGED <<natVars, connected, remote, dontWait, left,
                   key, accepting, inviting, peerVars>>

\* onPeerConnected(c, false); then, when c said goodbye, processPacket.
GuestDisconnected ==
    /\ \E t \in Downs : Receive(t)
    /\ Head(inbox).from \in Guests
    /\ LET goodbye == /\ Head(inbox).type = "Disconnected"
                      /\ Head(inbox).from = remote
       IN  /\ timer' = IF connected /\ Head(inbox).from = remote
                       THEN "running" ELSE timer
           /\ dontWait' = (dontWait \/ goodbye)
           /\ left' = (left \/ goodbye)
    /\ UNCHANGED <<natVars, connected, remote, key, accepting,
                   inviting, peerVars>>

\* Mutant: anybody with the key may rejoin.
AcceptableFromAnybody(p) ==
    /\ connected <=> p.type = "Rejoin"
    /\ p.key = key

\* A request is accepted from the guest of the session when it wants to rejoin,
\* from anybody who does not when there is no session, and with the key only.
Acceptable(p) ==
    /\ IF connected THEN p.type = "Rejoin" /\ p.from = remote
                    ELSE p.type # "Rejoin"
    /\ p.key = key

Request ==
    /\ \E t \in Requests : Receive(t)
    /\ LET p == Head(inbox)
       IN  /\ replies' = [replies EXCEPT ![p.from] =
                            IF link[p.from] # "up" THEN @
                            ELSE Append(@, IF Acceptable(p) THEN "accepted"
                                                            ELSE "refused")]
           /\ IF Acceptable(p) /\ p.type # "Test"
              THEN /\ SetActiveConnection(p.from)
                   /\ left' = (left /\ connected)
              ELSE UNCHANGED <<natVars, connected, remote, left>>
    /\ UNCHANGED <<timer, dontWait, key, accepting, inviting, link, budget>>

\* ID_USER_PACKET_REINVITE_FRIEND.
Reinvite ==
    /\ Receive("Reinvite")
    /\ IF connected
       THEN /\ link' = [link EXCEPT ![remote] = AfterClose(@)]
            /\ dontWait' = TRUE /\ left' = TRUE
            /\ UNCHANGED <<natVars, connected, remote, timer, key,
                           accepting, inviting>>
       ELSE DoRestart /\ UNCHANGED link
    /\ UNCHANGED <<replies, budget>>

\* Mutants: a guest is given up as soon as it is lost, or only if it left.
GaveUpAtOnce == timer # "off"

GaveUpOnlyIfTold == timer # "off" /\ dontWait

\* Whether the guest has been awaited long enough.
GaveUp == timer # "off" /\ (dontWait \/ timer = "expired")

\* additionalUpdateProc holds m_sendingLock and calls doRestart() when the
\* guest has been awaited long enough.  If m_natServerConnected is set,
\* restart() calls onConnected, which takes m_sendingLock again: the thread
\* blocks on itself for good.
AdditionalUpdate ==
    /\ IF ~GaveUp THEN PollEnds /\ phase = "receive"
                       /\ UNCHANGED <<natVars, hostVars>>
       ELSE IF ~natConnected THEN PollEnds /\ DoRestart
       ELSE /\ phase # "stuck" /\ inbox = << >> /\ phase' = "stuck"
            /\ SessionReset
            /\ natConnected' = FALSE
            /\ UNCHANGED <<natLink, natAttempts, forwarding, forwarded, error,
                           key, accepting, inviting>>
    /\ UNCHANGED <<inbox, peerVars>>

Poll ==
    \/ NatAccepted \/ NatDisconnected \/ GuidTaken \/ ReconnectNat
    \/ NewIncoming \/ GuestDisconnected \/ Request \/ Reinvite
    \/ AdditionalUpdate

-----------------------------------------------------------------------------
\* The other threads, and time.

\* createNewInvitation() takes m_sendingLock.
CreateNewInvitation ==
    /\ phase # "stuck"
    /\ Spend
    /\ inviting' = TRUE
    /\ Queue(Packet("Reinvite", NoGuest))
    /\ UNCHANGED <<phase, natVars, sessionVars, key, accepting, link, replies>>

PortForwarded ==
    /\ ForwardingDone(Packet("ReconnectNat", NoGuest))
    /\ UNCHANGED <<phase, hostVars, peerVars>>

TimeIsUp ==
    /\ timer = "running" /\ timer' = "expired"
    /\ UNCHANGED <<phase, inbox, natVars, connected, remote, dontWait,
                   left, key, accepting, inviting, peerVars>>

-----------------------------------------------------------------------------
\* RakNet and the NAT server.

NatProgress ==
    /\ \/ NatAccepts(Packet("Accepted", NatServer))
       \/ NatCloses(Packet("Disconnected", NatServer))
    /\ UNCHANGED <<hostVars, peerVars>>

NatFault ==
    /\ Spend
    /\ \/ NatRefuses(Packet("ConnectionLost", NatServer))
       \/ NatRefuses(Packet("AlreadyConnected", NatServer))
       \/ NatDrops(Packet("ConnectionLost", NatServer))
    /\ UNCHANGED <<hostVars, link, replies>>

\* RakNet and the guests.  A guest whose end was reported cannot be connected
\* again before the handler has seen that report: both take RakNet's thread.
PeerStep(c, from, to) ==
    /\ phase = "network" /\ link[c] \in from
    /\ link' = [link EXCEPT ![c] = to]

PeerUnchanged == UNCHANGED <<phase, natVars, hostVars>>

GuestConnects(c) ==
    /\ PeerStep(c, {"down"}, "up") /\ accepting /\ Spend
    /\ \A i \in 1 .. Len(inbox) : inbox[i].from = c => inbox[i].type \notin Downs
    /\ Queue(Packet("NewIncoming", c))
    /\ PeerUnchanged /\ UNCHANGED replies

\* The connection is lost, with what is under way on it.
GuestLost(c) ==
    /\ PeerStep(c, {"up"}, "down")
    /\ Queue(Packet("ConnectionLost", c))
    /\ replies' = [replies EXCEPT ![c] = << >>]
    /\ PeerUnchanged /\ UNCHANGED budget

\* The guest closes the connection, or the host's CloseConnection is done.
GuestCloses(c) ==
    /\ PeerStep(c, {"up", "closing"}, "down")
    /\ Queue(Packet("Disconnected", c))
    /\ PeerUnchanged /\ UNCHANGED <<replies, budget>>

\* Any request, with any key that was ever handed out.
GuestAsks(c, t, k) ==
    /\ phase = "network" /\ link[c] = "up"
    /\ Spend
    /\ Queue([type |-> t, from |-> c, key |-> k])
    /\ PeerUnchanged /\ UNCHANGED <<link, replies>>

\* The guest receives the host's answer.
GuestHears(c) ==
    /\ replies[c] # << >>
    /\ replies' = [replies EXCEPT ![c] = Tail(@)]
    /\ PeerUnchanged /\ UNCHANGED <<inbox, link, budget>>

GuestStep(c) ==
    \/ GuestConnects(c) \/ GuestLost(c) \/ GuestCloses(c)
    \/ \E t \in Requests, k \in 1 .. key : GuestAsks(c, t, k)
    \/ GuestHears(c)

-----------------------------------------------------------------------------

HostInit ==
    /\ NatInit
    /\ connected = FALSE /\ remote = NoGuest
    /\ timer = "off" /\ dontWait = FALSE
    /\ key = IF AutoGenKey THEN 0 ELSE 1
    /\ accepting = FALSE
    /\ left = FALSE /\ inviting = TRUE

Init ==
    /\ HostInit
    /\ link = [c \in Guests |-> "down"]
    /\ replies = [c \in Guests |-> << >>]
    /\ budget = Budget

HostStep == Poll \/ CreateNewInvitation \/ PortForwarded \/ TimeIsUp
NatStep  == NatProgress \/ NatFault

Next == HostStep \/ NatStep \/ \E c \in Guests : GuestStep(c)

Spec == Init /\ [][Next]_vars

\* RakNet's thread runs, its connections make progress, the port forwarding
\* thread and the clock too.  Guests, faults and the user owe nothing.
Fairness ==
    /\ WF_vars(Poll)
    /\ WF_vars(PortForwarded)
    /\ WF_vars(TimeIsUp)
    /\ WF_vars(NatProgress)
    /\ \A c \in Guests : WF_vars(link[c] = "closing" /\ GuestCloses(c))

FairSpec == Spec /\ Fairness

-----------------------------------------------------------------------------
(***************************************************************************)
(* Properties.                                                             *)
(***************************************************************************)

TypeOK ==
    /\ NatTypeOK
    /\ inbox \in Seq(Packets)
    /\ connected \in BOOLEAN /\ remote \in Guests \cup {NoGuest}
    /\ timer \in {"off", "running", "expired"} /\ dontWait \in BOOLEAN
    /\ key \in Nat
    /\ accepting \in BOOLEAN /\ left \in BOOLEAN /\ inviting \in BOOLEAN
    /\ link \in [Guests -> {"down", "up", "closing"}]
    /\ replies \in [Guests -> Seq({"accepted", "refused"})]
    /\ budget \in 0 .. Budget

\* The address and the timer belong to a session: neither survives it.
SessionShape ==
    /\ connected <=> remote # NoGuest
    /\ timer # "off" => connected

\* A packet in the queue that ends the connection to c.
EndQueued(c) ==
    \E i \in 1 .. Len(inbox) : inbox[i].from = c /\ inbox[i].type \in Downs

\* No zombie session: when the guest's connection is gone, the host knows it
\* and the clock runs, or is about to be told; in whatever order joins, losses
\* and reconnections of several guests were queued.
GoneGuestIsTimed ==
    connected /\ link[remote] = "down" => timer # "off" \/ EndQueued(remote)

\* Only a guest that left by itself, or was to be kicked, is dropped before
\* the waiting time is over: m_dontWait never outlives its session.
LostGuestIsAwaited == dontWait => left

Quiet == phase = "network" /\ inbox = << >>

\* A host without a guest is on its way to the NAT server, known there, having
\* its port forwarded, or has reported an error.
HostIsReachable ==
    Quiet /\ ~connected =>
        \/ natLink = "up" /\ natConnected /\ accepting
        \/ natLink \in {"connecting", "closing"}
        \/ forwarding \/ error

\* While a session goes on, it stays with its guest: nobody takes it over.
NoTakeover == [][connected /\ connected' => remote' = remote]_vars

\* A session whose guest has gone for good comes to an end.
GoneGuestIsDropped ==
    \A c \in Guests :
        (connected /\ remote = c /\ link[c] = "down")
            ~> (~connected \/ link[c] = "up")

\* A request for a new invitation produces one, with a guest to kick first or
\* not, unless the NAT server could not be reached.  Or, in the first form, the
\* thread blocked itself on the way.
InvitationOrBlocked == inviting ~> ~inviting \/ error \/ phase = "stuck"
InvitationIsMade    == inviting ~> ~inviting \/ error

\* The host's variables, as the game above the handler sees them.
Session == INSTANCE HostSession WITH
    guest   <- IF connected THEN remote ELSE NoGuest,
    absence <- CASE timer = "off" -> "none"
                 [] timer = "running" -> "short"
                 [] timer = "expired" -> "long",
    left    <- connected /\ left

\* One guest at a time, who keeps the session until it was gone for long enough,
\* or left: whatever was queued of whom when the session began or ended.
SessionSpec == Session!Spec
=============================================================================
