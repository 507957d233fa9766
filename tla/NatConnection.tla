---------------------------- MODULE NatConnection ----------------------------
(***************************************************************************)
(* What ConnectionHandlerRakNet, the base class of the host's and the      *)
(* guest's handler (source/remote_control/ConnectionHandlerRakNet.cpp),    *)
(* does about its connection to the NAT punch-through server, and the loop *)
(* that feeds it packets.                                                  *)
(*                                                                         *)
(* RakNet itself is outside the repository (an empty submodule).  Of it    *)
(* the handlers see: a queue of packets, drained by pollingProc on         *)
(* RakNet's own thread once per update; Connect, which starts an attempt   *)
(* only when no connection to the address exists; and CloseConnection,     *)
(* which leaves a connection closing until RakNet reports that it is gone. *)
(* Packets reach the queue between two polls, except those the program     *)
(* sends to itself (SendLoopback), which any thread adds at any time.      *)
(***************************************************************************)
EXTENDS Integers, Sequences

CONSTANTS
    MaxAttempts,     \* MAX_RECONNECTION_ATTEMPTS
    DoPortForwarding \* m_doPortForwarding

ASSUME AttemptsAssumption == MaxAttempts \in Nat

VARIABLES
    phase,        \* RakNet's thread: between polls, in a poll, or blocked
    inbox,        \* the packets m_rakPeer->Receive() will return
    natLink,      \* RakNet's connection to the NAT server
    natConnected, \* m_natServerConnected
    natAttempts,  \* m_natServerRemainReconnectionAttempts
    forwarding,   \* m_portForwardAsyncData # nullptr
    forwarded,    \* m_portToForward # 0
    error         \* setInternalError was called

natVars == <<natLink, natConnected, natAttempts, forwarding, forwarded, error>>

Phases == {"network", "receive", "stuck"}
Links  == {"down", "connecting", "up", "closing"}

NatTypeOK ==
    /\ phase \in Phases
    /\ natLink \in Links
    /\ natConnected \in BOOLEAN
    /\ natAttempts \in 0 .. MaxAttempts
    /\ forwarding \in BOOLEAN /\ forwarded \in BOOLEAN
    /\ error \in BOOLEAN

-----------------------------------------------------------------------------
\* The queue.

\* pollingProc takes the next packet, of type t.
Receive(t) ==
    /\ phase # "stuck"
    /\ inbox # << >>
    /\ Head(inbox).type = t
    /\ inbox' = Tail(inbox)
    /\ phase' = "receive"

Queue(p) == inbox' = Append(inbox, p)

\* The queue is empty: the poll ends with additionalUpdateProc.
PollEnds == phase # "stuck" /\ inbox = << >> /\ phase' = "network"

-----------------------------------------------------------------------------
\* RakNet's calls.

AfterConnect(l) == IF l = "down" THEN "connecting" ELSE l
AfterClose(l)   == IF l = "up" THEN "closing" ELSE l

-----------------------------------------------------------------------------
\* The base class.

\* Mutant: every connection is announced, not the first one only.
AnnouncesAgain(was) == forwarded \/ ~DoPortForwarding

\* Whether onConnected(NAT server, true) goes on to onNatServerConnected(true)
\* and the invitation callback; "was" is m_natServerConnected at the call.
Announces(was) == (forwarded \/ ~DoPortForwarding) /\ ~was

\* onConnected(NAT server, true).  The first time, a host drops the connection
\* and has its port forwarded before it connects again.
OnNatConnected(was) ==
    /\ natAttempts' = MaxAttempts
    /\ IF forwarded \/ ~DoPortForwarding
       THEN natConnected' = TRUE /\ UNCHANGED <<natLink, forwarding, forwarded>>
       ELSE /\ forwarded' = TRUE /\ forwarding' = TRUE
            /\ natLink' = AfterClose(natLink)
            /\ natConnected' = was
    /\ UNCHANGED error

\* Mutant: tryReconnectToNatServer does not count.
OnNatDisconnectedUncounted(connected) ==
    IF forwarding THEN UNCHANGED natVars
    ELSE /\ natLink' = AfterConnect(natLink)
         /\ natAttempts' = IF natLink = "down" THEN natAttempts - 1 ELSE natAttempts
         /\ UNCHANGED <<natConnected, forwarding, forwarded, error>>

\* onConnected(NAT server, false), with m_connected: tryReconnectToNatServer
\* leaves m_natServerConnected as it is.
OnNatDisconnected(connected) ==
    IF forwarding THEN UNCHANGED natVars
    ELSE IF ~connected /\ natAttempts > 0
    THEN /\ natLink' = AfterConnect(natLink)
         /\ natAttempts' = IF natLink = "down" THEN natAttempts - 1 ELSE natAttempts
         /\ UNCHANGED <<natConnected, forwarding, forwarded, error>>
    ELSE /\ natConnected' = FALSE
         /\ error' = (error \/ ~connected)
         /\ UNCHANGED <<natLink, natAttempts, forwarding, forwarded>>

\* ID_ALREADY_CONNECTED from the NAT server: the GUID is in use elsewhere.
OnGuidTaken ==
    /\ error' = TRUE
    /\ natAttempts' = 0
    /\ natLink' = AfterClose(natLink)
    /\ UNCHANGED <<natConnected, forwarding, forwarded>>

\* Mutant: the connection is closed, not made again.
OnReconnectNatCloses ==
    /\ natAttempts' = MaxAttempts
    /\ natLink' = AfterClose(natLink)
    /\ UNCHANGED <<natConnected, forwarding, forwarded, error>>

\* ID_USER_PACKET_RECONNECT_NAT_SERVER: CloseConnection, then Connect.
OnReconnectNat ==
    /\ natAttempts' = MaxAttempts
    /\ natLink' = AfterConnect(AfterClose(natLink))
    /\ UNCHANGED <<natConnected, forwarding, forwarded, error>>

\* restart().
Restart ==
    IF natConnected
    THEN OnNatConnected(FALSE)
    ELSE /\ natAttempts' = MaxAttempts
         /\ natLink' = AfterConnect(natLink)
         /\ UNCHANGED <<natConnected, forwarding, forwarded, error>>

\* The thread of doPortForwardingAsync has its answer, whatever it is.
ForwardingDone(p) ==
    /\ forwarding
    /\ forwarding' = FALSE
    /\ Queue(p)
    /\ UNCHANGED <<natLink, natConnected, natAttempts, forwarded, error>>

NatInit ==
    /\ phase = "network"
    /\ inbox = << >>
    /\ natLink = "connecting"
    /\ natConnected = FALSE
    /\ natAttempts = MaxAttempts
    /\ forwarding = FALSE /\ forwarded = FALSE
    /\ error = FALSE

-----------------------------------------------------------------------------
\* The NAT server and the network between, as RakNet reports them.

NatAnswers(from, to) == phase = "network" /\ natLink = from /\ natLink' = to

NatUnchanged ==
    UNCHANGED <<phase, natConnected, natAttempts, forwarding, forwarded, error>>

NatAccepts(p) == NatAnswers("connecting", "up") /\ Queue(p) /\ NatUnchanged
NatRefuses(p) == NatAnswers("connecting", "down") /\ Queue(p) /\ NatUnchanged
NatDrops(p)   == NatAnswers("up", "down") /\ Queue(p) /\ NatUnchanged
NatCloses(p)  == NatAnswers("closing", "down") /\ Queue(p) /\ NatUnchanged
=============================================================================
