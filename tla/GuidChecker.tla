----------------------------- MODULE GuidChecker -----------------------------
(***************************************************************************)
(* RakNetValidGuidChecker: asks the NAT server which of the friends'       *)
(* invitations are still good                                              *)
(* (source/remote_control/ConnectionHandlerRakNet.cpp).  The user's thread *)
(* asks; RakNet's thread sends, once connected, what was asked before.     *)
(* m_pendingDataLock guards the buffer, but not m_natServerConnected.      *)
(***************************************************************************)
EXTENDS NatConnection

CONSTANTS
    Queries, \* the queries the user makes, one message each
    Budget   \* bound: faults of the NAT connection

ASSUME BudgetAssumption == Budget \in Nat

VARIABLES
    pending,    \* m_pendingDataToSend
    announcing, \* between onNatServerConnected and m_natServerConnected = true
    asked,      \* history: the queries made
    early,      \* history: those made before the buffer was sent
    received,   \* the queries that reached the NAT server
    budget      \* what is left of Budget

checkerVars == <<pending, announcing, asked, early, received>>
vars        == <<phase, inbox, natVars, checkerVars, budget>>

Packet(t) == [type |-> t]
Packets   == [type : {"Accepted", "AlreadyConnected", "ConnectionLost", "Disconnected"}]

Spend == budget > 0 /\ budget' = budget - 1

\* RakPeer::Send to the NAT server: lost unless the connection is up.
Send(qs) == received' = IF natLink = "up" THEN received \cup qs ELSE received

-----------------------------------------------------------------------------
\* The user's thread.

CheckIfGuidsValid(q) ==
    /\ q \notin asked
    /\ asked' = asked \cup {q}
    /\ IF natConnected THEN Send({q}) /\ UNCHANGED pending
                       ELSE pending' = pending \cup {q} /\ UNCHANGED received
    /\ early' = IF natConnected \/ announcing THEN early ELSE early \cup {q}
    /\ UNCHANGED <<phase, inbox, natVars, announcing, budget>>

-----------------------------------------------------------------------------
\* RakNet's thread.

\* Mutant: the buffer is kept for the next connection.
OnNatServerConnectedSilent == UNCHANGED received

\* onNatServerConnected(true): the buffer is sent, and kept.
OnNatServerConnected == Send(pending)

NatAccepted ==
    /\ ~announcing
    /\ Receive("Accepted")
    /\ IF Announces(natConnected)
       THEN /\ OnNatServerConnected
            /\ announcing' = TRUE
            /\ UNCHANGED natVars
       ELSE /\ OnNatConnected(natConnected)
            /\ UNCHANGED <<announcing, received>>
    /\ UNCHANGED <<pending, asked, early, budget>>

\* ... and only then m_natServerConnected is set.
NatAnnounced ==
    /\ announcing
    /\ announcing' = FALSE
    /\ OnNatConnected(natConnected)
    /\ UNCHANGED <<phase, inbox, pending, asked, early, received, budget>>

NatDisconnected ==
    /\ ~announcing
    /\ \E t \in {"ConnectionLost", "Disconnected"} : Receive(t)
    /\ OnNatDisconnected(FALSE)
    /\ UNCHANGED <<checkerVars, budget>>

GuidTaken ==
    /\ ~announcing
    /\ Receive("AlreadyConnected")
    /\ OnGuidTaken
    /\ UNCHANGED <<checkerVars, budget>>

EndOfPoll ==
    /\ ~announcing
    /\ PollEnds /\ phase = "receive"
    /\ UNCHANGED <<inbox, natVars, checkerVars, budget>>

Poll == NatAccepted \/ NatAnnounced \/ NatDisconnected \/ GuidTaken \/ EndOfPoll

NatStep ==
    /\ UNCHANGED checkerVars
    /\ \/ /\ UNCHANGED budget
          /\ NatAccepts(Packet("Accepted")) \/ NatCloses(Packet("Disconnected"))
       \/ /\ Spend
          /\ \/ NatRefuses(Packet("ConnectionLost"))
             \/ NatRefuses(Packet("AlreadyConnected"))
             \/ NatDrops(Packet("ConnectionLost"))

-----------------------------------------------------------------------------

Init ==
    /\ NatInit
    /\ pending = {} /\ announcing = FALSE
    /\ asked = {} /\ early = {} /\ received = {}
    /\ budget = Budget

Next == Poll \/ NatStep \/ \E q \in Queries : CheckIfGuidsValid(q)

Spec == Init /\ [][Next]_vars

-----------------------------------------------------------------------------
(***************************************************************************)
(* Properties.                                                             *)
(***************************************************************************)

TypeOK ==
    /\ NatTypeOK
    /\ inbox \in Seq(Packets)
    /\ pending \subseteq asked /\ early \subseteq asked /\ received \subseteq asked
    /\ asked \subseteq Queries
    /\ announcing \in BOOLEAN /\ budget \in 0 .. Budget

\* While the network is faultless, what was asked before the connection was
\* announced reaches the NAT server, and so does what is asked afterwards;
\* only what is asked in between does not.
AskedInTimeIsReceived ==
    natConnected /\ budget = Budget => early \cup (asked \ pending) \subseteq received
=============================================================================
