----------------------------- MODULE HostSession -----------------------------
(***************************************************************************)
(* What a host's connection handler promises to the game above it: one     *)
(* guest at a time, who keeps the session until it is known to be gone and *)
(* has had its time to come back, unless it left or is to be kicked.       *)
(* It is the abstract specification of HostHandler.                        *)
(***************************************************************************)
CONSTANTS Guests, NoGuest

VARIABLES
    guest,   \* with whom the session is, or NoGuest
    absence, \* since when the guest is gone: "none", "short", or "long"
    left     \* the session's guest has left, or is to be kicked

sessionState == <<guest, absence, left>>

Open == guest = NoGuest /\ absence = "none" /\ ~left

Init == Open

Begin ==
    /\ Open
    /\ guest' \in Guests
    /\ UNCHANGED <<absence, left>>

\* The guest is lost, or says goodbye, or is lost again while it is awaited.
Lose ==
    /\ guest # NoGuest
    /\ absence' = "short"
    /\ left' \in {left, TRUE}
    /\ UNCHANGED guest

TimePasses ==
    /\ absence = "short" /\ absence' = "long"
    /\ UNCHANGED <<guest, left>>

Return ==
    /\ absence # "none" /\ absence' = "none"
    /\ UNCHANGED <<guest, left>>

\* The user wants to invite somebody else.
Kick ==
    /\ guest # NoGuest
    /\ left' = TRUE
    /\ UNCHANGED <<guest, absence>>

End ==
    /\ absence # "none" /\ (left \/ absence = "long")
    /\ guest' = NoGuest /\ absence' = "none" /\ left' = FALSE

Next == Begin \/ Lose \/ TimePasses \/ Return \/ Kick \/ End

Spec == Init /\ [][Next]_sessionState
=============================================================================
