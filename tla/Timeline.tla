------------------------------ MODULE Timeline ------------------------------
(***************************************************************************)
(* What the rewinder promises to whoever watches the screen: a game that   *)
(* can be played back picture by picture and goes on from any of them.     *)
(* It is the abstract specification of Rewinder.                           *)
(***************************************************************************)
EXTENDS Sequences, SequencesExt

CONSTANT Pictures

VARIABLES
    past,     \* the picture on the screen and those that led to it
    backward  \* whether the game is played backward

timelineVars == <<past, backward>>

Init ==
    /\ \E p \in Pictures : past = <<p>>
    /\ backward = FALSE

\* The next picture follows the one on the screen.
Play ==
    /\ ~backward
    /\ \E p \in Pictures : past' = Append(past, p)
    /\ UNCHANGED backward

\* The next picture is the one before.
Back ==
    /\ backward /\ Len(past) > 1
    /\ past' = Front(past)
    /\ UNCHANGED backward

Turn ==
    /\ backward' = ~backward
    /\ UNCHANGED past

\* What is remembered ends here: the picture on the screen is played anew.
RunOut ==
    /\ backward /\ backward' = FALSE
    /\ \E p \in Pictures : past' = Append(Front(past), p)

\* Another game or a saved state.
Jump ==
    /\ backward' = FALSE
    /\ \E p \in Pictures : past' = <<p>>

Next == Play \/ Back \/ Turn \/ RunOut \/ Jump

Spec == Init /\ [][Next]_timelineVars
=============================================================================
