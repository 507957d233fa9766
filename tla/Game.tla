-------------------------------- MODULE Game --------------------------------
(***************************************************************************)
(* The emulated machine as its Tracker sees it (source/core/NstMachine.cpp *)
(* and the classes it is made of): something that plays frames, reads its  *)
(* controllers' ports while it does, and whose state can be saved and      *)
(* loaded.  A state is a number, the picture drawn on the way to it the    *)
(* same number, and origin says from which state it was played.            *)
(***************************************************************************)
EXTENDS Integers, Sequences

CONSTANT MaxStates \* bound: states the machine is brought to by new input

ASSUME GameAssumption == MaxStates \in Nat \ {0}

VARIABLES
    now,   \* the machine's state
    shown, \* the picture on the screen
    origin \* the state each state was played from, or 0

gameVars == <<now, shown, origin>>

\* 0 is a state that comes from nowhere: replaying went wrong.
Nowhere == 0
States  == 1 .. MaxStates

\* What a reset leads to, and the saved state that is loaded.
Boot == 1

NewState == Len(origin) + 1

\* The machine plays a frame with new input from state s.
PlayFrom(s) ==
    /\ NewState \in States
    /\ origin' = Append(origin, s)
    /\ now' = NewState

\* The frame is shown.
LiveFrame == PlayFrom(now) /\ shown' = NewState

\* The machine is in state s, known or not, and nothing that was played matters
\* any longer but the states up to m: the others' numbers are free.
Forget(m, s) ==
    /\ IF s <= m
       THEN now' = s /\ origin' = SubSeq(origin, 1, m)
       ELSE now' = m + 1 /\ origin' = Append(SubSeq(origin, 1, m), Nowhere)
    /\ shown' = now'

GameInit == now = Boot /\ shown = Boot /\ origin = <<Nowhere>>

GameTypeOK ==
    /\ now \in {Nowhere} \cup States /\ shown \in {Nowhere} \cup States
    /\ origin \in Seq({Nowhere} \cup States)
=============================================================================
