------------------------------ MODULE Rewinder ------------------------------
(***************************************************************************)
(* Tracker::Rewinder (source/core/NstTrackerRewinder.cpp): plays a game    *)
(* backward.  A ring of keys records the state of the machine at the       *)
(* beginning of each second and what the game read from its ports since.   *)
(* To go back, the machine plays one key forward into a buffer of pictures *)
(* while those of the key after it are shown in reverse from the same      *)
(* buffer; to go on, it is brought to the picture shown last by playing    *)
(* the keys again.                                                         *)
(*                                                                         *)
(* One call of Execute plays many frames when the direction changes; they  *)
(* are steps of their own here, and stage says where in Execute the thread *)
(* is.  A recorded frame is the state it leads to: played from any other   *)
(* state it leads nowhere.  Memory does not run out and no stream is       *)
(* corrupt.  Tracker says when there is a rewinder, and composes it with   *)
(* the movie.                                                              *)
(***************************************************************************)
EXTENDS Game

CONSTANTS
    NumKeys,  \* NUM_KEYS
    NumFrames \* NUM_FRAMES

ASSUME RewinderAssumption ==
    /\ NumKeys \in Nat /\ NumKeys >= 3
    /\ NumFrames \in Nat \ {0}

VARIABLES
    rewinding, uturn, frame, key, keys,
    picture,  \* video.buffer
    slot,     \* video.frame
    pingpong, \* video.pingpong
    stage,    \* where in Execute the thread is
    todo      \* the frames its loop has still to play

keyVars      == <<frame, key, keys>>
videoVars    == <<picture, slot, pingpong>>
loopVars     == <<stage, todo>>
rewinderVars == <<rewinding, uturn, keyVars, videoVars, loopVars>>

Keys   == 0 .. NumKeys - 1
Frames == 0 .. NumFrames - 1
Last   == NumFrames - 1

BadPos == -1

Stages == {"idle", "catchUp", "store", "align", "back", "forward", "resume"}

NextKey(k) == (k + 1) % NumKeys
PrevKey(k) == (k + NumKeys - 1) % NumKeys

-----------------------------------------------------------------------------
\* A key: the state it begins with, and its input.

ResetKey == [start |-> Nowhere, pos |-> BadPos, input |-> << >>, packed |-> FALSE]

CanRewind(k) == k.pos # BadPos

Invalidate(k) == [k EXCEPT !.pos = BadPos]

\* BeginForward with saveState, and the first frame.
Recording(start, s) == [start |-> start, pos |-> 0, input |-> <<s>>, packed |-> FALSE]

\* The results EndForward may have: the input may be worth compressing.
EndForward(k) ==
    IF k.pos = 0 THEN {[k EXCEPT !.pos = Len(k.input), !.packed = p] : p \in BOOLEAN}
                 ELSE {ResetKey}

\* The position of a key that was recorded is its size before compression.
BeginBackward(k) ==
    [k EXCEPT !.pos = 0, !.packed = k.packed /\ k.pos < Len(k.input)]

EndBackward(k) == [k EXCEPT !.pos = 0]

\* Mutant: what was replayed already is recorded once more.
ResumeForwardWhole(k) == [k EXCEPT !.pos = 0]

ResumeForward(k) == [k EXCEPT !.pos = 0, !.input = SubSeq(@, 1, k.pos)]

Put(k, s) == IF CanRewind(k) THEN [k EXCEPT !.input = Append(@, s)] ELSE k

\* Get: the next frame of the input, played from state s.
Get(k, s) ==
    IF ~k.packed /\ k.pos < Len(k.input) /\ origin[k.input[k.pos + 1]] = s
    THEN k.input[k.pos + 1] ELSE Nowhere

Advance(k) == [k EXCEPT !.pos = IF @ < Len(k.input) THEN @ + 1 ELSE BadPos]

-----------------------------------------------------------------------------
\* Playing.

\* It replays a frame of key k, which it has come to with ks, from state s.
ReplayFrom(k, ks, s) ==
    /\ now' = Get(ks[k], s)
    /\ keys' = [ks EXCEPT ![k] = Advance(@)]
    /\ UNCHANGED origin

\* video.Store() and the frame after it, which is drawn to that slot.
Store ==
    /\ picture' = [picture EXCEPT ![slot] = now']
    /\ IF slot + pingpong \in Frames
       THEN slot' = slot + pingpong /\ UNCHANGED pingpong
       ELSE UNCHANGED slot /\ pingpong' = -pingpong

\* video.End() deletes the pictures; Begin() sets slot and pingpong anew.
EndVideo ==
    /\ picture' = [f \in Frames |-> Nowhere]
    /\ slot' = 0 /\ pingpong' = 1

-----------------------------------------------------------------------------
\* Execute: at its beginning, or after ChangeDirection.

Running(s) == (stage = "idle" /\ ~uturn) \/ stage = s

\* Forward.
ExecuteForward ==
    /\ ~rewinding /\ Running("resume")
    /\ LiveFrame
    /\ \/ /\ frame < Last
          /\ frame' = frame + 1
          /\ keys' = [keys EXCEPT ![key] = Put(@, NewState)]
          /\ UNCHANGED key
       \/ /\ frame = Last
          /\ frame' = 0
          /\ key' = NextKey(key)
          /\ \E ended \in EndForward(keys[key]) :
                keys' = [keys EXCEPT ![key] = ended,
                                     ![NextKey(key)] = Recording(now, NewState)]
    /\ stage' = "idle"
    /\ UNCHANGED <<rewinding, uturn, videoVars, todo>>

\* A frame backward: of this key, or the first one of the key before it.
BackInKey ==
    /\ frame < Last
    /\ frame' = frame + 1
    /\ ReplayFrom(key, keys, now)
    /\ Store
    /\ UNCHANGED key

BackToPrevKey ==
    /\ frame = Last
    /\ LET prev == PrevKey(key)
       IN  /\ CanRewind(keys[prev])
           /\ frame' = 0
           /\ key' = prev
           /\ ReplayFrom(prev, [keys EXCEPT ![key] = EndBackward(@),
                                            ![prev] = BeginBackward(@)],
                         keys[prev].start)
    /\ Store

ExecuteBackward ==
    /\ rewinding /\ Running("back")
    /\ shown' = picture[slot]
    /\ BackInKey \/ BackToPrevKey
    /\ stage' = "idle"
    /\ UNCHANGED <<rewinding, uturn, todo>>

\* No key is left before this one: its own pictures are never shown, and the
\* game is played anew from where the one after it begins.
RunOut ==
    /\ rewinding /\ Running("back")
    /\ frame = Last /\ ~CanRewind(keys[PrevKey(key)])
    /\ rewinding' = FALSE
    /\ frame' = 0
    /\ key' = NextKey(key)
    /\ PlayFrom(keys[NextKey(key)].start)
    /\ keys' = [keys EXCEPT ![key] = Invalidate(@),
                            ![NextKey(key)] = Recording(@.start, NewState)]
    /\ shown' = NewState
    /\ stage' = "idle"
    /\ UNCHANGED <<uturn, videoVars, todo>>

-----------------------------------------------------------------------------
\* ChangeDirection, to go backward.

TurnBack ==
    /\ stage = "idle" /\ uturn /\ rewinding
    /\ uturn' = FALSE
    /\ stage' = "catchUp" /\ todo' = Last - frame
    /\ UNCHANGED <<rewinding, keyVars, videoVars, gameVars>>

\* The key is played to its end, with nobody at the controllers.
CatchUp ==
    /\ stage = "catchUp" /\ todo > 0
    /\ todo' = todo - 1
    /\ PlayFrom(now)
    /\ keys' = [keys EXCEPT ![key] = Put(@, NewState)]
    /\ UNCHANGED <<rewinding, uturn, frame, key, videoVars, shown, stage>>

\* Mutant: the end of the ring is not marked.
BeginStoreInCircles ==
    /\ stage = "catchUp" /\ todo = 0
    /\ stage' = "store" /\ todo' = NumFrames
    /\ slot' = 0 /\ pingpong' = 1
    /\ keys' = [keys EXCEPT ![key] = BeginBackward(@)]
    /\ now' = keys[key].start
    /\ UNCHANGED <<rewinding, uturn, frame, key, picture, shown, origin>>

BeginStore ==
    /\ stage = "catchUp" /\ todo = 0
    /\ stage' = "store" /\ todo' = NumFrames
    /\ slot' = 0 /\ pingpong' = 1
    /\ keys' = [keys EXCEPT ![NextKey(key)] = Invalidate(@),
                            ![key] = BeginBackward(@)]
    /\ now' = keys[key].start
    /\ UNCHANGED <<rewinding, uturn, frame, key, picture, shown, origin>>

\* Its pictures are stored.
StoreKey ==
    /\ stage = "store" /\ todo > 0
    /\ todo' = todo - 1
    /\ ReplayFrom(key, keys, now)
    /\ Store
    /\ UNCHANGED <<rewinding, uturn, frame, key, shown, stage>>

BeginAlign ==
    /\ stage = "store" /\ todo = 0
    /\ stage' = "align" /\ todo' = Last - frame
    /\ frame' = Last
    /\ UNCHANGED <<rewinding, uturn, key, keys, videoVars, gameVars>>

\* The pictures after the one on the screen are passed over.  Start has seen to
\* it that there is a key before this one.
Align ==
    /\ stage = "align" /\ todo > 0
    /\ todo' = todo - 1
    /\ BackInKey \/ BackToPrevKey
    /\ UNCHANGED <<rewinding, uturn, shown, stage>>

Aligned ==
    /\ stage = "align" /\ todo = 0
    /\ stage' = "back"
    /\ UNCHANGED <<rewinding, uturn, keyVars, videoVars, gameVars, todo>>

TurnBackStep ==
    TurnBack \/ CatchUp \/ BeginStore \/ StoreKey \/ BeginAlign \/ Align \/ Aligned

-----------------------------------------------------------------------------
\* ChangeDirection, to go forward again.

\* Mutant: the game goes on from the picture the machine has come to.
FramesToResumeHere == NumFrames - frame

\* From the frame played last to the one shown last: to the end of this key,
\* and into the next as far as its pictures are not shown yet.
FramesToResume == NumFrames + Last - frame * 2

TurnForward ==
    /\ stage = "idle" /\ uturn /\ ~rewinding
    /\ uturn' = FALSE
    /\ stage' = "forward" /\ todo' = FramesToResume
    /\ UNCHANGED <<rewinding, keyVars, videoVars, gameVars>>

ReplayForward ==
    /\ stage = "forward" /\ todo > 0
    /\ todo' = todo - 1
    /\ \/ /\ frame < Last
          /\ frame' = frame + 1
          /\ ReplayFrom(key, keys, now)
          /\ UNCHANGED key
       \/ /\ frame = Last
          /\ frame' = 0
          /\ key' = NextKey(key)
          /\ ReplayFrom(NextKey(key), keys, keys[NextKey(key)].start)
    /\ UNCHANGED <<rewinding, uturn, videoVars, shown, stage>>

Resume ==
    /\ stage = "forward" /\ todo = 0
    /\ stage' = "resume"
    /\ keys' = [keys EXCEPT ![key] = ResumeForward(@)]
    /\ EndVideo
    /\ UNCHANGED <<rewinding, uturn, frame, key, gameVars, todo>>

TurnForwardStep == TurnForward \/ ReplayForward \/ Resume

-----------------------------------------------------------------------------
\* The user, between two calls of Execute.

Start ==
    /\ stage = "idle"
    /\ ~rewinding /\ ~uturn /\ CanRewind(keys[PrevKey(key)])
    /\ uturn' = TRUE /\ rewinding' = TRUE
    /\ UNCHANGED <<keyVars, videoVars, loopVars, gameVars>>

Stop ==
    /\ stage = "idle"
    /\ rewinding /\ ~uturn
    /\ uturn' = TRUE /\ rewinding' = FALSE
    /\ UNCHANGED <<keyVars, videoVars, loopVars, gameVars>>

\* Reset(), the destructor or the constructor.  (The loop over the keys counts
\* to NUM_FRAMES, which is NUM_KEYS in the code.)
ForgetKeys ==
    /\ rewinding' = FALSE /\ uturn' = FALSE
    /\ frame' = Last /\ key' = NumKeys - 1
    /\ keys' = [k \in Keys |-> ResetKey]
    /\ EndVideo
    /\ UNCHANGED loopVars

-----------------------------------------------------------------------------

RewinderInit ==
    /\ rewinding = FALSE /\ uturn = FALSE
    /\ frame = Last /\ key = NumKeys - 1
    /\ keys = [k \in Keys |-> ResetKey]
    /\ picture = [f \in Frames |-> Nowhere] /\ slot = 0 /\ pingpong = 1
    /\ stage = "idle" /\ todo = 0

RewinderExecute ==
    \/ ExecuteForward \/ ExecuteBackward \/ RunOut
    \/ TurnBackStep \/ TurnForwardStep

KeyType ==
    [start : {Nowhere} \cup States, pos : {BadPos} \cup 0 .. NumFrames,
     input : Seq(States), packed : BOOLEAN]

RewinderTypeOK ==
    /\ rewinding \in BOOLEAN /\ uturn \in BOOLEAN
    /\ frame \in Frames /\ key \in Keys
    /\ keys \in [Keys -> KeyType]
    /\ \A k \in Keys : Len(keys[k].input) <= NumFrames
    /\ picture \in [Frames -> {Nowhere} \cup States]
    /\ slot \in Frames /\ pingpong \in {1, -1}
    /\ stage \in Stages /\ todo \in 0 .. 2 * NumFrames

-----------------------------------------------------------------------------
(***************************************************************************)
(* Properties.                                                             *)
(***************************************************************************)

\* A key's input leads from its own state to that of the key after it, when both
\* can be rewound to.
KeysAreLinked ==
    \A k \in Keys \ {key} :
        CanRewind(keys[k]) /\ CanRewind(keys[NextKey(k)]) =>
            keys[k].input[Len(keys[k].input)] = keys[NextKey(k)].start

\* Replaying a key, however often, in whichever direction and after whatever
\* was recorded since, leads through the states that were recorded: the machine
\* never reads past its input, reads it compressed, or from another state, and
\* comes to where the next key begins.
ReplayIsExact == now # Nowhere /\ shown # Nowhere /\ KeysAreLinked
=============================================================================
