--------------------------- MODULE FrameCompressor ---------------------------
(***************************************************************************)
(* ZlibFrameCompressor (source/core/NstFrameCompressorZlib.cpp): the host  *)
(* compresses captured frames in several threads of the remote engine.     *)
(*                                                                         *)
(* Every Interval-th frame is a keyframe, whose pixels are kept in         *)
(* m_lastKeyframe; the others are sent as differences from it, so their    *)
(* threads wait until the keyframe of their group is there.  m_lock is     *)
(* held while the keyframe is written and while its coming is awaited, but *)
(* not while a delta frame is computed from it.                            *)
(*                                                                         *)
(* The engine is outside the repository: it hands every captured frame,    *)
(* numbered from 1, to one of its threads and sends what compress returns. *)
(***************************************************************************)
EXTENDS FrameFormat

CONSTANTS
    Threads,  \* the engine's compression threads
    NoThread,
    Interval  \* REMOTE_KEYFRAME_INTERVAL

ASSUME CompressorAssumption == NoThread \notin Threads /\ Interval \in Nat \ {0}

VARIABLES
    nextId,     \* the id of the next captured frame
    stage,      \* where each thread is in compress()
    id,         \* its frame
    low,        \* its willDownSample
    key,        \* the keyframe id it writes into the frame: *pKeyFrameId
    at,         \* the next pixel
    base,       \* the pixels of m_lastKeyframe it has read
    overlapped, \* history: a keyframe was begun since it stopped waiting
    lock,       \* the holder of m_lock
    lastKey,    \* m_lastKeyframeId
    cells,      \* m_lastKeyframe.pixels
    running,    \* m_running
    downSample, \* downSample
    limited     \* m_compressSizeBudget > 0

threadVars   == <<stage, id, low, key, at, base, overlapped>>
keyframeVars == <<lock, lastKey, cells>>
controlVars  == <<running, downSample, limited>>
compressorVars == <<nextId, threadVars, keyframeVars, controlVars>>

\* "begin": beginCompress; "lock", "build": a keyframe; "wait", "asleep":
\* m_cv.wait_for; "name", "delta": a delta frame after it; "pack": the frame is
\* complete but for its size; "idle": not in compress().
Stages == {"idle", "begin", "lock", "build", "wait", "asleep", "name", "delta", "pack"}

Goto(t, s) == stage' = [stage EXCEPT ![t] = s]

NotifyAll(s) == [t \in Threads |-> IF s[t] = "asleep" THEN "wait" ELSE s[t]]

\* id - m_lastKeyframeId < REMOTE_KEYFRAME_INTERVAL: the difference is unsigned,
\* so a keyframe that is newer than the frame is none for it.
InGroup(i, k) == k <= i /\ i - k < Interval

Ready(t) == ~running \/ InGroup(id[t], lastKey)

-----------------------------------------------------------------------------
\* compress(), in the thread t.

\* The engine calls compress().  A frame with no colour count is not compressed.
Take(t) ==
    /\ stage[t] = "idle"
    /\ nextId <= MaxId
    /\ nextId' = nextId + 1
    /\ \/ UNCHANGED threadVars
       \/ /\ Goto(t, "begin")
          /\ id' = [id EXCEPT ![t] = nextId]
          /\ low' = [low EXCEPT ![t] = IF downSample THEN "host" ELSE "no"]
          /\ UNCHANGED <<key, at, base, overlapped>>
    /\ UNCHANGED <<keyframeVars, controlVars>>

IsKeyframe(t) == (id[t] - 1) % Interval = 0 \/ lastKey = 0

\* m_lastKeyframeId is looked at before m_lock is taken.
Begin(t) ==
    /\ stage[t] = "begin"
    /\ Goto(t, IF low[t] # "no" THEN "pack"
               ELSE IF IsKeyframe(t) THEN "lock" ELSE "wait")
    /\ key' = [key EXCEPT ![t] = 0]
    /\ UNCHANGED <<nextId, id, low, at, base, overlapped, keyframeVars, controlVars>>

Encoding(t) == stage[t] \in {"name", "delta"}

Lock(t) ==
    /\ stage[t] = "lock" /\ lock = NoThread
    /\ lock' = t
    /\ Goto(t, "build")
    /\ at' = [at EXCEPT ![t] = 1]
    /\ overlapped' = [u \in Threads |-> overlapped[u] \/ Encoding(u)]
    /\ UNCHANGED <<nextId, id, low, key, base, lastKey, cells, controlVars>>

Build(t) ==
    /\ stage[t] = "build" /\ at[t] \in Pixel
    /\ cells' = [cells EXCEPT ![at[t]] = id[t]]
    /\ at' = [at EXCEPT ![t] = @ + 1]
    /\ UNCHANGED <<nextId, stage, id, low, key, base, overlapped, lock, lastKey, controlVars>>

\* Mutant: the threads that wait for the keyframe are not woken.
PublishQuietly(t) ==
    /\ stage[t] = "build" /\ at[t] \notin Pixel
    /\ lastKey' = id[t]
    /\ lock' = NoThread
    /\ Goto(t, "pack")
    /\ UNCHANGED <<nextId, id, low, key, at, base, overlapped, cells, controlVars>>

\* Mutant: the id of the newest captured frame is taken for the keyframe's.
PublishNewest(t) ==
    /\ stage[t] = "build" /\ at[t] \notin Pixel
    /\ lastKey' = nextId
    /\ lock' = NoThread
    /\ stage' = NotifyAll([stage EXCEPT ![t] = "pack"])
    /\ UNCHANGED <<nextId, id, low, key, at, base, overlapped, cells, controlVars>>

Publish(t) ==
    /\ stage[t] = "build" /\ at[t] \notin Pixel
    /\ lastKey' = id[t]
    /\ lock' = NoThread
    /\ stage' = NotifyAll([stage EXCEPT ![t] = "pack"])
    /\ UNCHANGED <<nextId, id, low, key, at, base, overlapped, cells, controlVars>>

\* Mutant: the wait is over as soon as there is any keyframe.
AwaitAnyKeyframe(t) ==
    /\ stage[t] = "wait" /\ lock = NoThread
    /\ Goto(t, "name")
    /\ overlapped' = [overlapped EXCEPT ![t] = FALSE]
    /\ UNCHANGED <<nextId, id, low, key, at, base, keyframeVars, controlVars>>

\* m_cv.wait_for(lk, 5000 ms, ...) up to lk.unlock().
Await(t) ==
    /\ stage[t] = "wait" /\ lock = NoThread
    /\ Goto(t, IF Ready(t) THEN "name" ELSE "asleep")
    /\ overlapped' = [overlapped EXCEPT ![t] = FALSE]
    /\ UNCHANGED <<nextId, id, low, key, at, base, keyframeVars, controlVars>>

\* 5 seconds are over: the frame is dropped.
TimeOut(t) ==
    /\ stage[t] = "asleep" /\ lock = NoThread
    /\ Goto(t, IF Ready(t) THEN "name" ELSE "idle")
    /\ UNCHANGED <<nextId, id, low, key, at, base, overlapped, keyframeVars, controlVars>>

\* m_lastKeyframeId is read again, now without m_lock.
Name(t) ==
    /\ stage[t] = "name"
    /\ IF running THEN /\ Goto(t, "delta")
                       /\ key' = [key EXCEPT ![t] = lastKey]
                       /\ at' = [at EXCEPT ![t] = 1]
                  ELSE Goto(t, "idle") /\ UNCHANGED <<key, at>>
    /\ UNCHANGED <<nextId, id, low, base, overlapped, keyframeVars, controlVars>>

Delta(t) ==
    /\ stage[t] = "delta"
    /\ base' = [base EXCEPT ![t][at[t]] = cells[at[t]]]
    /\ at' = [at EXCEPT ![t] = @ + 1]
    /\ Goto(t, IF at[t] = Pixels THEN "pack" ELSE "delta")
    /\ UNCHANGED <<nextId, id, low, key, overlapped, keyframeVars, controlVars>>

\* Mutant: the frame is compressed again in full resolution.
RestartInFull(t) ==
    /\ stage[t] = "pack" /\ lock = NoThread
    /\ key[t] # 0 /\ limited
    /\ Goto(t, "begin")
    /\ UNCHANGED <<nextId, low, id, key, at, base, overlapped, keyframeVars, controlVars>>

\* The frame is larger than the budget: goto beginCompress.
Restart(t) ==
    /\ stage[t] = "pack" /\ lock = NoThread
    /\ key[t] # 0 /\ limited
    /\ low' = [low EXCEPT ![t] = "adaptive"]
    /\ Goto(t, "begin")
    /\ UNCHANGED <<nextId, id, key, at, base, overlapped, keyframeVars, controlVars>>

\* What compress() returns: only a delta frame is relative to something.
Result(t) ==
    [id |-> id[t], key |-> key[t], low |-> low[t],
     base |-> IF key[t] = 0 THEN PictureOf(0) ELSE base[t],
     overlapped |-> key[t] # 0 /\ overlapped[t]]

Return(t) ==
    /\ stage[t] = "pack" /\ lock = NoThread
    /\ Goto(t, "idle")
    /\ UNCHANGED <<nextId, id, low, key, at, base, overlapped, keyframeVars, controlVars>>

Compress(t) ==
    \/ Begin(t) \/ Lock(t) \/ Build(t) \/ Publish(t) \/ Await(t)
    \/ Name(t) \/ Delta(t) \/ Restart(t)

-----------------------------------------------------------------------------
\* The emulation thread.

Stop ==
    /\ running /\ lock = NoThread
    /\ running' = FALSE
    /\ stage' = NotifyAll(stage)
    /\ UNCHANGED <<nextId, id, low, key, at, base, overlapped, keyframeVars,
                   downSample, limited>>

\* REMOTE_DOWNSAMPLE_FRAME, EnableLowResRemoteControl.
SetDownSample ==
    /\ downSample' = ~downSample
    /\ UNCHANGED <<nextId, threadVars, keyframeVars, running, limited>>

\* UpdateFrameInterval, for a measured data rate or a frame interval.
UpdateFrameInterval ==
    /\ limited' = ~limited
    /\ UNCHANGED <<nextId, threadVars, keyframeVars, running, downSample>>

Control == Stop \/ SetDownSample \/ UpdateFrameInterval

-----------------------------------------------------------------------------

\* After Start().
Init ==
    /\ nextId = 1
    /\ stage = [t \in Threads |-> "idle"]
    /\ id = [t \in Threads |-> 0]
    /\ low = [t \in Threads |-> "no"]
    /\ key = [t \in Threads |-> 0]
    /\ at = [t \in Threads |-> 1]
    /\ base = [t \in Threads |-> PictureOf(0)]
    /\ overlapped = [t \in Threads |-> FALSE]
    /\ lock = NoThread /\ lastKey = 0 /\ cells = PictureOf(0)
    /\ running = TRUE /\ downSample = FALSE /\ limited = TRUE

Next ==
    \/ \E t \in Threads : Take(t) \/ Compress(t) \/ TimeOut(t) \/ Return(t)
    \/ Control

Spec == Init /\ [][Next]_compressorVars

\* The operating system runs every runnable thread, and a wait times out.
Fairness ==
    \A t \in Threads :
        /\ WF_compressorVars(Compress(t) \/ Return(t))
        /\ WF_compressorVars(TimeOut(t))

FairSpec == Spec /\ Fairness

-----------------------------------------------------------------------------
(***************************************************************************)
(* Properties.                                                             *)
(***************************************************************************)

TypeOK ==
    /\ nextId \in 1 .. MaxId + 1
    /\ stage \in [Threads -> Stages]
    /\ id \in [Threads -> 0 .. MaxId]
    /\ low \in [Threads -> Resolutions]
    /\ key \in [Threads -> 0 .. MaxId]
    /\ at \in [Threads -> 1 .. Pixels + 1]
    /\ base \in [Threads -> Picture]
    /\ overlapped \in [Threads -> BOOLEAN]
    /\ lock \in Threads \cup {NoThread}
    /\ lastKey \in 0 .. MaxId /\ cells \in Picture
    /\ running \in BOOLEAN /\ downSample \in BOOLEAN /\ limited \in BOOLEAN

\* A delta frame is computed from the keyframe it names, and that is one of its
\* group, although both are read after the lock was given back: unless another
\* thread began a keyframe meanwhile.
DeltaIsOfItsKeyframe ==
    \A t \in Threads :
        stage[t] = "pack" /\ key[t] # 0 /\ ~overlapped[t] =>
            base[t] = PictureOf(key[t]) /\ InGroup(id[t], key[t])

\* A thread sleeps only while its keyframe is missing and the compressor runs:
\* no notification is lost between the test and the wait.
NoLostWakeup == \A t \in Threads : stage[t] = "asleep" => ~Ready(t)

\* "Lock other threads until we done constructing keyframe": nobody uses the
\* last keyframe while the next one is written over it.
KeyframeIsLocked ==
    \A t, u \in Threads : stage[t] = "build" => ~Encoding(u)

\* Every call of compress() returns, whatever happens to the keyframe it waits
\* for, and even when every thread waits for one that none is left to build.
CompressReturns == \A t \in Threads : stage[t] # "idle" ~> stage[t] = "idle"
=============================================================================
