------------------------------ MODULE PlayQueue ------------------------------
(***************************************************************************)
(* The loudspeaker side of the Android audio driver                        *)
(* (source/mobile/android/AudioDriver.cpp).  A buffer is divided into      *)
(* sub-buffers, which wander between two lists: unqueued, those that may   *)
(* be written, and queued, those that OpenSL ES was given.  OpenSL plays   *)
(* its queue in a thread of its own and calls back after each sub-buffer;  *)
(* the callback takes it that the oldest queued one was meant.             *)
(*                                                                         *)
(* A list is written from its front to its back.  A sample is its number   *)
(* in the sound that is to be played; the mode and the settings change     *)
(* the sub-buffers' number and size, which are constants here.             *)
(***************************************************************************)
EXTENDS Integers, SequencesExt

CONSTANTS
    NumSubBuffers,
    SubSize,    \* m_playSubBufferSize
    MaxSamples, \* bound: samples that are to be played
    MaxFaults   \* bound: Resets, new connections and failures of OpenSL

ASSUME PlayQueueAssumption ==
    /\ NumSubBuffers \in Nat \ {0} /\ SubSize \in Nat \ {0}
    /\ MaxSamples \in Nat /\ MaxFaults \in Nat

VARIABLES
    player,    \* the OpenSL player: "none", "made", "deaf" without a callback
    playing,   \* m_playing
    slPlaying, \* OpenSL's play state is SL_PLAYSTATE_PLAYING
    slQueue,   \* OpenSL's queue, the oldest first
    due,       \* callbacks that OpenSL has still to make
    unqueued,  \* m_playUnqueuedSubBuffers
    queued,    \* m_playQueuedSubBuffers
    mem,       \* what the sub-buffers hold
    emulation, \* where the emulation thread is
    output,    \* what it wrote to m_playTempBuffer and has not submitted
    heard,     \* history: the samples that were played
    dropped,   \* history: the samples that were given up
    faults

playerVars == <<player, playing, slPlaying>>
slVars     == <<slQueue, due>>
listVars   == <<unqueued, queued>>
queueVars  == <<playerVars, slVars, listVars, mem, emulation, output, heard, dropped, faults>>

SubBuffer == 1 .. NumSubBuffers
Sample    == 1 .. MaxSamples

\* "mix": between Lock and Unlock; "submit", "note": in Unlock, about to write
\* and enqueue a sub-buffer, and to move it to the other list.
Stages == {"idle", "mix", "submit", "note"}

Unlocking == emulation \in {"submit", "note"}

Fault == faults < MaxFaults /\ faults' = faults + 1

\* The samples of what OpenSL was given.
Given(e)   == SubSeq(mem[e.buffer], 1, e.size)
Unplayed   == UNION {ToSet(Given(slQueue[i])) : i \in DOMAIN slQueue}

-----------------------------------------------------------------------------
\* OpenSL ES.

\* A sub-buffer was played.
Play ==
    /\ slPlaying /\ slQueue # <<>>
    /\ heard' = heard \o Given(Head(slQueue))
    /\ slQueue' = Tail(slQueue)
    /\ due' = IF player = "made" THEN due + 1 ELSE due
    /\ UNCHANGED <<playerVars, listVars, mem, emulation, output, dropped, faults>>

\* Mutant: m_playBufferLock is not taken.
CallbackUnlocked ==
    /\ due > 0
    /\ due' = due - 1
    /\ IF queued = <<>> THEN UNCHANGED listVars
       ELSE queued' = Front(queued) /\ unqueued' = <<Last(queued)>> \o unqueued
    /\ UNCHANGED <<playerVars, slQueue, mem, emulation, output, heard, dropped, faults>>

\* SLESBufferQueueCallback.
Callback ==
    /\ due > 0 /\ ~Unlocking
    /\ due' = due - 1
    /\ IF queued = <<>> THEN UNCHANGED listVars
       ELSE queued' = Front(queued) /\ unqueued' = <<Last(queued)>> \o unqueued
    /\ UNCHANGED <<playerVars, slQueue, mem, emulation, output, heard, dropped, faults>>

-----------------------------------------------------------------------------
\* Reset and the UI thread, which hold m_threadSafetyLock.

\* Mutant: the old player's sub-buffers stay queued.
DivideBufferKeepQueued ==
    /\ unqueued' = [i \in SubBuffer |-> i]
    /\ UNCHANGED queued

DivideBuffer ==
    /\ queued' = <<>>
    /\ unqueued' = [i \in SubBuffer |-> i]

\* ResetSLESPlayer after Release: Destroy waits for a callback that runs, and
\* none comes after it.  Memory or OpenSL may fail at each stage.
ResetSLESPlayer ==
    /\ \/ player' = "none" /\ UNCHANGED listVars
       \/ player' \in {"none", "deaf", "made"} /\ DivideBuffer
    /\ slPlaying' = (player' = "made" /\ playing)
    /\ slQueue' = <<>> /\ due' = 0
    /\ dropped' = dropped \cup Unplayed
    /\ UNCHANGED <<playing, mem, heard>>

UpdateSettings ==
    /\ emulation = "idle"
    /\ Fault
    /\ ResetSLESPlayer
    /\ UNCHANGED <<emulation, output>>

Pause ==
    /\ playing /\ ~Unlocking
    /\ playing' = FALSE /\ slPlaying' = FALSE
    /\ UNCHANGED <<player, slVars, listVars, mem, emulation, output, heard, dropped, faults>>

Resume ==
    /\ ~playing /\ ~Unlocking
    /\ playing' = TRUE /\ slPlaying' = (player # "none")
    /\ UNCHANGED <<player, slVars, listVars, mem, emulation, output, heard, dropped, faults>>

-----------------------------------------------------------------------------
\* The emulation thread: Lock and Unlock.

Locked == emulation' = "mix" /\ output' = <<>>

\* Lock lets the machine write to every sub-buffer that is not queued.
Lock ==
    /\ emulation = "idle"
    /\ player # "none" /\ playing /\ unqueued # <<>>
    /\ Locked
    /\ UNCHANGED <<playerVars, slVars, listVars, mem, heard, dropped, faults>>

\* The machine's mode has changed: Lock resets the player before.
LockInNewMode ==
    /\ emulation = "idle"
    /\ Fault
    /\ ResetSLESPlayer
    /\ IF player' # "none" /\ playing THEN Locked ELSE UNCHANGED <<emulation, output>>

\* Unlock, when the machine has written all it had.
Unlock ==
    /\ emulation = "mix"
    /\ emulation' = IF output = <<>> THEN "idle" ELSE "submit"
    /\ UNCHANGED <<playerVars, slVars, listVars, mem, output, heard, dropped, faults>>

Chunk == SubSeq(output, 1, Min({Len(output), SubSize}))

\* Mutant: a whole sub-buffer is submitted, whatever was written.
SubmitWhole ==
    /\ emulation = "submit"
    /\ LET b == Last(unqueued) n == Len(Chunk)
       IN  /\ mem' = [mem EXCEPT ![b] = Chunk \o SubSeq(@, n + 1, Len(@))]
           /\ Len(slQueue) < NumSubBuffers
           /\ slQueue' = Append(slQueue, [buffer |-> b, size |-> Len(mem'[b])])
           /\ emulation' = "note"
           /\ UNCHANGED <<output, dropped, faults>>
    /\ UNCHANGED <<playerVars, due, listVars, heard>>

\* memcpy into the oldest sub-buffer, and Enqueue, which fails if OpenSL's
\* queue is full, or for reasons of its own: the rest is given up.
Submit ==
    /\ emulation = "submit"
    /\ LET b == Last(unqueued) n == Len(Chunk)
       IN  /\ mem' = [mem EXCEPT ![b] = Chunk \o SubSeq(@, n + 1, Len(@))]
           /\ \/ /\ Len(slQueue) < NumSubBuffers
                 /\ slQueue' = Append(slQueue, [buffer |-> b, size |-> n])
                 /\ emulation' = "note"
                 /\ UNCHANGED <<output, dropped, faults>>
              \/ /\ Fault
                 /\ output' = <<>> /\ dropped' = dropped \cup ToSet(output)
                 /\ emulation' = "idle"
                 /\ UNCHANGED slQueue
    /\ UNCHANGED <<playerVars, due, listVars, heard>>

Note ==
    /\ emulation = "note"
    /\ unqueued' = Front(unqueued)
    /\ queued' = <<Last(unqueued)>> \o queued
    /\ output' = SubSeq(output, Len(Chunk) + 1, Len(output))
    /\ emulation' = IF output' = <<>> THEN "idle" ELSE "submit"
    /\ UNCHANGED <<playerVars, slVars, mem, heard, dropped, faults>>

-----------------------------------------------------------------------------

\* After the constructor.
QueueInit ==
    /\ player = "made" /\ playing = FALSE /\ slPlaying = FALSE
    /\ slQueue = <<>> /\ due = 0
    /\ queued = <<>> /\ unqueued = [i \in SubBuffer |-> i]
    /\ mem = [b \in SubBuffer |-> <<>>]
    /\ emulation = "idle" /\ output = <<>>
    /\ heard = <<>> /\ dropped = {} /\ faults = 0

QueueTypeOK ==
    /\ player \in {"none", "made", "deaf"}
    /\ playing \in BOOLEAN /\ slPlaying \in BOOLEAN
    /\ slQueue \in Seq([buffer : SubBuffer, size : 1 .. SubSize])
    /\ due \in 0 .. NumSubBuffers
    /\ unqueued \in Seq(SubBuffer) /\ queued \in Seq(SubBuffer)
    /\ mem \in [SubBuffer -> Seq(Sample)] /\ \A b \in SubBuffer : Len(mem[b]) <= SubSize
    /\ emulation \in Stages /\ output \in Seq(Sample)
    /\ heard \in Seq(Sample) /\ dropped \in SUBSET Sample
    /\ faults \in 0 .. MaxFaults

\* The sub-buffers that OpenSL was given and the driver still counts as queued,
\* the oldest first.
Pending == Reverse(queued) \o (IF emulation = "note" THEN <<Last(unqueued)>> ELSE <<>>)

\* Every sub-buffer is on one of the two lists; those OpenSL has still to play
\* are the newest queued ones, in its order, and each older one has its
\* callback coming.  So no sub-buffer is written before it was played, none is
\* lost to the driver, and OpenSL's queue never overflows.
QueuesAgree ==
    /\ IsInjective(unqueued \o queued) /\ ToSet(unqueued \o queued) = SubBuffer
    /\ player # "none" =>
          /\ [i \in DOMAIN slQueue |-> slQueue[i].buffer]
                = SubSeq(Pending, Len(Pending) - Len(slQueue) + 1, Len(Pending))
          /\ player = "made" => Len(Pending) = Len(slQueue) + due
=============================================================================
