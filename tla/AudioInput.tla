----------------------------- MODULE AudioInput -----------------------------
(***************************************************************************)
(* The microphone side of the Android audio driver                         *)
(* (source/mobile/android/AudioDriver.cpp).  Three threads meet here:      *)
(*                                                                         *)
(*   - the recorder thread, InputBufferFillingProc, copies what the Java   *)
(*     AudioRecord returns into a ring buffer.  It holds m_recBufferLock   *)
(*     for BeginWrite and EndWrite but not for the copy between them;      *)
(*   - the emulation thread pops samples in ReadInput, with m_recBufferLock*)
(*     held for the whole Pop;                                             *)
(*   - the UI thread enables and disables capture and reports permission   *)
(*     changes.  Both may stop the recorder thread and join it, holding    *)
(*     m_threadSafetyLock, which ReadInput takes too.                      *)
(*                                                                         *)
(* A sample is the number of samples copied into the ring before it, plus  *)
(* one; 0 is the uninitialised content of a new ring.                      *)
(***************************************************************************)
EXTENDS RingBuffer, Sequences

CONSTANTS
    ReadSize,    \* most elements one AudioRecord.read returns
    MaxRecorded  \* bound: samples copied into one ring

ASSUME InputAssumption == ReadSize \in Nat /\ MaxRecorded \in Nat

VARIABLES
    rb,          \* m_recBuffer's indices
    recBuffer,   \* m_recBuffer's cells
    recorder,    \* InputBufferFillingProc: where the thread is
    remain,      \* remainBytes: elements of the Java buffer still to store
    region,      \* the region BeginWrite returned, cut to remain
    running,     \* m_recBufferThreadRunning
    hasRecorder, \* m_jAudioRecord, with m_jrecByteBuffer and m_recBuffer
    capturing,   \* m_capturing
    permission,  \* m_hasRecordPermission
    owner,       \* what the UI thread does under m_threadSafetyLock
    written,     \* history: samples copied into this ring
    delivered,   \* history: the samples ReadInput returned from this ring
    drained      \* history: a ReadInput emptied the ring during a copy

ringVars    == <<rb, recBuffer, written, delivered, drained>>
threadVars  == <<recorder, remain, region, running>>
controlVars == <<hasRecorder, capturing, permission>>
inputVars   == <<ringVars, threadVars, controlVars, owner>>

\* "none": no thread; "read": in AudioRecord.read; "loop": about to take the
\* lock; "asleep": in m_recBufferCv.wait; "copy", "commit": between BeginWrite
\* and EndWrite; "done": returned, not yet joined.
RecorderStates == {"none", "read", "loop", "asleep", "copy", "commit", "done"}

\* The stage of StopInputBufferFillingThread the UI thread is in, and what the
\* caller does after it: nothing (disable) or ResetAudioRecord (reset).
Owners == [stage : {"free", "notify", "join"}, then : {"disable", "reset"}]

Free         == owner.stage = "free"
Stopping(op) == running' = FALSE /\ owner' = [stage |-> "notify", then |-> op]

NoRegion == [at |-> 0, n1 |-> 0, n2 |-> 0]

EmptyRing ==
    /\ rb' = Cleared
    /\ recBuffer' = [c \in Index |-> 0]
    /\ written' = 0
    /\ delivered' = << >>
    /\ drained' = FALSE

-----------------------------------------------------------------------------
\* The recorder thread.

\* Mutant: the thread does not look at m_recBufferThreadRunning between reads.
ReadUnstoppable ==
    /\ recorder = "read"
    /\ \E k \in 0 .. ReadSize :
          /\ written + k <= MaxRecorded
          /\ remain' = k
          /\ recorder' = IF k > 0 THEN "loop" ELSE "read"
    /\ UNCHANGED <<ringVars, region, running, controlVars, owner>>

\* AudioRecord.read returns k elements; an error code counts as none.
Read ==
    /\ recorder = "read"
    /\ IF running
       THEN \E k \in 0 .. ReadSize :
               /\ written + k <= MaxRecorded
               /\ remain' = k
               /\ recorder' = IF k > 0 THEN "loop" ELSE "read"
       ELSE /\ recorder' = "done"
            /\ UNCHANGED remain
    /\ UNCHANGED <<ringVars, region, running, controlVars, owner>>

\* Under m_recBufferLock: wait while the ring is full, leave if stopped, else
\* take the free region.
Reserve ==
    /\ recorder = "loop"
    /\ \/ /\ running /\ rb.full
          /\ recorder' = "asleep"
          /\ UNCHANGED <<remain, region>>
       \/ /\ ~running
          /\ recorder' = "done"
          /\ remain' = 0
          /\ UNCHANGED region
       \/ /\ running /\ ~rb.full
          /\ region' = Cut(BeginWrite(rb), remain)
          /\ recorder' = "copy"
          /\ UNCHANGED remain
    /\ UNCHANGED <<ringVars, running, controlVars, owner>>

\* Without the lock: the samples go to the cells the region names.
Copy ==
    /\ recorder = "copy"
    /\ recBuffer' = [c \in Index |-> IF c \in Cells(region)
                                      THEN written + 1 + OffsetOf(region, c)
                                      ELSE recBuffer[c]]
    /\ written' = written + Length(region)
    /\ remain' = remain - Length(region)
    /\ recorder' = "commit"
    /\ UNCHANGED <<rb, delivered, drained, region, running, controlVars, owner>>

\* Under m_recBufferLock again.
Commit ==
    /\ recorder = "commit"
    /\ rb' = EndWrite(rb, Length(region))
    /\ region' = NoRegion
    /\ recorder' = IF remain > 0 THEN "loop" ELSE "read"
    /\ UNCHANGED <<recBuffer, written, delivered, drained, remain, running,
                   controlVars, owner>>

RecorderStep == Read \/ Reserve \/ Copy \/ Commit

\* m_recBufferCv.notify_all.
Notify(r) == IF r = "asleep" THEN "loop" ELSE r

-----------------------------------------------------------------------------
\* The emulation thread.

\* The elements in a region, in ring order.
Contents(r) == [i \in 1 .. Length(r) |-> recBuffer[CellAt(r, i - 1)]]

\* ReadInput(samples, k): pops at most k elements and wakes the recorder.
ReadInput(k) ==
    /\ Free /\ hasRecorder
    /\ LET r == Cut(BeginRead(rb), k)
       IN  /\ rb' = EndRead(rb, Length(r))
           /\ delivered' = delivered \o Contents(r)
           /\ drained' = (drained \/ (/\ Length(r) > 0
                                      /\ Length(r) = Size(rb)
                                      /\ recorder \in {"copy", "commit"}))
    /\ recorder' = Notify(recorder)
    /\ UNCHANGED <<recBuffer, written, remain, region, running, controlVars, owner>>

-----------------------------------------------------------------------------
\* The UI thread.

StartInputBufferFillingThread ==
    /\ running' = TRUE
    /\ recorder' = "read"

\* EnableInput(enable).
EnableInput(enable) ==
    /\ Free
    /\ capturing # enable
    /\ capturing' = enable
    /\ \/ /\ hasRecorder /\ enable
          /\ StartInputBufferFillingThread
          /\ UNCHANGED owner
       \/ /\ hasRecorder /\ ~enable
          /\ Stopping("disable")
          /\ UNCHANGED recorder
       \/ /\ ~hasRecorder
          /\ UNCHANGED <<running, recorder, owner>>
    /\ UNCHANGED <<ringVars, remain, region, hasRecorder, permission>>

\* InputPermissionChanged(has): Reset(true), whose Release stops the thread
\* whether or not one runs.
InputPermissionChanged(has) ==
    /\ Free
    /\ has # permission
    /\ permission' = has
    /\ Stopping("reset")
    /\ UNCHANGED <<ringVars, recorder, remain, region, hasRecorder, capturing>>

\* Reset() by UpdateSettings, when the emulator's sound format changed.
UpdateInputSettings ==
    /\ Free
    /\ Stopping("reset")
    /\ UNCHANGED <<ringVars, recorder, remain, region, controlVars>>

\* StopInputBufferFillingThread: notify under m_recBufferLock, then join.
StopNotify ==
    /\ owner.stage = "notify"
    /\ recorder' = Notify(recorder)
    /\ owner' = [owner EXCEPT !.stage = "join"]
    /\ UNCHANGED <<ringVars, remain, region, running, controlVars>>

\* Mutants: the recorder is released before the thread has ended; a reset does
\* not enter the capturing state again.
ReleaseWithoutJoin ==
    /\ owner.stage = "join"
    /\ owner' = [owner EXCEPT !.stage = "free"]
    /\ IF owner.then = "disable" /\ recorder \in {"none", "done"}
       THEN UNCHANGED <<ringVars, hasRecorder, running>> /\ recorder' = "none"
       ELSE /\ hasRecorder' = permission
            /\ EmptyRing
            /\ IF permission /\ capturing THEN StartInputBufferFillingThread
                                          ELSE UNCHANGED <<recorder, running>>
    /\ UNCHANGED <<remain, region, capturing, permission>>

StopJoinForgetsCapturing ==
    /\ owner.stage = "join"
    /\ recorder \in {"none", "done"}
    /\ owner' = [owner EXCEPT !.stage = "free"]
    /\ recorder' = "none"
    /\ IF owner.then = "disable"
       THEN UNCHANGED <<ringVars, hasRecorder>>
       ELSE hasRecorder' = permission /\ EmptyRing
    /\ UNCHANGED <<running, remain, region, capturing, permission>>

\* The join returns.  A disable ends here; Reset goes on with ResetAudioRecord:
\* no recorder without permission or when AudioRecord cannot be created, else a
\* new ring, and the capturing state is entered again if it was on.
StopJoin ==
    /\ owner.stage = "join"
    /\ recorder \in {"none", "done"}
    /\ owner' = [owner EXCEPT !.stage = "free"]
    /\ \/ /\ owner.then = "disable"
          /\ recorder' = "none"
          /\ UNCHANGED <<ringVars, running, hasRecorder>>
       \/ /\ owner.then = "reset"
          /\ hasRecorder' = FALSE
          /\ recorder' = "none"
          /\ EmptyRing
          /\ UNCHANGED running
       \/ /\ owner.then = "reset"
          /\ permission
          /\ hasRecorder' = TRUE
          /\ EmptyRing
          /\ IF capturing THEN StartInputBufferFillingThread
                          ELSE recorder' = "none" /\ UNCHANGED running
    /\ UNCHANGED <<remain, region, capturing, permission>>

-----------------------------------------------------------------------------

InputInit ==
    /\ rb = Cleared
    /\ recBuffer = [c \in Index |-> 0]
    /\ recorder = "none"
    /\ remain = 0
    /\ region = NoRegion
    /\ running = FALSE
    /\ hasRecorder = FALSE
    /\ capturing = FALSE
    /\ permission = FALSE
    /\ owner = [stage |-> "free", then |-> "disable"]
    /\ written = 0
    /\ delivered = << >>
    /\ drained = FALSE

StopStep == StopNotify \/ StopJoin

InputNext ==
    \/ RecorderStep
    \/ \E k \in 1 .. Capacity : ReadInput(k)
    \/ \E b \in BOOLEAN : EnableInput(b) \/ InputPermissionChanged(b)
    \/ UpdateInputSettings
    \/ StopStep

InputSpec == InputInit /\ [][InputNext]_inputVars

-----------------------------------------------------------------------------
(***************************************************************************)
(* Properties.                                                             *)
(***************************************************************************)

Copying == recorder \in {"copy", "commit"}

\* Every variable keeps its type: in particular the indices stay inside the
\* ring through every wrap-around of EndWrite and EndRead.
InputTypeOK ==
    /\ rb \in Ring
    /\ recBuffer \in [Index -> 0 .. MaxRecorded]
    /\ recorder \in RecorderStates
    /\ remain \in 0 .. ReadSize
    /\ region \in Region
    /\ running \in BOOLEAN /\ hasRecorder \in BOOLEAN
    /\ capturing \in BOOLEAN /\ permission \in BOOLEAN
    /\ owner \in Owners
    /\ written \in 0 .. MaxRecorded
    /\ delivered \in Seq(0 .. MaxRecorded)
    /\ drained \in BOOLEAN

\* The copy that runs without m_recBufferLock never touches a cell a ReadInput
\* may be reading, wherever the two are and however often ReadInput ran (and
\* moved the indices) since BeginWrite.
NoOverlap == Copying => Cells(region) \cap Cells(BeginRead(rb)) = {}

\* No sample is counted twice or forgotten, even when the ring is emptied (and
\* its indices reset) in the middle of a copy: what was copied in is what was
\* popped, plus what Size() reports, plus the copy not yet committed.
Accounting ==
    written = Len(delivered) + Size(rb)
                + IF recorder = "commit" THEN Length(region) ELSE 0

\* ReadInput returns the samples in the order they were recorded, as long as it
\* never empties the ring while the recorder is between BeginWrite and EndWrite.
FifoUnlessDrained ==
    ~drained => \A i \in 1 .. Len(delivered) : delivered[i] = i

\* The same without the exception.  The code's comment says the copy needs no
\* lock; EndRead's reset of both indices makes EndWrite publish other cells
\* than the ones BeginWrite handed out.
Fifo == \A i \in 1 .. Len(delivered) : delivered[i] = i

\* The recorder thread uses m_jAudioRecord and the buffers without any lock:
\* they exist as long as it runs, through permission changes and Resets.
ThreadHasRecorder == recorder \notin {"none", "done"} => hasRecorder

\* When nobody is switching, capture is on and a recorder exists, a live
\* thread fills the ring: no order of enabling, permission changes and Resets
\* leaves the microphone on with nobody reading it.
CapturingIsServed ==
    Free /\ hasRecorder =>
        (capturing <=> (running /\ recorder \notin {"none", "done"}))

\* A sleeping recorder has a reason to sleep, or a notify on its way: no
\* wake-up is lost between the test of the predicate and the wait.
NoLostWakeup ==
    recorder = "asleep" =>
        \/ running /\ rb.full
        \/ owner.stage = "notify"

\* Stopping the thread, which blocks the UI thread in join with
\* m_threadSafetyLock held (so that no ReadInput can make room in the ring),
\* always comes to an end.
StopReturns == ~Free ~> Free
=============================================================================
