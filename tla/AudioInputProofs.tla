-------------------------- MODULE AudioInputProofs --------------------------
(***************************************************************************)
(* Proofs about AudioInput for every capacity, chunk and number of         *)
(* samples.                                                                *)
(***************************************************************************)
EXTENDS AudioInput, TLAPS, SequenceTheorems

-----------------------------------------------------------------------------
\* What the ring buffer's index arithmetic does, for every capacity.

\* The remainders the indices are taken from never go round twice.
LEMMA Wrap ==
    ASSUME NEW a \in 0 .. 2 * Capacity - 1
    PROVE  a % Capacity = IF a < Capacity THEN a ELSE a - Capacity
BY CapacityAssumption

\* Size() without the remainder.
LEMMA SizeIs ==
    ASSUME NEW ring \in Ring, Consistent(ring)
    PROVE  /\ Size(ring) = IF ring.full THEN Capacity
                         ELSE IF ring.readIdx <= ring.writeIdx
                              THEN ring.writeIdx - ring.readIdx
                              ELSE ring.writeIdx - ring.readIdx + Capacity
           /\ Size(ring) \in 0 .. Capacity
<1>1. /\ Capacity \in Nat /\ Capacity > 0
      /\ ring.readIdx \in Index /\ ring.writeIdx \in Index /\ ring.full \in BOOLEAN
  BY CapacityAssumption DEF Ring
<1>2. ring.writeIdx - ring.readIdx + Capacity \in 0 .. 2 * Capacity - 1
  BY <1>1 DEF Index
<1>3. (ring.writeIdx - ring.readIdx + Capacity) % Capacity
        = IF ring.readIdx <= ring.writeIdx THEN ring.writeIdx - ring.readIdx
                                       ELSE ring.writeIdx - ring.readIdx + Capacity
  BY <1>1, <1>2, Wrap DEF Index
<1>4. QED
  BY <1>1, <1>3 DEF Size, Index

\* Elements that are added move the write index on, and so Size() when it is taken
\* from the indices alone.
LEMMA FurtherOn ==
    ASSUME NEW r \in Index, NEW w \in Index, NEW k \in Nat, NEW n \in Nat, NEW v,
           k + n <= Capacity,
           k = IF r <= w THEN w - r ELSE w - r + Capacity,
           v = IF w + n < Capacity THEN w + n ELSE w + n - Capacity,
           v # r
    PROVE  (IF r <= v THEN v - r ELSE v - r + Capacity) = k + n
BY CapacityAssumption DEF Index

\* A region cut to k elements starts where it did, has the k elements unless it
\* had fewer, and uses its second part only behind a whole first part.
LEMMA CutIs ==
    ASSUME NEW g \in Region, NEW k \in Nat
    PROVE  /\ Cut(g, k) \in Region
           /\ Cut(g, k).at = g.at
           /\ Length(Cut(g, k)) = Least(Length(g), k)
           /\ Cut(g, k).n1 <= g.n1
           /\ Cut(g, k).n2 <= g.n2
           /\ Cut(g, k).n2 > 0 => Cut(g, k).n1 = g.n1
BY CapacityAssumption DEF Cut, Region, Least, Length

\* The offset of a region's cell is the number of an element.
LEMMA OffsetIs ==
    ASSUME NEW g \in Region, NEW c \in Cells(g)
    PROVE  OffsetOf(g, c) \in 0 .. Length(g) - 1
<1>1. g.at \in Int /\ g.n1 \in Nat /\ g.n2 \in Nat
  BY CapacityAssumption DEF Region, Index
<1>2. CASE c \in g.at .. g.at + g.n1 - 1
  BY <1>1, <1>2 DEF OffsetOf, Length
<1>3. CASE c \notin g.at .. g.at + g.n1 - 1
  BY <1>1, <1>3 DEF OffsetOf, Length, Cells
<1>4. QED
  BY <1>2, <1>3

\* A region that does not run over the end holds cells of the ring only.
LEMMA CellsInRing ==
    ASSUME NEW g \in Region, g.at + g.n1 <= Capacity, NEW i \in 0 .. Length(g) - 1
    PROVE  CellAt(g, i) \in Index
<1>1. g.at \in Index /\ g.n1 \in Nat /\ g.n2 \in 0 .. Capacity /\ Capacity \in Nat
  BY CapacityAssumption DEF Region, Index
<1>2. CASE i < g.n1
  BY <1>1, <1>2 DEF CellAt, Index
<1>3. CASE i >= g.n1
  BY <1>1, <1>3 DEF CellAt, Index, Length
<1>4. QED
  BY <1>1, <1>2, <1>3

\* BeginWrite returns exactly the free cells, in ring order.
LEMMA BeginWriteIs ==
    ASSUME NEW ring \in Ring, Consistent(ring)
    PROVE  /\ BeginWrite(ring) \in Region
           /\ BeginWrite(ring).at = ring.writeIdx
           /\ Length(BeginWrite(ring)) = Capacity - Size(ring)
           /\ BeginWrite(ring).at + BeginWrite(ring).n1 <= Capacity
           /\ BeginWrite(ring).n2 > 0 => /\ BeginWrite(ring).at + BeginWrite(ring).n1 = Capacity
                                       /\ BeginWrite(ring).n2 <= ring.readIdx
           /\ ring.readIdx > ring.writeIdx =>
                 BeginWrite(ring).at + BeginWrite(ring).n1 <= ring.readIdx
<1>1. /\ Capacity \in Nat /\ Capacity > 0
      /\ ring.readIdx \in Index /\ ring.writeIdx \in Index /\ ring.full \in BOOLEAN
  BY CapacityAssumption DEF Ring
<1>2. /\ BeginWrite(ring).at = ring.writeIdx
      /\ ring.full => BeginWrite(ring).n1 = 0 /\ BeginWrite(ring).n2 = 0
      /\ (~ring.full /\ ring.readIdx <= ring.writeIdx) =>
            /\ BeginWrite(ring).n1 = Capacity - ring.writeIdx
            /\ BeginWrite(ring).n2 = ring.readIdx
      /\ (~ring.full /\ ring.readIdx > ring.writeIdx) =>
            /\ BeginWrite(ring).n1 = ring.readIdx - ring.writeIdx
            /\ BeginWrite(ring).n2 = 0
  BY <1>1 DEF BeginWrite, Index
<1>3. BeginWrite(ring) \in Region
  BY <1>1 DEF BeginWrite, Region, Index
<1>4. QED
  BY <1>1, <1>2, <1>3, SizeIs DEF Length, Index, Consistent

\* BeginRead returns exactly the stored cells, in ring order.
LEMMA BeginReadIs ==
    ASSUME NEW ring \in Ring, Consistent(ring)
    PROVE  /\ BeginRead(ring) \in Region
           /\ BeginRead(ring).at = ring.readIdx
           /\ Length(BeginRead(ring)) = Size(ring)
           /\ BeginRead(ring).at + BeginRead(ring).n1 <= Capacity
           /\ BeginRead(ring).n2 > 0 => BeginRead(ring).at + BeginRead(ring).n1 = Capacity
           /\ BeginRead(ring).n2 <= BeginRead(ring).at
BY SizeIs, CapacityAssumption DEF BeginRead, Region, Ring, Index, Length, Consistent

\* EndWrite adds n elements, at most the free ones, behind the last.
LEMMA EndWriteIs ==
    ASSUME NEW ring \in Ring, Consistent(ring), NEW n \in 1 .. Capacity - Size(ring)
    PROVE  /\ EndWrite(ring, n) \in Ring
           /\ Consistent(EndWrite(ring, n))
           /\ EndWrite(ring, n).readIdx = ring.readIdx
           /\ Size(EndWrite(ring, n)) = Size(ring) + n
<1> DEFINE w == (ring.writeIdx + n) % Capacity
<1>1. /\ Capacity \in Nat /\ Capacity > 0
      /\ ring.readIdx \in Index /\ ring.writeIdx \in Index /\ ring.full \in BOOLEAN
      /\ Size(ring) \in 0 .. Capacity /\ n \in Nat
  BY CapacityAssumption, SizeIs DEF Ring
<1>2. w = IF ring.writeIdx + n < Capacity THEN ring.writeIdx + n
                                        ELSE ring.writeIdx + n - Capacity
  BY <1>1, Wrap DEF Index
<1>3. ring.full = FALSE
  BY <1>1 DEF Size
<1>4. EndWrite(ring, n) = [readIdx |-> ring.readIdx, writeIdx |-> w,
                         full |-> IF n > 0 /\ w = ring.readIdx THEN TRUE
                                                            ELSE ring.full]
  BY DEF EndWrite
<1> HIDE DEF w
<1>5. /\ EndWrite(ring, n) \in Ring
      /\ Consistent(EndWrite(ring, n))
  <2>1. w \in Index
    BY <1>1, <1>2 DEF Index
  <2> DEFINE f == IF n > 0 /\ w = ring.readIdx THEN TRUE ELSE ring.full
  <2>2. EndWrite(ring, n) \in Ring
    <3>1. f \in BOOLEAN
      BY <1>1
    <3>2. EndWrite(ring, n) = [readIdx |-> ring.readIdx, writeIdx |-> w, full |-> f]
      BY <1>4
    <3> HIDE DEF f
    <3>3. QED
      BY <1>1, <2>1, <3>1, <3>2 DEF Ring
  <2>3. EndWrite(ring, n).full => w = ring.readIdx
    BY <1>1, <1>3, <1>4
  <2>4. EndWrite(ring, n).readIdx = ring.readIdx /\ EndWrite(ring, n).writeIdx = w
    BY <1>4
  <2>5. QED
    BY <2>2, <2>3, <2>4 DEF Consistent
<1>6. Size(EndWrite(ring, n)) = Size(ring) + n
  <2>1. Size(ring) = IF ring.readIdx <= ring.writeIdx THEN ring.writeIdx - ring.readIdx
                   ELSE ring.writeIdx - ring.readIdx + Capacity
    BY <1>3, SizeIs
  <2> DEFINE e == EndWrite(ring, n)
  <2>2. /\ e.readIdx = ring.readIdx
        /\ e.writeIdx = w
        /\ w = ring.readIdx => e.full
        /\ w # ring.readIdx => ~e.full
    BY <1>1, <1>3, <1>4
  <2>3. Size(e) = IF e.full THEN Capacity
                  ELSE IF e.readIdx <= e.writeIdx THEN e.writeIdx - e.readIdx
                       ELSE e.writeIdx - e.readIdx + Capacity
    BY <1>5, SizeIs
  <2> HIDE DEF e
  <2>4. Size(e) = Size(ring) + n
    <3>1. CASE w = ring.readIdx
      BY <1>1, <1>2, <2>1, <2>2, <2>3, <3>1 DEF Index
    <3>2. CASE w # ring.readIdx
      <4>1. Size(e) = IF ring.readIdx <= w THEN w - ring.readIdx
                                           ELSE w - ring.readIdx + Capacity
        BY <2>2, <2>3, <3>2
      <4>2. Size(ring) \in Nat /\ n \in Nat /\ Size(ring) + n <= Capacity
        BY <1>1
      <4> QED
        BY <1>1, <1>2, <2>1, <3>2, <4>1, <4>2, FurtherOn
    <3>3. QED
      BY <3>1, <3>2
  <2>5. QED
    BY <2>4 DEF e
<1>7. QED
  BY <1>4, <1>5, <1>6

\* EndRead removes the first n elements.
LEMMA EndReadIs ==
    ASSUME NEW ring \in Ring, Consistent(ring), NEW n \in 0 .. Size(ring)
    PROVE  /\ EndRead(ring, n) \in Ring
           /\ Consistent(EndRead(ring, n))
           /\ Size(EndRead(ring, n)) = Size(ring) - n
           /\ n = 0 => EndRead(ring, n) = ring
           /\ (n > 0 /\ n = Size(ring)) => EndRead(ring, n) = Cleared
           /\ n < Size(ring) =>
                 /\ EndRead(ring, n).writeIdx = ring.writeIdx
                 /\ EndRead(ring, n).readIdx =
                       IF ring.readIdx + n < Capacity THEN ring.readIdx + n
                                                    ELSE ring.readIdx + n - Capacity
<1> DEFINE r == (ring.readIdx + n) % Capacity
<1>1. /\ Capacity \in Nat /\ Capacity > 0
      /\ ring.readIdx \in Index /\ ring.writeIdx \in Index /\ ring.full \in BOOLEAN
      /\ Size(ring) \in 0 .. Capacity /\ n \in Nat
  BY CapacityAssumption, SizeIs DEF Ring
<1>2. r = IF ring.readIdx + n < Capacity THEN ring.readIdx + n
                                       ELSE ring.readIdx + n - Capacity
  BY <1>1, Wrap DEF Index
<1>3. EndRead(ring, n) = IF n > 0 /\ r = ring.writeIdx THEN Cleared
                       ELSE [readIdx |-> r, writeIdx |-> ring.writeIdx,
                             full |-> IF n > 0 THEN FALSE ELSE ring.full]
  BY DEF EndRead
<1> HIDE DEF r
<1>4. CASE n = 0
  <2>1. r = ring.readIdx
    BY <1>1, <1>2, <1>4 DEF Index
  <2>2. EndRead(ring, n) = ring
    BY <1>3, <1>4, <2>1 DEF Ring
  <2>3. QED
    BY <1>1, <1>2, <1>4, <2>1, <2>2
<1>5. CASE n > 0 /\ r = ring.writeIdx
  <2>1. n = Size(ring)
    BY <1>1, <1>2, <1>5, SizeIs, SMTT(30) DEF Index, Consistent
  <2>2. EndRead(ring, n) = Cleared
    BY <1>1, <1>3, <1>5
  <2>3. Cleared \in Ring /\ Consistent(Cleared) /\ Size(Cleared) = 0
    <3>1. Cleared \in Ring /\ Consistent(Cleared)
      BY <1>1 DEF Cleared, Ring, Index, Consistent
    <3>2. QED
      BY <3>1, SizeIs DEF Cleared
  <2>4. QED
    BY <1>1, <1>5, <2>1, <2>2, <2>3
<1>6. CASE n > 0 /\ r # ring.writeIdx
  <2>1. EndRead(ring, n) = [readIdx |-> r, writeIdx |-> ring.writeIdx, full |-> FALSE]
    BY <1>1, <1>3, <1>6 DEF Ring
  <2>2. EndRead(ring, n) \in Ring /\ Consistent(EndRead(ring, n))
    BY <1>1, <1>2, <2>1 DEF Ring, Index, Consistent
  <2>3. n # Size(ring)
    BY <1>1, <1>2, <1>6, SizeIs DEF Index, Consistent
  <2>4. Size(EndRead(ring, n)) = Size(ring) - n
    BY <1>1, <1>2, <1>6, <2>1, <2>2, SizeIs DEF Index, Consistent
  <2>5. QED
    BY <1>1, <1>2, <1>6, <2>1, <2>2, <2>3, <2>4
<1>7. QED
  BY <1>1, <1>4, <1>5, <1>6

\* The cell i places behind index b.
Behind(b, i) == IF b + i < Capacity THEN b + i ELSE b + i - Capacity

\* Element i of a region lies i places behind its start.
LEMMA CellIsBehind ==
    ASSUME NEW g \in Region, g.at + g.n1 <= Capacity,
           g.n2 > 0 => g.at + g.n1 = Capacity, g.n2 <= g.at,
           NEW i \in 0 .. Length(g) - 1
    PROVE  /\ Behind(g.at, i) = CellAt(g, i)
           /\ Behind(g.at, i) \in Index
           /\ Behind(g.at, i) \in Cells(g)
           /\ OffsetOf(g, Behind(g.at, i)) = i
<1>1. g.at \in Index /\ g.n1 \in Nat /\ g.n2 \in Nat /\ Capacity \in Nat
  BY CapacityAssumption DEF Region, Index
<1>2. CASE i < g.n1
  <2>1. Behind(g.at, i) = g.at + i /\ g.at + i \in g.at .. g.at + g.n1 - 1
    BY <1>1, <1>2 DEF Behind, Index
  <2>2. QED
    BY <1>1, <1>2, <2>1 DEF CellAt, Cells, OffsetOf, Index
<1>3. CASE i >= g.n1
  <2>1. /\ Behind(g.at, i) = i - g.n1 /\ i - g.n1 \in 0 .. g.n2 - 1
        /\ i - g.n1 \notin g.at .. g.at + g.n1 - 1
    BY <1>1, <1>3 DEF Behind, Length, Index
  <2>2. QED
    BY <1>1, <1>3, <2>1 DEF CellAt, Cells, OffsetOf, Index
<1>4. QED
  BY <1>1, <1>2, <1>3

\* The places behind the places behind.
LEMMA BehindBehind ==
    ASSUME NEW b \in Index, NEW m \in 0 .. Capacity, NEW i \in Nat, m + i < Capacity
    PROVE  /\ Behind(b, m) \in Index \/ m = Capacity
           /\ Behind(Behind(b, m), i) = Behind(b, m + i)
BY CapacityAssumption DEF Behind, Index

\* m_writeIdx is Size() places behind m_readIdx.
LEMMA WriteIsBehindRead ==
    ASSUME NEW ring \in Ring, Consistent(ring), Size(ring) < Capacity
    PROVE  ring.writeIdx = Behind(ring.readIdx, Size(ring))
<1>1. /\ Capacity \in Nat /\ ring.readIdx \in Index /\ ring.writeIdx \in Index
  BY CapacityAssumption DEF Ring
<1>2. Size(ring) = IF ring.readIdx <= ring.writeIdx THEN ring.writeIdx - ring.readIdx
                 ELSE ring.writeIdx - ring.readIdx + Capacity
  BY <1>1, SizeIs
<1>3. QED
  BY <1>1, <1>2 DEF Behind, Index


-----------------------------------------------------------------------------
\* The recorder, the emulator's thread and the ring between them.

\* The region the recorder holds between BeginWrite and EndWrite still fits the
\* free space, and it still starts where EndWrite will advance from, unless a
\* ReadInput emptied the ring since: then nothing is readable at all.
PendingOK ==
    Copying =>
        /\ Length(region) \in 1 .. Capacity - Size(rb)
        /\ region.at + region.n1 <= Capacity
        /\ region.n2 > 0 => region.at + region.n1 = Capacity
        /\ region.n2 <= region.at
        /\ Size(rb) > 0 => region.at = rb.writeIdx

\* The samples still in the Java buffer have room under the bound, and the
\* region never asks for more of them than there are.
RemainOK ==
    /\ written + remain <= MaxRecorded
    /\ recorder \in {"loop", "asleep"} => remain > 0
    /\ recorder = "copy" => Length(region) <= remain
    /\ recorder = "commit" => Length(region) <= written

RingInv ==
    /\ InputTypeOK
    /\ Consistent(rb)
    /\ PendingOK
    /\ RemainOK
    /\ Accounting

\* Who runs the recorder thread, and with what.
ControlInv ==
    /\ ~Free => ~running
    /\ Free => (running <=> (capturing /\ hasRecorder))
    /\ Free /\ ~running => recorder = "none"
    /\ running => recorder \notin {"none", "done"}
    /\ recorder # "none" => hasRecorder
    /\ ~Free /\ owner.then = "disable" => hasRecorder /\ ~capturing
    /\ recorder = "asleep" => (running /\ rb.full) \/ owner.stage = "notify"

\* What is in the cells: the readable ones hold the samples that follow the
\* delivered ones, the copied but uncommitted ones the samples after those.
FifoInv ==
    ~drained =>
        /\ FifoUnlessDrained
        /\ \A i \in 0 .. Size(rb) - 1 :
              recBuffer[Behind(rb.readIdx, i)] = Len(delivered) + 1 + i
        /\ Copying => region.at = rb.writeIdx
        /\ recorder = "commit" =>
              \A i \in 0 .. Length(region) - 1 :
                 recBuffer[Behind(region.at, i)] = written - Length(region) + 1 + i

-----------------------------------------------------------------------------

LEMMA InitRingInv == InputInit => RingInv
<1> SUFFICES ASSUME InputInit PROVE RingInv
  OBVIOUS
<1>1. rb \in Ring /\ Consistent(rb) /\ Size(rb) = 0
  <2>1. rb \in Ring /\ Consistent(rb)
    BY CapacityAssumption DEF InputInit, Cleared, Ring, Index, Consistent
  <2>2. QED
    BY <2>1, SizeIs DEF InputInit, Cleared
<1>2. InputTypeOK
  <2>1. recBuffer \in [Index -> 0 .. MaxRecorded] /\ region \in Region
    BY CapacityAssumption, InputAssumption DEF InputInit, NoRegion, Region, Index
  <2>2. owner \in Owners /\ delivered \in Seq(0 .. MaxRecorded)
    BY DEF InputInit, Owners
  <2>3. /\ running \in BOOLEAN /\ hasRecorder \in BOOLEAN /\ drained \in BOOLEAN
        /\ capturing \in BOOLEAN /\ permission \in BOOLEAN
    BY DEF InputInit
  <2>4. /\ recorder \in RecorderStates
        /\ remain \in 0 .. ReadSize /\ written \in 0 .. MaxRecorded
    BY InputAssumption DEF InputInit, RecorderStates
  <2>5. QED
    BY <1>1, <2>1, <2>2, <2>3, <2>4 DEF InputTypeOK
<1>3. PendingOK /\ RemainOK
  BY InputAssumption DEF InputInit, PendingOK, Copying, RemainOK
<1>4. Accounting
  BY <1>1 DEF InputInit, Accounting
<1>5. QED
  BY <1>1, <1>2, <1>3, <1>4 DEF RingInv

LEMMA ReadRingInv == RingInv /\ Read => RingInv'
<1> SUFFICES ASSUME RingInv, Read PROVE RingInv'
  OBVIOUS
<1> USE DEF Read, ringVars, controlVars
<1>1. InputTypeOK'
  BY InputAssumption DEF RingInv, InputTypeOK, RecorderStates
<1>2. (PendingOK /\ RemainOK /\ Consistent(rb))'
  BY InputAssumption DEF RingInv, InputTypeOK, PendingOK, RemainOK, Copying
<1>3. Accounting'
  BY DEF RingInv, Accounting
<1>4. QED
  BY <1>1, <1>2, <1>3 DEF RingInv

LEMMA ReserveRingInv == RingInv /\ Reserve => RingInv'
<1> SUFFICES ASSUME RingInv, Reserve PROVE RingInv'
  OBVIOUS
<1> USE DEF Reserve, ringVars, controlVars
<1>1. CASE recorder' = "copy"
  <2>1. /\ ~rb.full /\ remain > 0 /\ remain \in Nat
        /\ region' = Cut(BeginWrite(rb), remain) /\ rb' = rb /\ remain' = remain
        /\ rb \in Ring /\ Consistent(rb) /\ Capacity \in Nat
    BY <1>1, CapacityAssumption, InputAssumption DEF RingInv, InputTypeOK, RemainOK
  <2>2. Size(rb) < Capacity /\ Size(rb) \in Nat
    BY <2>1, SizeIs DEF Ring, Index
  <2>3. /\ region' \in Region
        /\ region'.at = rb.writeIdx
        /\ Length(region') \in 1 .. Capacity - Size(rb)
        /\ Length(region') <= remain
        /\ region'.at + region'.n1 <= Capacity
        /\ region'.n2 > 0 => region'.at + region'.n1 = Capacity
        /\ region'.n2 <= region'.at
    <3> DEFINE g == BeginWrite(rb)
    <3>1. /\ g \in Region /\ g.at = rb.writeIdx /\ Length(g) = Capacity - Size(rb)
          /\ g.at + g.n1 <= Capacity
          /\ g.n2 > 0 => g.at + g.n1 = Capacity
          /\ g.n2 <= g.at
      BY <2>1, BeginWriteIs DEF BeginWrite, Ring, Index
    <3> HIDE DEF g
    <3>2. /\ Cut(g, remain) \in Region
          /\ Cut(g, remain).at = g.at
          /\ Length(Cut(g, remain)) = Least(Length(g), remain)
          /\ Cut(g, remain).n1 <= g.n1 /\ Cut(g, remain).n2 <= g.n2
          /\ Cut(g, remain).n2 > 0 => Cut(g, remain).n1 = g.n1
      BY <2>1, <3>1, CutIs
    <3> DEFINE h == Cut(g, remain)
    <3>3. region' = h
      BY <2>1 DEF g
    <3> HIDE DEF h
    <3>4. QED
      BY <2>1, <2>2, <3>1, <3>2, <3>3 DEF Least, Region, Index, h
  <2>4. InputTypeOK'
    BY <1>1, <2>1, <2>3 DEF RingInv, InputTypeOK, RecorderStates
  <2>5. (PendingOK /\ RemainOK /\ Consistent(rb))'
    BY <1>1, <2>1, <2>3 DEF RingInv, PendingOK, RemainOK, Copying
  <2>6. Accounting'
    BY <1>1 DEF RingInv, Accounting
  <2>7. QED
    BY <2>4, <2>5, <2>6 DEF RingInv
<1>2. CASE recorder' # "copy"
  BY <1>2, InputAssumption
  DEF RingInv, InputTypeOK, RecorderStates, PendingOK, RemainOK, Copying, Accounting
<1>3. QED
  BY <1>1, <1>2

LEMMA CopyRingInv == RingInv /\ Copy => RingInv'
<1> SUFFICES ASSUME RingInv, Copy PROVE RingInv'
  OBVIOUS
<1> USE DEF Copy, controlVars
<1>1. /\ Length(region) \in Nat /\ Length(region) > 0 /\ Length(region) <= remain
      /\ written \in Nat /\ remain \in Nat /\ written + remain <= MaxRecorded
      /\ region \in Region /\ MaxRecorded \in Nat /\ Capacity \in Nat
      /\ remain <= ReadSize
  BY CapacityAssumption, InputAssumption, SMTT(30)
  DEF RingInv, InputTypeOK, RemainOK, PendingOK, Copying, Length, Region
<1>2. recBuffer' \in [Index -> 0 .. MaxRecorded]
  <2>1. ASSUME NEW c \in Index, c \in Cells(region)
        PROVE  OffsetOf(region, c) \in 0 .. Length(region) - 1
    BY <1>1, <2>1, OffsetIs
  <2>2. ASSUME NEW c \in Index
        PROVE  (IF c \in Cells(region) THEN written + 1 + OffsetOf(region, c)
                                       ELSE recBuffer[c]) \in 0 .. MaxRecorded
    BY <1>1, <2>1, <2>2 DEF RingInv, InputTypeOK
  <2>3. QED
    BY <2>2
<1>3. InputTypeOK'
  <2>1. /\ recorder' \in RecorderStates
        /\ remain' \in 0 .. ReadSize /\ written' \in 0 .. MaxRecorded
    BY <1>1, InputAssumption DEF RecorderStates
  <2>2. QED
    BY <1>2, <2>1 DEF RingInv, InputTypeOK
<1>4. (PendingOK /\ RemainOK /\ Consistent(rb))'
  BY <1>1 DEF RingInv, PendingOK, RemainOK, Copying
<1>5. Accounting'
  <2>1. Size(rb) \in Nat /\ Len(delivered) \in Nat
    BY SizeIs, CapacityAssumption DEF RingInv, InputTypeOK
  <2>2. QED
    BY <1>1, <2>1 DEF RingInv, Accounting
<1>6. QED
  BY <1>3, <1>4, <1>5 DEF RingInv

LEMMA CommitRingInv == RingInv /\ Commit => RingInv'
<1> SUFFICES ASSUME RingInv, Commit PROVE RingInv'
  OBVIOUS
<1> USE DEF Commit, controlVars
<1> DEFINE n == Length(region)
<1>1. /\ rb \in Ring /\ Consistent(rb) /\ n \in 1 .. Capacity - Size(rb)
      /\ Capacity \in Nat /\ Size(rb) \in Nat /\ Len(delivered) \in Nat
  BY SizeIs, CapacityAssumption DEF RingInv, InputTypeOK, PendingOK, Copying
<1>2. rb' \in Ring /\ Consistent(rb') /\ Size(rb') = Size(rb) + n
  BY <1>1, EndWriteIs
<1>3. InputTypeOK'
  BY <1>2, CapacityAssumption
  DEF RingInv, InputTypeOK, RecorderStates, NoRegion, Region, Index
<1>4. (PendingOK /\ RemainOK)'
  BY DEF RingInv, InputTypeOK, PendingOK, RemainOK, Copying
<1>5. Accounting'
  BY <1>1, <1>2 DEF RingInv, Accounting
<1>6. QED
  BY <1>2, <1>3, <1>4, <1>5 DEF RingInv

\* Only a prefix of what is readable is removed: a region that was pending stays
\* pending, because nothing else moves m_writeIdx, or the ring became empty.
LEMMA ReadInputRingInv ==
    ASSUME RingInv, NEW k \in 1 .. Capacity, ReadInput(k)
    PROVE  RingInv'
<1> DEFINE r == Cut(BeginRead(rb), k)
<1> USE DEF ReadInput, controlVars
<1>1. /\ rb \in Ring /\ Consistent(rb) /\ Size(rb) \in 0 .. Capacity
      /\ Capacity \in Nat /\ k \in Nat
  BY SizeIs, CapacityAssumption DEF RingInv, InputTypeOK
<1>2. /\ r \in Region /\ Length(r) \in 0 .. Size(rb)
      /\ \A i \in 0 .. Length(r) - 1 : CellAt(r, i) \in Index
  <2> DEFINE g == BeginRead(rb)
  <2>1. /\ g \in Region /\ Length(g) = Size(rb) /\ g.at + g.n1 <= Capacity
        /\ g.n2 <= Capacity
    BY <1>1, BeginReadIs DEF Region
  <2> HIDE DEF g
  <2>2. /\ Cut(g, k) \in Region /\ Cut(g, k).at = g.at
        /\ Length(Cut(g, k)) = Least(Length(g), k)
        /\ Cut(g, k).n1 <= g.n1 /\ Cut(g, k).n2 <= g.n2
    BY <1>1, <2>1, CutIs
  <2> DEFINE h == Cut(g, k)
  <2> HIDE DEF h
  <2>3. /\ h \in Region /\ Length(h) \in 0 .. Size(rb) /\ h.at + h.n1 <= Capacity
    BY <1>1, <2>1, <2>2 DEF h, Least, Region, Index
  <2>4. \A i \in 0 .. Length(h) - 1 : CellAt(h, i) \in Index
    BY <2>3, CellsInRing
  <2>5. QED
    BY <2>3, <2>4 DEF g, h
<1>3. rb' = EndRead(rb, Length(r)) /\ delivered' = delivered \o Contents(r)
  OBVIOUS
<1>4. Contents(r) \in Seq(0 .. MaxRecorded) /\ Len(Contents(r)) = Length(r)
  <2> HIDE DEF r
  <2>1. \A i \in 1 .. Length(r) : recBuffer[CellAt(r, i - 1)] \in 0 .. MaxRecorded
    BY <1>1, <1>2 DEF RingInv, InputTypeOK
  <2>2. Contents(r) \in [1 .. Length(r) -> 0 .. MaxRecorded]
    BY <2>1 DEF Contents
  <2>3. Length(r) \in Nat
    BY <1>1, <1>2
  <2>4. Contents(r) \in Seq(0 .. MaxRecorded)
    BY <2>2, <2>3, SeqDef
  <2>5. QED
    BY <2>2, <2>3, <2>4
<1>5. /\ rb' \in Ring /\ Consistent(rb') /\ Size(rb') = Size(rb) - Length(r)
      /\ Length(r) = 0 => rb' = rb
      /\ Length(r) > 0 /\ Length(r) = Size(rb) => rb' = Cleared
      /\ Length(r) < Size(rb) => rb'.writeIdx = rb.writeIdx
  BY <1>1, <1>2, <1>3, EndReadIs
<1> HIDE DEF r
<1>6. InputTypeOK'
  <2>1. recorder' \in RecorderStates
    BY DEF RingInv, InputTypeOK, RecorderStates, Notify
  <2>2. delivered' \in Seq(0 .. MaxRecorded)
    BY <1>3, <1>4, ConcatProperties DEF RingInv, InputTypeOK
  <2>3. drained' \in BOOLEAN
    BY DEF RingInv, InputTypeOK
  <2>4. QED
    BY <1>5, <2>1, <2>2, <2>3 DEF RingInv, InputTypeOK
<1>7. PendingOK'
  <2>1. Copying' <=> Copying
    BY DEF Copying, Notify
  <2>2. CASE Copying
    <3>1. Copying' /\ region' = region
      BY <2>1, <2>2
    <3>2. /\ Length(region) \in 1 .. Capacity - Size(rb)
          /\ region.at + region.n1 <= Capacity
          /\ region.n2 > 0 => region.at + region.n1 = Capacity
          /\ region.n2 <= region.at
          /\ Size(rb) > 0 => region.at = rb.writeIdx
      BY <2>2 DEF RingInv, PendingOK
    <3>3. Length(region) \in 1 .. Capacity - Size(rb)'
      BY <1>1, <1>2, <1>5, <3>2
    <3>4. Size(rb)' > 0 => rb'.writeIdx = rb.writeIdx /\ Size(rb) > 0
      BY <1>1, <1>2, <1>5
    <3>5. QED
      BY <3>1, <3>2, <3>3, <3>4 DEF PendingOK
  <2>3. QED
    BY <2>1, <2>2 DEF PendingOK
<1>8. RemainOK'
  BY DEF RingInv, RemainOK, Notify
<1>9. Accounting'
  <2>1. Len(delivered') = Len(delivered) + Length(r) /\ Len(delivered) \in Nat
    BY <1>3, <1>4, ConcatProperties, LenProperties DEF RingInv, InputTypeOK
  <2>2. recorder' = "commit" <=> recorder = "commit"
    BY DEF Notify
  <2>3. QED
    <3>1. Size(rb)' = Size(rb) - Length(r) /\ written' = written /\ region' = region
      BY <1>5
    <3>2. QED
      BY <1>1, <1>2, <2>1, <2>2, <3>1 DEF RingInv, Accounting
<1>10. QED
  BY <1>5, <1>6, <1>7, <1>8, <1>9 DEF RingInv

\* The UI thread leaves the ring alone, or replaces it when no thread uses it.
LEMMA ControlRingInv ==
    ASSUME RingInv, ControlInv,
           \/ \E b \in BOOLEAN : EnableInput(b) \/ InputPermissionChanged(b)
           \/ UpdateInputSettings
           \/ StopStep
    PROVE  RingInv'
<1>1. CASE \E b \in BOOLEAN : EnableInput(b)
  <2> PICK b \in BOOLEAN : EnableInput(b)
    BY <1>1
  <2> USE DEF EnableInput, ringVars, Stopping, StartInputBufferFillingThread
  <2>1. InputTypeOK'
    <3>1. owner' \in Owners
      BY DEF RingInv, InputTypeOK, Owners
    <3>2. recorder' \in RecorderStates /\ running' \in BOOLEAN
      BY DEF RingInv, InputTypeOK, RecorderStates
    <3>3. QED
      BY <3>1, <3>2 DEF RingInv, InputTypeOK
  <2>2. recorder' = recorder \/ (recorder' = "read" /\ recorder = "none")
    BY DEF RingInv, InputTypeOK, ControlInv
  <2>3. (Consistent(rb) /\ PendingOK /\ RemainOK /\ Accounting)'
    BY <2>2 DEF RingInv, PendingOK, RemainOK, Accounting, Copying
  <2>4. QED
    BY <2>1, <2>3 DEF RingInv
<1>2. CASE UpdateInputSettings \/ \E b \in BOOLEAN : InputPermissionChanged(b)
  <2> USE <1>2 DEF UpdateInputSettings, InputPermissionChanged, Stopping, ringVars, controlVars
  <2>1. InputTypeOK'
    <3>1. owner' \in Owners
      BY DEF Owners
    <3>2. permission' \in BOOLEAN /\ running' \in BOOLEAN
      BY DEF RingInv, InputTypeOK
    <3>3. QED
      BY <3>1, <3>2 DEF RingInv, InputTypeOK
  <2>2. (Consistent(rb) /\ PendingOK /\ RemainOK /\ Accounting)'
    BY DEF RingInv, PendingOK, RemainOK, Accounting, Copying
  <2>3. QED
    BY <2>1, <2>2 DEF RingInv
<1>3. CASE StopNotify
  <2> USE <1>3 DEF StopNotify, ringVars, controlVars, Notify
  <2>1. InputTypeOK'
    <3>1. owner' \in Owners /\ recorder' \in RecorderStates
      BY DEF RingInv, InputTypeOK, Owners, RecorderStates
    <3>2. QED
      BY <3>1 DEF RingInv, InputTypeOK
  <2>2. (Consistent(rb) /\ PendingOK /\ RemainOK /\ Accounting)'
    BY DEF RingInv, PendingOK, RemainOK, Accounting, Copying
  <2>3. QED
    BY <2>1, <2>2 DEF RingInv
<1>4. CASE StopJoin
  <2> USE <1>4 DEF StopJoin, ringVars, StartInputBufferFillingThread
  <2>1. owner' \in Owners /\ recorder' \in {"none", "read"} /\ recorder \in {"none", "done"}
    BY DEF RingInv, InputTypeOK, Owners
  <2>2. hasRecorder' \in BOOLEAN /\ running' \in BOOLEAN
    BY DEF RingInv, InputTypeOK
  <2>3. \/ EmptyRing
        \/ UNCHANGED <<rb, recBuffer, written, delivered, drained>>
    OBVIOUS
  <2>4. CASE EmptyRing
    <3>1. /\ rb' \in Ring /\ Consistent(rb') /\ Size(rb') = 0
      <4>1. rb' \in Ring /\ Consistent(rb')
        BY <2>4, CapacityAssumption DEF EmptyRing, Cleared, Ring, Index, Consistent
      <4>2. QED
        BY <2>4, <4>1, SizeIs DEF EmptyRing, Cleared
    <3>2. /\ recBuffer' \in [Index -> 0 .. MaxRecorded] /\ written' \in 0 .. MaxRecorded
          /\ delivered' \in Seq(0 .. MaxRecorded) /\ drained' \in BOOLEAN
      <4>1. recBuffer' \in [Index -> 0 .. MaxRecorded] /\ written' \in 0 .. MaxRecorded
        BY <2>4, InputAssumption DEF EmptyRing
      <4>2. delivered' \in Seq(0 .. MaxRecorded)
        BY <2>4 DEF EmptyRing
      <4>3. drained' \in BOOLEAN
        BY <2>4 DEF EmptyRing
      <4>4. QED
        BY <4>1, <4>2, <4>3
    <3>3. InputTypeOK'
      BY <2>1, <2>2, <3>1, <3>2 DEF RingInv, InputTypeOK, RecorderStates
    <3>4. PendingOK' /\ RemainOK'
      BY <2>1, <2>4, InputAssumption
      DEF RingInv, InputTypeOK, PendingOK, RemainOK, Copying, EmptyRing
    <3>5. Accounting'
      BY <2>1, <2>4, <3>1 DEF EmptyRing, Accounting
    <3>6. QED
      BY <3>1, <3>3, <3>4, <3>5 DEF RingInv
  <2>5. CASE UNCHANGED <<rb, recBuffer, written, delivered, drained>>
    <3>1. InputTypeOK'
      BY <2>1, <2>2, <2>5 DEF RingInv, InputTypeOK, RecorderStates
    <3>2. (Consistent(rb) /\ PendingOK /\ RemainOK /\ Accounting)'
      BY <2>1, <2>5 DEF RingInv, PendingOK, RemainOK, Accounting, Copying
    <3>3. QED
      BY <3>1, <3>2 DEF RingInv
  <2>6. QED
    BY <2>3, <2>4, <2>5
<1>5. QED
  BY <1>1, <1>2, <1>3, <1>4 DEF StopStep

\* A thread runs exactly while capture is on and there is a recorder, except
\* from the moment a stop began until its join returned.
LEMMA InitControlInv == InputInit => ControlInv
BY DEF InputInit, ControlInv, Free

LEMMA StepControlInv == InputTypeOK /\ ControlInv /\ [InputNext]_inputVars => ControlInv'
<1> SUFFICES ASSUME InputTypeOK, ControlInv, [InputNext]_inputVars PROVE ControlInv'
  OBVIOUS
<1> USE DEF InputTypeOK, Owners, ControlInv, Free
<1>1. CASE Read
  BY <1>1 DEF Read, ringVars, controlVars
<1>2. CASE Reserve
  BY <1>2 DEF Reserve, ringVars, controlVars
<1>3. CASE Copy
  BY <1>3 DEF Copy, ringVars, controlVars
<1>4. CASE Commit
  BY <1>4 DEF Commit, ringVars, controlVars
<1>5. ASSUME NEW k \in 1 .. Capacity, ReadInput(k) PROVE ControlInv'
  BY <1>5 DEF ReadInput, Notify, controlVars
<1>6. ASSUME NEW b \in BOOLEAN, EnableInput(b) PROVE ControlInv'
  BY <1>6 DEF EnableInput, Stopping, StartInputBufferFillingThread, ringVars
<1>7. ASSUME NEW b \in BOOLEAN, InputPermissionChanged(b) PROVE ControlInv'
  BY <1>7 DEF InputPermissionChanged, Stopping, ringVars
<1>8. CASE UpdateInputSettings
  BY <1>8 DEF UpdateInputSettings, Stopping, ringVars, controlVars
<1>9. CASE StopNotify
  BY <1>9 DEF StopNotify, Notify, ringVars, controlVars
<1>10. CASE StopJoin
  BY <1>10 DEF StopJoin, StartInputBufferFillingThread, ringVars
<1>11. CASE UNCHANGED inputVars
  BY <1>11 DEF inputVars, ringVars, threadVars, controlVars
<1>12. QED
  BY <1>1, <1>2, <1>3, <1>4, <1>5, <1>6, <1>7, <1>8, <1>9, <1>10, <1>11
  DEF InputNext, RecorderStep, StopStep

-----------------------------------------------------------------------------

\* A pending region and the readable cells are disjoint.
LEMMA PendingIsFree == RingInv => NoOverlap
<1> SUFFICES ASSUME RingInv, Copying, NEW c \in Cells(region), c \in Cells(BeginRead(rb))
             PROVE  FALSE
  BY DEF NoOverlap
<1>1. /\ rb \in Ring /\ Consistent(rb) /\ Capacity \in Nat /\ region \in Region
      /\ rb.readIdx \in Index /\ rb.writeIdx \in Index
  BY CapacityAssumption DEF RingInv, InputTypeOK, Ring
<1>2. /\ Length(region) \in 1 .. Capacity - Size(rb)
      /\ region.n2 > 0 => region.at + region.n1 = Capacity
      /\ region.n2 <= region.at
      /\ Size(rb) > 0 => region.at = rb.writeIdx
  BY DEF RingInv, PendingOK
<1>3. region.at \in Nat /\ region.n1 \in Nat /\ region.n2 \in Nat
  BY <1>1 DEF Region, Index
<1>4. CASE Size(rb) = 0
  <2>1. BeginRead(rb).n1 = 0 /\ BeginRead(rb).n2 = 0 /\ BeginRead(rb).at \in Int
    <3>1. BeginRead(rb) \in Region /\ Length(BeginRead(rb)) = 0
      BY <1>1, <1>4, BeginReadIs
    <3>2. QED
      BY <3>1 DEF Region, Index, Length
  <2>2. QED
    BY <2>1 DEF Cells
<1>5. CASE Size(rb) > 0
  <2>1. ~rb.full
    BY <1>1, <1>2, SizeIs DEF Length, Index
  <2>2. Size(rb) = IF rb.readIdx <= rb.writeIdx THEN rb.writeIdx - rb.readIdx
                   ELSE rb.writeIdx - rb.readIdx + Capacity
    BY <1>1, <2>1, SizeIs
  <2>3. CASE rb.readIdx <= rb.writeIdx
    <3>1. rb.readIdx <= c /\ c < rb.writeIdx
      BY <1>1, <1>5, <2>1, <2>2, <2>3 DEF Cells, BeginRead, Index
    <3>2. c \in 0 .. region.n2 - 1
      BY <1>1, <1>2, <1>3, <1>5, <3>1 DEF Cells, Index
    <3>3. QED
      BY <1>1, <1>2, <1>3, <1>5, <2>2, <2>3, <3>1, <3>2 DEF Length, Index
  <2>4. CASE rb.readIdx > rb.writeIdx
    <3>1. c >= rb.readIdx \/ c < rb.writeIdx
      BY <1>1, <2>1, <2>4 DEF Cells, BeginRead, Index
    <3>2. region.n1 + region.n2 <= rb.readIdx - rb.writeIdx
      BY <1>1, <1>2, <1>3, <2>2, <2>4 DEF Length, Index
    <3>3. QED
      BY <1>1, <1>2, <1>3, <1>5, <2>4, <3>1, <3>2 DEF Cells, Index
  <2>5. QED
    BY <1>1, <2>3, <2>4 DEF Index
<1>6. QED
  BY <1>1, <1>4, <1>5, SizeIs

\* The invariant the ring and the threads keep together.
Inv == RingInv /\ ControlInv

THEOREM InvHolds == InputSpec => []Inv
<1>1. InputInit => Inv
  BY InitRingInv, InitControlInv DEF Inv
<1>2. Inv /\ [InputNext]_inputVars => Inv'
  <2> SUFFICES ASSUME Inv, [InputNext]_inputVars PROVE Inv'
    OBVIOUS
  <2>1. ControlInv'
    BY StepControlInv DEF Inv, RingInv
  <2>2. ASSUME RecorderStep PROVE RingInv'
    BY <2>2, ReadRingInv, ReserveRingInv, CopyRingInv, CommitRingInv
    DEF Inv, RecorderStep
  <2>3. ASSUME NEW k \in 1 .. Capacity, ReadInput(k) PROVE RingInv'
    BY <2>3, ReadInputRingInv DEF Inv
  <2>4. ASSUME \/ \E b \in BOOLEAN : EnableInput(b) \/ InputPermissionChanged(b)
               \/ UpdateInputSettings
               \/ StopStep
        PROVE  RingInv'
    BY <2>4, ControlRingInv DEF Inv
  <2>5. ASSUME UNCHANGED inputVars PROVE RingInv'
    BY <2>5 DEF Inv, RingInv, InputTypeOK, PendingOK, RemainOK, Copying, Accounting,
                inputVars, ringVars, threadVars, controlVars
  <2>6. QED
    BY <2>1, <2>2, <2>3, <2>4, <2>5 DEF InputNext, Inv
<1>3. QED
  BY <1>1, <1>2, PTL DEF InputSpec

\* Type correctness, for every capacity: no index ever leaves the ring.
THEOREM TypeCorrect == InputSpec => []InputTypeOK
<1>1. Inv => InputTypeOK
  BY DEF Inv, RingInv
<1>2. QED
  BY <1>1, InvHolds, PTL

\* The unlocked copy and the reader never touch the same cell.
THEOREM UnlockedCopyIsSafe == InputSpec => []NoOverlap
<1>1. Inv => NoOverlap
  BY PendingIsFree DEF Inv
<1>2. QED
  BY <1>1, InvHolds, PTL

\* The number of samples is kept even when the indices were reset under a copy.
THEOREM SamplesAreCounted == InputSpec => []Accounting
<1>1. Inv => Accounting
  BY DEF Inv, RingInv
<1>2. QED
  BY <1>1, InvHolds, PTL

\* The recorder's thread never outlives the recorder and the buffers that it uses
\* without a lock.
THEOREM ThreadNeverOutlivesRecorder == InputSpec => []ThreadHasRecorder
<1>1. Inv => ThreadHasRecorder
  BY DEF Inv, RingInv, ControlInv, ThreadHasRecorder
<1>2. QED
  BY <1>1, InvHolds, PTL

\* The microphone that is on is read by a live thread, and one that is off by none,
\* after any switching.
THEOREM MicrophoneIsServed == InputSpec => []CapturingIsServed
<1>1. Inv => CapturingIsServed
  BY DEF Inv, RingInv, ControlInv, CapturingIsServed
<1>2. QED
  BY <1>1, InvHolds, PTL

\* The recorder's thread never sleeps without a reason.
THEOREM RecorderIsWoken == InputSpec => []NoLostWakeup
<1>1. Inv => NoLostWakeup
  BY DEF Inv, RingInv, ControlInv, NoLostWakeup
<1>2. QED
  BY <1>1, InvHolds, PTL

-----------------------------------------------------------------------------
\* The order of the samples.

LEMMA InitFifoInv == InputInit => FifoInv
<1> SUFFICES ASSUME InputInit PROVE FifoInv
  OBVIOUS
<1>1. Size(rb) = 0 /\ Len(delivered) = 0
  BY InitRingInv, SizeIs DEF InputInit, RingInv, InputTypeOK, Cleared
<1>2. QED
  BY <1>1 DEF InputInit, FifoInv, FifoUnlessDrained, Copying

LEMMA ReserveFifoInv == Inv /\ FifoInv /\ Reserve => FifoInv'
<1> SUFFICES ASSUME Inv, FifoInv, Reserve PROVE FifoInv'
  OBVIOUS
<1>1. CASE recorder' = "copy"
  <2>1. region' = Cut(BeginWrite(rb), remain) /\ remain \in Nat
    BY <1>1, InputAssumption DEF Reserve, Inv, RingInv, InputTypeOK
  <2>2. region'.at = rb.writeIdx
    BY <2>1, BeginWriteIs, CutIs DEF Inv, RingInv, InputTypeOK
  <2>3. QED
    BY <1>1, <2>2 DEF Reserve, ringVars, FifoInv, FifoUnlessDrained
<1>2. CASE recorder' # "copy"
  BY <1>2 DEF Reserve, ringVars, FifoInv, FifoUnlessDrained, Copying
<1>3. QED
  BY <1>1, <1>2

\* The copy changes no readable cell, and puts the next samples behind them.
LEMMA CopyFifoInv == Inv /\ FifoInv /\ Copy => FifoInv'
<1> SUFFICES ASSUME Inv, FifoInv, Copy PROVE FifoInv'
  OBVIOUS
<1> SUFFICES ASSUME ~drained PROVE FifoInv'
  BY DEF FifoInv, Copy
<1>1. /\ rb \in Ring /\ Consistent(rb) /\ Capacity \in Nat /\ region \in Region
      /\ rb.readIdx \in Index /\ rb.writeIdx \in Index /\ Size(rb) \in 0 .. Capacity
      /\ written \in Nat /\ recBuffer' = [c \in Index |-> IF c \in Cells(region)
                                                   THEN written + 1 + OffsetOf(region, c)
                                                   ELSE recBuffer[c]]
  BY CapacityAssumption, InputAssumption, SizeIs DEF Inv, RingInv, InputTypeOK, Ring, Copy
<1>2. /\ Copying /\ region.at = rb.writeIdx
      /\ Length(region) \in 1 .. Capacity - Size(rb)
      /\ region.at + region.n1 <= Capacity
      /\ region.n2 > 0 => region.at + region.n1 = Capacity
      /\ region.n2 <= region.at
  BY DEF Inv, RingInv, PendingOK, FifoInv, Copying, Copy
<1>3. ASSUME NEW i \in 0 .. Size(rb) - 1
      PROVE  recBuffer'[Behind(rb.readIdx, i)] = recBuffer[Behind(rb.readIdx, i)]
  <2>1. /\ BeginRead(rb) \in Region /\ Length(BeginRead(rb)) = Size(rb)
        /\ BeginRead(rb).at = rb.readIdx
    BY <1>1, BeginReadIs
  <2>2. Behind(rb.readIdx, i) \in Index /\ Behind(rb.readIdx, i) \in Cells(BeginRead(rb))
    BY <1>1, <1>3, <2>1, BeginReadIs, CellIsBehind
  <2>3. Behind(rb.readIdx, i) \notin Cells(region)
    BY <1>2, <2>2, PendingIsFree DEF Inv, NoOverlap
  <2>4. QED
    BY <1>1, <2>2, <2>3
<1>4. ASSUME NEW i \in 0 .. Length(region) - 1
      PROVE  recBuffer'[Behind(region.at, i)] = written + 1 + i
  <2>1. /\ Behind(region.at, i) \in Index
        /\ Behind(region.at, i) \in Cells(region)
        /\ OffsetOf(region, Behind(region.at, i)) = i
    BY <1>1, <1>2, <1>4, CellIsBehind
  <2>2. QED
    BY <1>1, <2>1
<1>5. /\ written' = written + Length(region) /\ Length(region) \in Nat
      /\ rb' = rb /\ region' = region /\ delivered' = delivered /\ drained' = drained
  BY <1>1, <1>2 DEF Copy
<1>6. ASSUME NEW i \in 0 .. Length(region) - 1
      PROVE  recBuffer'[Behind(region.at, i)] = written' - Length(region) + 1 + i
  BY <1>1, <1>4, <1>5
<1>7. FifoUnlessDrained' /\ \A i \in 0 .. Size(rb) - 1 :
                               recBuffer[Behind(rb.readIdx, i)] = Len(delivered) + 1 + i
  BY <1>5 DEF FifoInv, FifoUnlessDrained
<1>8. QED
  BY <1>2, <1>3, <1>5, <1>6, <1>7 DEF FifoInv

\* The committed samples become the last readable ones.
LEMMA CommitFifoInv == Inv /\ FifoInv /\ Commit => FifoInv'
<1> SUFFICES ASSUME Inv, FifoInv, Commit PROVE FifoInv'
  OBVIOUS
<1> SUFFICES ASSUME ~drained PROVE FifoInv'
  BY DEF FifoInv, Commit
<1> DEFINE n == Length(region)
<1>1. /\ rb \in Ring /\ Consistent(rb) /\ n \in 1 .. Capacity - Size(rb)
      /\ Capacity \in Nat /\ Size(rb) \in 0 .. Capacity /\ Len(delivered) \in Nat
      /\ written \in Nat /\ rb.readIdx \in Index /\ rb.writeIdx \in Index
      /\ region.at = rb.writeIdx
      /\ written = Len(delivered) + Size(rb) + n
  BY SizeIs, CapacityAssumption, InputAssumption
  DEF Inv, RingInv, InputTypeOK, PendingOK, Copying, Commit, Ring, Accounting, FifoInv
<1>2. rb'.readIdx = rb.readIdx /\ Size(rb') = Size(rb) + n
  BY <1>1, EndWriteIs DEF Commit
<1>3. recBuffer' = recBuffer /\ delivered' = delivered /\ ~Copying' /\ recorder' # "commit"
  BY DEF Commit, Copying
<1>4. ASSUME NEW i \in 0 .. Size(rb') - 1
      PROVE  recBuffer[Behind(rb'.readIdx, i)] = Len(delivered) + 1 + i
  <2>1. CASE i < Size(rb)
    BY <1>1, <1>2, <1>4, <2>1 DEF FifoInv
  <2>2. CASE i >= Size(rb)
    <3> DEFINE j == i - Size(rb)
    <3>1. j \in 0 .. n - 1 /\ j \in Nat /\ Size(rb) < Capacity /\ i = Size(rb) + j
      BY <1>1, <1>2, <1>4, <2>2
    <3> HIDE DEF j
    <3>2. rb.writeIdx = Behind(rb.readIdx, Size(rb))
      BY <1>1, <3>1, WriteIsBehindRead
    <3>3. Behind(rb.writeIdx, j) = Behind(rb.readIdx, i)
      BY <1>1, <3>1, <3>2, BehindBehind
    <3>4. recBuffer[Behind(rb.writeIdx, j)] = written - n + 1 + j
      BY <1>1, <3>1 DEF FifoInv, Commit
    <3>5. n \in Nat /\ Size(rb) \in Nat /\ j \in Nat /\ Len(delivered) \in Nat
      BY <1>1, <3>1
    <3>6. written = Len(delivered) + Size(rb) + n /\ i = Size(rb) + j
      BY <1>1, <3>1
    <3>7. written - n + 1 + j = Len(delivered) + 1 + i
      BY <3>5, <3>6, SMTT(30)
    <3>8. QED
      BY <1>1, <1>2, <3>3, <3>4, <3>7
  <2>3. QED
    BY <1>1, <1>4, <2>1, <2>2
<1>5. FifoUnlessDrained'
  BY <1>3 DEF FifoInv, FifoUnlessDrained, Commit
<1>6. QED
  BY <1>3, <1>4, <1>5 DEF FifoInv

\* What is popped follows what was delivered.
LEMMA ReadInputFifoInv ==
    ASSUME Inv, FifoInv, NEW k \in 1 .. Capacity, ReadInput(k)
    PROVE  FifoInv'
<1> SUFFICES ASSUME ~drained' PROVE FifoInv'
  BY DEF FifoInv
<1> DEFINE r == Cut(BeginRead(rb), k)
<1>1. /\ rb \in Ring /\ Consistent(rb) /\ Size(rb) \in 0 .. Capacity
      /\ Capacity \in Nat /\ k \in Nat /\ Len(delivered) \in Nat
      /\ rb.readIdx \in Index
  BY SizeIs, CapacityAssumption DEF Inv, RingInv, InputTypeOK, Ring
<1>2. /\ rb' = EndRead(rb, Length(r)) /\ delivered' = delivered \o Contents(r)
      /\ recBuffer' = recBuffer /\ region' = region /\ written' = written
      /\ ~drained
      /\ ~(Length(r) > 0 /\ Length(r) = Size(rb) /\ recorder \in {"copy", "commit"})
      /\ recorder' = recorder \/ (recorder = "asleep" /\ recorder' = "loop")
  BY DEF ReadInput, Notify, controlVars
<1>3. /\ r \in Region /\ Length(r) \in 0 .. Size(rb) /\ r.at = rb.readIdx
      /\ r.at + r.n1 <= Capacity /\ r.n2 <= r.at
      /\ r.n2 > 0 => r.at + r.n1 = Capacity
  <2> DEFINE g == BeginRead(rb)
  <2>1. /\ g \in Region /\ Length(g) = Size(rb) /\ g.at = rb.readIdx
        /\ g.at + g.n1 <= Capacity /\ g.n2 <= g.at
        /\ g.n2 > 0 => g.at + g.n1 = Capacity
    BY <1>1, BeginReadIs
  <2> HIDE DEF g
  <2> DEFINE h == Cut(g, k)
  <2>2. /\ h \in Region /\ h.at = g.at
        /\ Length(h) = Least(Length(g), k)
        /\ h.n1 <= g.n1 /\ h.n2 <= g.n2
        /\ h.n2 > 0 => h.n1 = g.n1
    BY <1>1, <2>1, CutIs
  <2> HIDE DEF h
  <2>3. /\ h \in Region /\ Length(h) \in 0 .. Size(rb) /\ h.at = rb.readIdx
        /\ h.at + h.n1 <= Capacity /\ h.n2 <= h.at
        /\ h.n2 > 0 => h.at + h.n1 = Capacity
    BY <1>1, <2>1, <2>2, SMTT(30) DEF Least, Region, Index
  <2>4. QED
    BY <2>3 DEF g, h
<1> HIDE DEF r
<1>4. ASSUME NEW i \in 1 .. Length(r)
      PROVE  Contents(r)[i] = Len(delivered) + i
  <2>1. i - 1 \in 0 .. Length(r) - 1 /\ i - 1 \in 0 .. Size(rb) - 1
    BY <1>1, <1>3, <1>4
  <2>2. Contents(r)[i] = recBuffer[CellAt(r, i - 1)]
    BY <1>4 DEF Contents
  <2>3. CellAt(r, i - 1) = Behind(rb.readIdx, i - 1)
    BY <1>3, <2>1, CellIsBehind
  <2>4. recBuffer[Behind(rb.readIdx, i - 1)] = Len(delivered) + 1 + (i - 1)
    BY <1>2, <2>1 DEF FifoInv
  <2>5. QED
    BY <1>1, <2>1, <2>2, <2>3, <2>4
<1>5. /\ Len(delivered') = Len(delivered) + Length(r)
      /\ \A i \in 1 .. Len(delivered') : delivered'[i] = i
  <2>1. Contents(r) \in Seq(Nat) /\ Len(Contents(r)) = Length(r)
    <3>1. Contents(r) \in [1 .. Length(r) -> Nat] /\ Length(r) \in Nat
      BY <1>1, <1>3, <1>4 DEF Contents
    <3>2. Contents(r) \in Seq(Nat)
      BY <3>1, SeqDef
    <3>3. QED
      BY <3>1, <3>2
  <2>2. delivered \in Seq(Nat)
    BY SeqMonotonic, InputAssumption DEF Inv, RingInv, InputTypeOK
  <2>3. /\ Len(delivered') = Len(delivered) + Length(r)
        /\ \A i \in 1 .. Len(delivered) + Length(r) :
              delivered'[i] = IF i <= Len(delivered) THEN delivered[i]
                              ELSE Contents(r)[i - Len(delivered)]
    BY <1>2, <2>1, <2>2, ConcatProperties
  <2>4. \A i \in 1 .. Len(delivered) : delivered[i] = i
    BY <1>2 DEF FifoInv, FifoUnlessDrained
  <2>5. ASSUME NEW i \in 1 .. Len(delivered) + Length(r) PROVE delivered'[i] = i
    <3>1. Length(r) \in Nat
      BY <1>1, <1>3
    <3>2. CASE i <= Len(delivered)
      BY <1>1, <2>3, <2>4, <2>5, <3>1, <3>2
    <3>3. CASE i > Len(delivered)
      <4>1. i - Len(delivered) \in 1 .. Length(r)
        BY <1>1, <2>5, <3>1, <3>3
      <4>2. Contents(r)[i - Len(delivered)] = Len(delivered) + (i - Len(delivered))
        BY <1>4, <4>1
      <4>3. Len(delivered) + (i - Len(delivered)) = i
        BY <1>1, <2>5, <3>1
      <4>4. delivered'[i] = Contents(r)[i - Len(delivered)]
        BY <1>1, <2>3, <2>5, <3>1, <3>3
      <4>5. QED
        BY <4>2, <4>3, <4>4
    <3>4. QED
      BY <1>1, <2>5, <3>1, <3>2, <3>3
  <2>6. QED
    BY <2>3, <2>5
<1>6. ASSUME NEW i \in 0 .. Size(rb') - 1
      PROVE  recBuffer[Behind(rb'.readIdx, i)] = Len(delivered') + 1 + i
  <2>1. Size(rb') = Size(rb) - Length(r) /\ i \in Nat /\ Length(r) \in Nat
    BY <1>1, <1>2, <1>3, <1>6, EndReadIs
  <2>2. Length(r) < Size(rb) /\ Length(r) + i \in 0 .. Size(rb) - 1
    BY <1>1, <1>3, <1>6, <2>1
  <2>3. rb'.readIdx = Behind(rb.readIdx, Length(r))
    BY <1>1, <1>2, <1>3, <2>2, EndReadIs DEF Behind
  <2>4. Behind(rb'.readIdx, i) = Behind(rb.readIdx, Length(r) + i)
    BY <1>1, <1>3, <2>1, <2>2, <2>3, BehindBehind
  <2>5. recBuffer[Behind(rb.readIdx, Length(r) + i)] = Len(delivered) + 1 + (Length(r) + i)
    BY <1>2, <2>2 DEF FifoInv
  <2>6. QED
    BY <1>1, <1>5, <2>1, <2>4, <2>5
<1>7. ASSUME Copying' PROVE region.at = rb'.writeIdx
  <2>1. Copying /\ recorder \in {"copy", "commit"}
    BY <1>2, <1>7 DEF Copying
  <2>2. region.at = rb.writeIdx
    BY <1>2, <2>1 DEF FifoInv
  <2>3. Length(r) = 0 \/ Length(r) < Size(rb)
    BY <1>1, <1>2, <1>3, <2>1
  <2>4. rb'.writeIdx = rb.writeIdx
    BY <1>1, <1>2, <1>3, <2>3, EndReadIs
  <2>5. QED
    BY <2>2, <2>4
<1>8. ASSUME recorder' = "commit", NEW i \in 0 .. Length(region) - 1
      PROVE  recBuffer[Behind(region.at, i)] = written - Length(region) + 1 + i
  BY <1>2, <1>8 DEF FifoInv
<1>9. QED
  BY <1>2, <1>5, <1>6, <1>7, <1>8 DEF FifoInv, FifoUnlessDrained

\* Every other step leaves the ring as it is, or starts it anew.
LEMMA OtherFifoInv ==
    ASSUME Inv, FifoInv,
           \/ Read
           \/ \E b \in BOOLEAN : EnableInput(b) \/ InputPermissionChanged(b)
           \/ UpdateInputSettings
           \/ StopStep
           \/ UNCHANGED inputVars
    PROVE  FifoInv'
<1>1. ASSUME UNCHANGED <<rb, recBuffer, delivered, drained, region, written>>,
             recorder' = "commit" => recorder = "commit",
             Copying' => Copying
      PROVE  FifoInv'
  BY <1>1 DEF FifoInv, FifoUnlessDrained
<1>2. CASE Read
  BY <1>1, <1>2 DEF Read, ringVars, Copying
<1>3. CASE \E b \in BOOLEAN : EnableInput(b) \/ InputPermissionChanged(b)
  BY <1>1, <1>3 DEF EnableInput, InputPermissionChanged,
                    StartInputBufferFillingThread, Stopping, ringVars, Copying
<1>4. CASE UpdateInputSettings \/ StopNotify
  BY <1>1, <1>4 DEF UpdateInputSettings, StopNotify, Notify, Stopping, ringVars, Copying
<1>5. CASE StopJoin
  <2>1. recorder' \in {"none", "read"} /\ region' = region
    BY <1>5 DEF StopJoin, StartInputBufferFillingThread
  <2>2. CASE EmptyRing
    <3>1. rb' \in Ring /\ Consistent(rb')
      BY <2>2, CapacityAssumption DEF EmptyRing, Cleared, Ring, Index, Consistent
    <3>2. Size(rb') = 0 /\ Len(delivered') = 0
      BY <2>2, <3>1, SizeIs DEF EmptyRing, Cleared
    <3>3. QED
      BY <2>1, <3>2 DEF FifoInv, FifoUnlessDrained, Copying
  <2>3. CASE UNCHANGED ringVars
    BY <1>1, <2>1, <2>3 DEF ringVars, Copying
  <2>4. QED
    BY <1>5, <2>2, <2>3 DEF StopJoin
<1>6. CASE UNCHANGED inputVars
  BY <1>1, <1>6 DEF inputVars, ringVars, threadVars, Copying
<1>7. QED
  BY <1>2, <1>3, <1>4, <1>5, <1>6 DEF StopStep

\* ReadInput returns the recorded samples in order unless it empties the ring
\* under a copy: for every capacity and however the reads fall.
THEOREM SamplesStayInOrder == InputSpec => []FifoUnlessDrained
<1>1. InputInit => Inv /\ FifoInv
  BY InitRingInv, InitControlInv, InitFifoInv DEF Inv
<1>2. Inv /\ FifoInv /\ [InputNext]_inputVars => FifoInv'
  <2> SUFFICES ASSUME Inv, FifoInv, [InputNext]_inputVars PROVE FifoInv'
    OBVIOUS
  <2>1. CASE Reserve \/ Copy \/ Commit
    BY <2>1, ReserveFifoInv, CopyFifoInv, CommitFifoInv
  <2>2. ASSUME NEW k \in 1 .. Capacity, ReadInput(k) PROVE FifoInv'
    BY <2>2, ReadInputFifoInv
  <2>3. CASE \/ Read
             \/ \E b \in BOOLEAN : EnableInput(b) \/ InputPermissionChanged(b)
             \/ UpdateInputSettings
             \/ StopStep
             \/ UNCHANGED inputVars
    BY <2>3, OtherFifoInv
  <2>4. QED
    BY <2>1, <2>2, <2>3 DEF InputNext, RecorderStep
<1>3. FifoInv => FifoUnlessDrained
  BY DEF FifoInv, FifoUnlessDrained
<1>4. QED
  BY <1>1, <1>2, <1>3, InvHolds, PTL DEF InputSpec

=============================================================================
