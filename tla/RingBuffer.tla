----------------------------- MODULE RingBuffer -----------------------------
(***************************************************************************)
(* The index arithmetic of Nes::Core::RingBuffer<T>                        *)
(* (source/core/NstRingBuffer.hpp), as operators on a record               *)
(*                                                                         *)
(*     [readIdx |-> m_readIdx, writeIdx |-> m_writeIdx, full |-> m_full]   *)
(*                                                                         *)
(* A region is what BeginWrite and BeginRead hand to their caller as two   *)
(* pointers and two sizes: n1 cells from index "at", then n2 cells from    *)
(* index 0.  The caller copies into or out of the region and gives the     *)
(* sizes back to EndWrite or EndRead.  The class takes no lock of its own; *)
(* who holds one across which calls is the business of the modules that    *)
(* use this one.                                                           *)
(***************************************************************************)
EXTENDS Integers

CONSTANT Capacity    \* m_capacity, in elements

ASSUME CapacityAssumption == Capacity \in Nat \ {0}

Index  == 0 .. Capacity - 1
Ring   == [readIdx : Index, writeIdx : Index, full : BOOLEAN]
Region == [at : Index, n1 : 0 .. Capacity, n2 : 0 .. Capacity]

\* m_full only says which of the two meanings equal indices have.
Consistent(rb) == rb.full => rb.readIdx = rb.writeIdx

Least(a, b) == IF a <= b THEN a ELSE b

\* A region cut down to its first k elements, as the callers do before they
\* copy: the second part is used only when the first is too small.
Cut(region, k) ==
    LET n1 == Least(region.n1, k)
    IN  [at |-> region.at, n1 |-> n1, n2 |-> Least(region.n2, k - n1)]

Length(region) == region.n1 + region.n2

\* The cells of a region; the cell of its element i (from 0), and back.
Cells(region) ==
    (region.at .. region.at + region.n1 - 1) \cup (0 .. region.n2 - 1)

CellAt(region, i) == IF i < region.n1 THEN region.at + i ELSE i - region.n1

OffsetOf(region, c) == IF c \in region.at .. region.at + region.n1 - 1
                       THEN c - region.at ELSE region.n1 + c

-----------------------------------------------------------------------------

\* The constructor and Clear().
Cleared == [readIdx |-> 0, writeIdx |-> 0, full |-> FALSE]

Size(rb) ==
    IF rb.full THEN Capacity
               ELSE (rb.writeIdx - rb.readIdx + Capacity) % Capacity

\* Mutant: the whole tail of the ring is handed out, whatever is unread in it.
BeginWriteOverUnread(rb) ==
    [at |-> rb.writeIdx,
     n1 |-> IF rb.full THEN 0 ELSE Capacity - rb.writeIdx,
     n2 |-> IF ~rb.full /\ rb.readIdx <= rb.writeIdx THEN rb.readIdx ELSE 0]

\* The free region, in the shape BeginWrite returns it for "the whole buffer".
BeginWrite(rb) ==
    [at |-> rb.writeIdx,
     n1 |-> IF rb.full THEN 0
            ELSE IF rb.readIdx <= rb.writeIdx THEN Capacity - rb.writeIdx
                                              ELSE rb.readIdx - rb.writeIdx,
     n2 |-> IF ~rb.full /\ rb.readIdx <= rb.writeIdx THEN rb.readIdx ELSE 0]

\* Mutant: a ring written full counts as empty.
EndWriteNeverFull(rb, n) ==
    [readIdx |-> rb.readIdx, writeIdx |-> (rb.writeIdx + n) % Capacity,
     full |-> rb.full]

\* EndWrite only advances m_writeIdx by the number of elements, from where it
\* is now: it does not look at the pointers BeginWrite handed out.
EndWrite(rb, n) ==
    LET w == (rb.writeIdx + n) % Capacity
    IN  [readIdx |-> rb.readIdx, writeIdx |-> w,
         full |-> IF n > 0 /\ w = rb.readIdx THEN TRUE ELSE rb.full]

BeginRead(rb) ==
    [at |-> rb.readIdx,
     n1 |-> IF rb.full \/ rb.writeIdx < rb.readIdx THEN Capacity - rb.readIdx
                                                   ELSE rb.writeIdx - rb.readIdx,
     n2 |-> IF rb.full \/ rb.writeIdx < rb.readIdx THEN rb.writeIdx ELSE 0]

\* Mutant: a read does not make a full ring less than full.
EndReadStaysFull(rb, n) ==
    LET r == (rb.readIdx + n) % Capacity
    IN  IF n > 0 /\ r = rb.writeIdx THEN Cleared
        ELSE [readIdx |-> r, writeIdx |-> rb.writeIdx, full |-> rb.full]

\* EndRead sends both indices back to 0 when it leaves the buffer empty.
EndRead(rb, n) ==
    LET r == (rb.readIdx + n) % Capacity
    IN  IF n > 0 /\ r = rb.writeIdx THEN Cleared
        ELSE [readIdx |-> r, writeIdx |-> rb.writeIdx,
              full |-> IF n > 0 THEN FALSE ELSE rb.full]

=============================================================================
