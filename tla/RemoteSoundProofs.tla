-------------------------- MODULE RemoteSoundProofs --------------------------
(***************************************************************************)
(* Proofs about RemoteSound for any number and size of sub-buffers, any    *)
(* packets and any number of faults.                                       *)
(***************************************************************************)
EXTENDS RemoteSound, TLAPS, SequenceTheorems

-----------------------------------------------------------------------------
\* Sequences.

\* In order and without repetition; one set of samples before another.
Rising(s) == \A i, j \in DOMAIN s : i < j => s[i] < s[j]
Before(S, T) == \A x \in S, y \in T : x < y

LEMMA MinIs ==
    ASSUME NEW a \in Int, NEW b \in Int
    PROVE  Min({a, b}) = IF a <= b THEN a ELSE b
BY DEF Min

LEMMA Members ==
    ASSUME NEW S, NEW s \in Seq(S)
    PROVE  /\ Len(s) \in Nat /\ DOMAIN s = 1 .. Len(s)
           /\ \A x : x \in ToSet(s) <=> \E i \in 1 .. Len(s) : s[i] = x
           /\ ToSet(s) \subseteq S
           /\ s = << >> <=> Len(s) = 0
BY LenProperties, EmptySeq, ElementOfSeq DEF ToSet

LEMMA NoMembers == ToSet(<< >>) = {} /\ Rising(<< >>)
BY DEF ToSet, Rising

LEMMA FrontIs ==
    ASSUME NEW S, NEW s \in Seq(S), s # << >>
    PROVE  /\ Front(s) \in Seq(S) /\ Len(Front(s)) = Len(s) - 1
           /\ \A i \in 1 .. Len(s) - 1 : Front(s)[i] = s[i]
           /\ Last(s) \in S /\ Last(s) = s[Len(s)]
<1>1. Len(s) \in Nat /\ Len(s) > 0 /\ \A i \in 1 .. Len(s) : s[i] \in S
  BY Members, ElementOfSeq
<1>2. \A i \in 1 .. Len(s) - 1 : s[i] \in S
  BY <1>1
<1>3. /\ Front(s) \in Seq(S)
      /\ Len(Front(s)) = IF 1 <= Len(s) - 1 THEN Len(s) - 1 - 1 + 1 ELSE 0
      /\ \A i \in 1 .. Len(s) - 1 - 1 + 1 : Front(s)[i] = s[1 + i - 1]
  BY <1>1, <1>2, SubSeqProperties DEF Front
<1>4. Len(Front(s)) = Len(s) - 1
  <2>1. (1 <= Len(s) - 1 => Len(s) - 1 - 1 + 1 = Len(s) - 1) /\ (~(1 <= Len(s) - 1) => Len(s) - 1 = 0)
    BY <1>1, SMTT(30)
  <2>2. Len(Front(s)) = IF 1 <= Len(s) - 1 THEN Len(s) - 1 - 1 + 1 ELSE 0
    BY <1>3
  <2> HIDE DEF Front
  <2> QED
    BY <2>1, <2>2, Zenon
<1>5. ASSUME NEW i \in 1 .. Len(s) - 1 PROVE Front(s)[i] = s[i]
  <2>1. i \in 1 .. Len(s) - 1 - 1 + 1 /\ 1 + i - 1 = i
    BY <1>1
  <2> QED
    BY <1>3, <2>1
<1> QED
  BY <1>1, <1>3, <1>4, <1>5 DEF Last

\* A sequence and its parts up to and after position n.
LEMMA SplitIs ==
    ASSUME NEW S, S \subseteq Int, NEW s \in Seq(S), NEW n \in 0 .. Len(s)
    PROVE  /\ SubSeq(s, 1, n) \in Seq(S) /\ SubSeq(s, n + 1, Len(s)) \in Seq(S)
           /\ Len(SubSeq(s, 1, n)) = n /\ Len(SubSeq(s, n + 1, Len(s))) = Len(s) - n
           /\ \A i \in 1 .. n : SubSeq(s, 1, n)[i] = s[i]
           /\ ToSet(s) = ToSet(SubSeq(s, 1, n)) \cup ToSet(SubSeq(s, n + 1, Len(s)))
           /\ Rising(s) =>
                 /\ Rising(SubSeq(s, 1, n)) /\ Rising(SubSeq(s, n + 1, Len(s)))
                 /\ Before(ToSet(SubSeq(s, 1, n)), ToSet(SubSeq(s, n + 1, Len(s))))
<1> DEFINE a == SubSeq(s, 1, n)
           b == SubSeq(s, n + 1, Len(s))
<1>1. Len(s) \in Nat /\ n \in Nat /\ n <= Len(s) /\ \A i \in 1 .. Len(s) : s[i] \in S
  BY LenProperties, ElementOfSeq
<1>2. /\ a \in Seq(S) /\ Len(a) = n
      /\ \A i \in 1 .. n : a[i] = s[i]
  <2>1. \A i \in 1 .. n : s[i] \in S
    BY <1>1
  <2>2. /\ a \in Seq(S) /\ Len(a) = IF 1 <= n THEN n - 1 + 1 ELSE 0
        /\ \A i \in 1 .. n - 1 + 1 : a[i] = s[1 + i - 1]
    BY <1>1, <2>1, SubSeqProperties
  <2> QED
    BY <1>1, <2>2
<1>3. /\ b \in Seq(S) /\ Len(b) = Len(s) - n
      /\ \A i \in 1 .. Len(s) - n : b[i] = s[n + i]
  <2>1. \A i \in n + 1 .. Len(s) : s[i] \in S
    BY <1>1
  <2>2. n + 1 \in Int /\ Len(s) \in Int
    BY <1>1
  <2>3. /\ b \in Seq(S)
        /\ Len(b) = IF n + 1 <= Len(s) THEN Len(s) - (n + 1) + 1 ELSE 0
        /\ \A i \in 1 .. Len(s) - (n + 1) + 1 : b[i] = s[n + 1 + i - 1]
    BY <2>1, <2>2, SubSeqProperties
  <2>4. Len(b) = Len(s) - n
    BY <1>1, <2>3
  <2>5. ASSUME NEW i \in 1 .. Len(s) - n PROVE b[i] = s[n + i]
    <3>1. i \in 1 .. Len(s) - (n + 1) + 1 /\ n + 1 + i - 1 = n + i
      BY <1>1
    <3> QED
      BY <2>3, <3>1
  <2> QED
    BY <2>3, <2>4, <2>5
<1> HIDE DEF a, b
<1>4. \A i \in 1 .. Len(s) : i \in 1 .. n \/ (i - n \in 1 .. Len(s) - n /\ s[i] = b[i - n])
  BY <1>1, <1>3
<1>5. \A i \in 1 .. n : i \in 1 .. Len(s)
  BY <1>1
<1>6. \A i \in 1 .. Len(s) - n : n + i \in 1 .. Len(s)
  BY <1>1
<1>7. ToSet(s) = ToSet(a) \cup ToSet(b)
  <2>1. ASSUME NEW x, x \in ToSet(s) PROVE x \in ToSet(a) \cup ToSet(b)
    BY <1>2, <1>3, <1>4, <2>1, Members, SMTT(30)
  <2>2. ASSUME NEW x, x \in ToSet(a) PROVE x \in ToSet(s)
    BY <1>2, <1>5, <2>2, Members
  <2>3. ASSUME NEW x, x \in ToSet(b) PROVE x \in ToSet(s)
    BY <1>3, <1>6, <2>3, Members, SMTT(30)
  <2> QED
    BY <2>1, <2>2, <2>3
<1>8. ASSUME Rising(s) PROVE Rising(a) /\ Rising(b) /\ Before(ToSet(a), ToSet(b))
  <2>1. \A i, j \in 1 .. Len(s) : i < j => s[i] < s[j]
    BY <1>8, LenProperties DEF Rising
  <2>2. Rising(a)
    <3>1. DOMAIN a = 1 .. n
      BY <1>2, LenProperties
    <3> QED
      BY <1>2, <1>5, <2>1, <3>1 DEF Rising
  <2>3. Rising(b)
    <3>1. DOMAIN b = 1 .. Len(s) - n
      BY <1>3, LenProperties
    <3>2. ASSUME NEW i \in 1 .. Len(s) - n, NEW j \in 1 .. Len(s) - n, i < j
          PROVE  b[i] < b[j]
      <4>1. n + i < n + j
        BY <1>1, <3>2
      <4> QED
        BY <1>3, <1>6, <2>1, <4>1
    <3> QED
      BY <3>1, <3>2 DEF Rising
  <2>4. ASSUME NEW x \in ToSet(a), NEW y \in ToSet(b) PROVE x < y
    <3>1. PICK i \in 1 .. n : a[i] = x
      BY <1>2, Members
    <3>2. PICK j \in 1 .. Len(s) - n : b[j] = y
      BY <1>3, Members
    <3>3. i < n + j
      BY <1>1, <3>1, <3>2
    <3> QED
      BY <1>2, <1>3, <1>5, <1>6, <2>1, <3>1, <3>2, <3>3
  <2> QED
    BY <2>2, <2>3, <2>4 DEF Before
<1> QED
  BY <1>2, <1>3, <1>7, <1>8 DEF a, b

LEMMA JoinIs ==
    ASSUME NEW S, S \subseteq Int, NEW s \in Seq(S), NEW t \in Seq(S)
    PROVE  /\ s \o t \in Seq(S) /\ Len(s \o t) = Len(s) + Len(t)
           /\ ToSet(s \o t) = ToSet(s) \cup ToSet(t)
           /\ Rising(s) /\ Rising(t) /\ Before(ToSet(s), ToSet(t)) => Rising(s \o t)
<1> DEFINE u == s \o t
           m == Len(s)
<1>1. /\ u \in Seq(S) /\ m \in Nat /\ Len(t) \in Nat /\ Len(u) = m + Len(t)
      /\ \A i \in 1 .. m : u[i] = s[i]
      /\ \A i \in 1 .. Len(t) : u[m + i] = t[i]
  BY ConcatProperties, LenProperties
<1>2. \A i \in 1 .. Len(u) :
         i \in 1 .. m \/ (i > m /\ i - m \in 1 .. Len(t) /\ u[i] = t[i - m])
  BY <1>1
<1>3. /\ \A i \in 1 .. m : i \in 1 .. Len(u)
      /\ \A i \in 1 .. Len(t) : m + i \in 1 .. Len(u)
  BY <1>1
<1> HIDE DEF u
<1>4. ToSet(u) = ToSet(s) \cup ToSet(t)
  <2>1. ASSUME NEW x, x \in ToSet(u) PROVE x \in ToSet(s) \cup ToSet(t)
    <3>1. PICK i \in 1 .. Len(u) : u[i] = x
      BY <1>1, <2>1, Members
    <3>2. CASE i \in 1 .. m
      BY <1>1, <3>1, <3>2, Members
    <3>3. CASE i > m /\ i - m \in 1 .. Len(t) /\ u[i] = t[i - m]
      BY <3>1, <3>3, Members
    <3> QED
      BY <1>2, <3>2, <3>3
  <2>2. ASSUME NEW x, x \in ToSet(s) PROVE x \in ToSet(u)
    BY <1>1, <1>3, <2>2, Members, SMTT(30)
  <2>3. ASSUME NEW x, x \in ToSet(t) PROVE x \in ToSet(u)
    <3>1. PICK i \in 1 .. Len(t) : t[i] = x
      BY <2>3, Members
    <3>2. m + i \in 1 .. Len(u) /\ u[m + i] = x
      BY <1>1, <1>3, <3>1
    <3> QED
      BY <1>1, <3>2, Members
  <2> QED
    BY <2>1, <2>2, <2>3
<1>5. ASSUME Rising(s), Rising(t), Before(ToSet(s), ToSet(t)) PROVE Rising(u)
  <2>1. /\ \A i, j \in 1 .. m : i < j => s[i] < s[j]
        /\ \A i, j \in 1 .. Len(t) : i < j => t[i] < t[j]
    BY <1>5, LenProperties DEF Rising
  <2>2. \A i \in 1 .. m, j \in 1 .. Len(t) : s[i] < t[j]
    BY <1>5, Members DEF Before
  <2>3. ASSUME NEW i \in 1 .. Len(u), NEW j \in 1 .. Len(u), i < j PROVE u[i] < u[j]
    <3>1. CASE j \in 1 .. m
      <4>1. i \in 1 .. m
        BY <2>3, <3>1
      <4> QED
        BY <1>1, <2>1, <2>3, <3>1, <4>1
    <3>2. CASE j > m /\ i \in 1 .. m
      <4>1. j - m \in 1 .. Len(t) /\ u[j] = t[j - m] /\ u[i] = s[i]
        BY <1>1, <1>2, <3>2
      <4> QED
        BY <2>2, <3>2, <4>1
    <3>3. CASE j > m /\ i > m
      <4>1. i - m < j - m
        BY <1>1, <2>3
      <4>2. /\ i - m \in 1 .. Len(t) /\ u[i] = t[i - m]
            /\ j - m \in 1 .. Len(t) /\ u[j] = t[j - m]
        BY <1>1, <1>2, <3>3
      <4> QED
        BY <2>1, <4>1, <4>2
    <3> QED
      BY <1>1, <1>2, <3>1, <3>2, <3>3
  <2>4. DOMAIN u = 1 .. Len(u)
    BY <1>1, LenProperties
  <2> QED
    BY <2>3, <2>4 DEF Rising
<1> QED
  BY <1>1, <1>4, <1>5 DEF u

\* The same of samples.
LEMMA SamplesJoin ==
    ASSUME NEW s \in Seq(Sample), NEW t \in Seq(Sample)
    PROVE  /\ s \o t \in Seq(Sample) /\ Len(s \o t) = Len(s) + Len(t)
           /\ ToSet(s \o t) = ToSet(s) \cup ToSet(t)
           /\ Rising(s) /\ Rising(t) /\ Before(ToSet(s), ToSet(t)) => Rising(s \o t)
<1>1. Sample \subseteq Int
  BY DEF Sample
<1> QED
  BY <1>1, JoinIs

-----------------------------------------------------------------------------
\* The lists of sub-buffers.

\* The sub-buffers OpenSL was given and the driver still counts as queued, the
\* newest first.
Line == (IF emulation = "note" THEN <<Last(unqueued)>> ELSE << >>) \o queued

ListInv ==
    /\ Len(unqueued) + Len(queued) = NumSubBuffers
    /\ IsInjective(unqueued \o queued)
    /\ ToSet(unqueued \o queued) = SubBuffer

\* OpenSL plays the newest of the line, and calls back for the rest.
LineInv ==
    /\ Len(slQueue) <= Len(Line)
    /\ \A i \in 1 .. Len(slQueue) : slQueue[i].buffer = Line[Len(slQueue) + 1 - i]
    /\ player = "made" => Len(Line) = Len(slQueue) + due
    /\ due > 0 => player = "made"

OutputInv ==
    /\ emulation = "idle" => output = << >>
    /\ Unlocking => output # << >>

\* A sub-buffer holds at least what OpenSL was told.
StoredInv == \A i \in 1 .. Len(slQueue) : slQueue[i].size <= Len(mem[slQueue[i].buffer])

QueueInv == TypeOK /\ ListInv /\ LineInv /\ OutputInv /\ StoredInv /\ RoomIsThere

-----------------------------------------------------------------------------
\* Facts about a state.

LEMMA Times ==
    ASSUME NEW m \in Nat, NEW n \in Nat
    PROVE  /\ n * SubSize \in Nat /\ 0 * SubSize = 0
           /\ (n + 1) * SubSize = n * SubSize + SubSize
           /\ m <= n => m * SubSize <= n * SubSize
<1>1. SubSize \in Nat /\ SubSize > 0
  BY PlayQueueAssumption
<1>2. n * SubSize \in Nat /\ 0 * SubSize = 0 /\ (n + 1) * SubSize = n * SubSize + SubSize
  BY <1>1
<1>3. ASSUME m <= n PROVE m * SubSize <= n * SubSize
  <2>1. n - m \in Nat /\ (n - m) * SubSize >= 0
    BY <1>1, <1>3
  <2>2. n * SubSize = m * SubSize + (n - m) * SubSize
    BY <1>1
  <2> QED
    BY <1>1, <2>1, <2>2
<1> QED
  BY <1>2, <1>3

LEMMA Sizes ==
    ASSUME TypeOK
    PROVE  /\ Len(unqueued) \in Nat /\ Len(queued) \in Nat /\ Len(slQueue) \in Nat
           /\ Len(output) \in Nat /\ due \in Nat /\ room \in Nat
           /\ NumSubBuffers \in Nat \ {0} /\ SubSize \in Nat \ {0}
           /\ Sample \subseteq Int /\ SubBuffer \subseteq Int
           /\ (unqueued = << >> <=> Len(unqueued) = 0)
           /\ (queued = << >> <=> Len(queued) = 0)
           /\ (output = << >> <=> Len(output) = 0)
           /\ (slQueue = << >> <=> Len(slQueue) = 0)
<1>1. NumSubBuffers * SubSize \in Nat
  BY Times, PlayQueueAssumption
<1>2. room \in Nat /\ due \in Nat
  BY <1>1, PlayQueueAssumption DEF TypeOK, QueueTypeOK
<1>3. Sample \subseteq Int /\ SubBuffer \subseteq Int
  BY DEF Sample, SubBuffer
<1> QED
  BY <1>2, <1>3, PlayQueueAssumption, Members DEF TypeOK, QueueTypeOK

LEMMA ChunkIs ==
    ASSUME TypeOK, output # << >>
    PROVE  /\ Chunk \in Seq(Sample) /\ Len(Chunk) \in 1 .. SubSize /\ Len(Chunk) <= Len(output)
           /\ Len(Chunk) = SubSize \/ Len(Chunk) = Len(output)
           /\ Chunk = SubSeq(output, 1, Len(Chunk))
           /\ SubSeq(output, Len(Chunk) + 1, Len(output)) \in Seq(Sample)
           /\ Len(SubSeq(output, Len(Chunk) + 1, Len(output))) = Len(output) - Len(Chunk)
<1> DEFINE n == Min({Len(output), SubSize})
<1>1. /\ Len(output) \in Nat \ {0} /\ SubSize \in Nat \ {0} /\ output \in Seq(Sample)
      /\ Sample \subseteq Int
  BY Sizes DEF TypeOK, QueueTypeOK
<1>2. n \in 1 .. SubSize /\ n <= Len(output) /\ (n = SubSize \/ n = Len(output))
  BY <1>1, MinIs
<1> HIDE DEF n
<1>3. n \in 0 .. Len(output)
  BY <1>1, <1>2
<1>4. Chunk \in Seq(Sample) /\ Len(Chunk) = n
  BY <1>1, <1>3, SplitIs, ZenonT(40) DEF Chunk, n
<1>5. /\ SubSeq(output, n + 1, Len(output)) \in Seq(Sample)
      /\ Len(SubSeq(output, n + 1, Len(output))) = Len(output) - n
  BY <1>1, <1>3, SplitIs
<1>6. Chunk = SubSeq(output, 1, n)
  BY DEF Chunk, n
<1> QED
  BY <1>2, <1>4, <1>5, <1>6

LEMMA SomethingIsUnqueued ==
    ASSUME QueueInv, Unlocking
    PROVE  unqueued # << >> /\ output # << >> /\ Last(unqueued) \in SubBuffer
<1>1. /\ Len(output) \in Nat \ {0} /\ Len(unqueued) \in Nat /\ output # << >>
      /\ unqueued = << >> <=> Len(unqueued) = 0
  BY Sizes DEF QueueInv, OutputInv
<1>2. Len(output) + 0 <= Len(unqueued) * SubSize
  BY DEF QueueInv, RoomIsThere, Unlocking
<1>3. Len(unqueued) # 0
  BY <1>1, <1>2, PlayQueueAssumption
<1>4. unqueued # << >> /\ unqueued \in Seq(SubBuffer)
  BY <1>1, <1>3 DEF QueueInv, TypeOK, QueueTypeOK
<1> QED
  BY <1>1, <1>4, FrontIs

LEMMA LineIs ==
    ASSUME QueueInv
    PROVE  /\ Line \in Seq(SubBuffer) /\ Len(Line) \in Nat /\ Len(Line) <= NumSubBuffers
           /\ emulation # "note" => Line = queued
           /\ emulation = "note" =>
                 /\ Len(Line) = Len(queued) + 1 /\ Line[1] = Last(unqueued)
                 /\ \A i \in 1 .. Len(queued) : Line[i + 1] = queued[i]
<1>1. /\ queued \in Seq(SubBuffer) /\ Len(queued) \in Nat /\ Len(unqueued) \in Nat
      /\ unqueued = << >> <=> Len(unqueued) = 0
      /\ Len(unqueued) + Len(queued) = NumSubBuffers
  BY Sizes DEF QueueInv, ListInv, TypeOK, QueueTypeOK
<1>2. CASE emulation # "note"
  <2>1. Line = queued
    BY <1>1, <1>2, ConcatEmptySeq DEF Line
  <2> QED
    BY <1>1, <1>2, <2>1
<1>3. CASE emulation = "note"
  <2>1. unqueued # << >> /\ Last(unqueued) \in SubBuffer
    BY <1>3, SomethingIsUnqueued DEF Unlocking
  <2> DEFINE b == Last(unqueued)
  <2> HIDE DEF b
  <2>2. Line = <<b>> \o queued
    BY <1>3 DEF Line, b
  <2>3. <<b>> \in Seq(SubBuffer) /\ Len(<<b>>) = 1 /\ <<b>>[1] = b
    BY <2>1 DEF b
  <2>4. /\ Line \in Seq(SubBuffer) /\ Len(Line) = 1 + Len(queued)
        /\ \A i \in 1 .. 1 + Len(queued) : Line[i] = IF i <= 1 THEN <<b>>[i] ELSE queued[i - 1]
    BY <1>1, <2>2, <2>3, ConcatProperties
  <2>5. Line[1] = b /\ \A i \in 1 .. Len(queued) : Line[i + 1] = queued[i]
    BY <1>1, <2>3, <2>4
  <2>6. Len(Line) <= NumSubBuffers
    BY <1>1, <2>1, <2>4
  <2> QED
    BY <1>1, <1>3, <2>4, <2>5, <2>6 DEF b
<1> QED
  BY <1>2, <1>3

LEMMA GivenIs ==
    ASSUME QueueInv, NEW i \in 1 .. Len(slQueue)
    PROVE  /\ slQueue[i].buffer \in SubBuffer /\ slQueue[i].size \in 1 .. SubSize
           /\ Given(slQueue[i]) \in Seq(Sample)
           /\ ToSet(Given(slQueue[i])) \subseteq Sample
<1> DEFINE e == slQueue[i]
<1>1. e \in [buffer : SubBuffer, size : 1 .. SubSize]
  BY ElementOfSeq DEF QueueInv, TypeOK, QueueTypeOK
<1>2. mem[e.buffer] \in Seq(Sample) /\ e.size \in 0 .. Len(mem[e.buffer])
  BY <1>1, LenProperties, PlayQueueAssumption, SMTT(30) DEF QueueInv, StoredInv, TypeOK, QueueTypeOK
<1>3. Sample \subseteq Int
  BY DEF Sample
<1>4. Given(e) \in Seq(Sample)
  BY <1>2, <1>3, SplitIs DEF Given
<1> QED
  BY <1>1, <1>4, Members

LEMMA UnplayedIs ==
    ASSUME QueueInv
    PROVE  /\ \A x : x \in Unplayed <=> \E i \in 1 .. Len(slQueue) : x \in ToSet(Given(slQueue[i]))
           /\ Unplayed \subseteq Sample
<1>1. DOMAIN slQueue = 1 .. Len(slQueue)
  BY LenProperties DEF QueueInv, TypeOK, QueueTypeOK
<1>2. \A x : x \in Unplayed <=> \E i \in 1 .. Len(slQueue) : x \in ToSet(Given(slQueue[i]))
  BY <1>1 DEF Unplayed
<1> QED
  BY <1>2, GivenIs

LEMMA UndeliveredIs ==
    ASSUME TypeOK
    PROVE  /\ \A x : x \in Undelivered <=> \E i \in 1 .. Len(packets) : x \in ToSet(packets[i])
           /\ \A i \in 1 .. Len(packets) : packets[i] \in Seq(Sample)
           /\ Undelivered \subseteq Sample
<1>1. DOMAIN packets = 1 .. Len(packets) /\ \A i \in 1 .. Len(packets) : packets[i] \in Seq(Sample)
  BY LenProperties, ElementOfSeq DEF TypeOK
<1>2. \A x : x \in Undelivered <=> \E i \in 1 .. Len(packets) : x \in ToSet(packets[i])
  BY <1>1 DEF Undelivered
<1> QED
  BY <1>1, <1>2, Members

-----------------------------------------------------------------------------
\* The steps keep the queue's invariant.

\* What none of the lists, OpenSL's queue and its callbacks are changed by.
LEMMA ListsKept ==
    ASSUME QueueInv, UNCHANGED <<player, slVars, listVars, mem>>,
           emulation' = emulation \/ (emulation # "note" /\ emulation' # "note")
    PROVE  ListInv' /\ LineInv' /\ StoredInv'
<1>1. Line' = Line
  BY DEF Line, listVars
<1> QED
  BY <1>1 DEF QueueInv, ListInv, LineInv, StoredInv, slVars, listVars

LEMMA ResetKeeps ==
    ASSUME QueueInv, ResetSLESPlayer, emulation = "idle", emulation' # "note"
    PROVE  /\ ListInv' /\ LineInv' /\ StoredInv'
           /\ player' \in {"none", "made", "deaf"} /\ playing' \in BOOLEAN
           /\ slPlaying' \in BOOLEAN /\ slQueue' = << >> /\ due' = 0
           /\ unqueued' \in Seq(SubBuffer) /\ queued' \in Seq(SubBuffer)
           /\ dropped' \in SUBSET Sample
           /\ UNCHANGED <<playing, mem, heard>>
           /\ Len(unqueued') \in Nat /\ Len(unqueued') <= NumSubBuffers
<1>1. dropped' \in SUBSET Sample
  BY UnplayedIs DEF QueueInv, ResetSLESPlayer, TypeOK, QueueTypeOK
<1>2. StoredInv'
  BY DEF ResetSLESPlayer, StoredInv
<1>3. Line' = << >> \o queued'
  BY DEF Line
<1>4. /\ queued \in Seq(SubBuffer) /\ Len(queued) \in Nat /\ unqueued \in Seq(SubBuffer)
      /\ Len(unqueued) \in Nat
      /\ Len(unqueued) + Len(queued) = NumSubBuffers /\ NumSubBuffers \in Nat
  BY Sizes DEF QueueInv, ListInv, TypeOK, QueueTypeOK
<1>5. /\ slQueue' = << >> /\ Len(slQueue') = 0 /\ due' = 0
      /\ player' \in {"none", "made", "deaf"}
      /\ slPlaying' \in BOOLEAN /\ UNCHANGED <<playing, mem, heard>> /\ playing' \in BOOLEAN
  BY DEF ResetSLESPlayer, QueueInv, TypeOK, QueueTypeOK
<1>6. CASE player' = "none" /\ UNCHANGED listVars
  <2>1. Line' = queued /\ ListInv'
    BY <1>3, <1>4, <1>6, ConcatEmptySeq DEF listVars, QueueInv, ListInv
  <2>2. LineInv'
    BY <1>4, <1>5, <1>6, <2>1 DEF LineInv
  <2> QED
    BY <1>1, <1>2, <1>4, <1>5, <1>6, <2>1, <2>2 DEF listVars
<1>7. CASE DivideBuffer
  <2> DEFINE d == [i \in SubBuffer |-> i]
  <2>1. d \in [1 .. NumSubBuffers -> SubBuffer]
    BY DEF SubBuffer
  <2>2. d \in Seq(SubBuffer) /\ Len(d) = NumSubBuffers
    BY <1>4, <2>1
  <2>3. queued' = << >> /\ unqueued' = d /\ queued' \in Seq(SubBuffer) /\ Len(queued') = 0
    BY <1>7 DEF DivideBuffer
  <2>4. Line' = << >> /\ Len(Line') = 0 /\ unqueued' \o queued' = d
    BY <1>3, <2>2, <2>3, ConcatEmptySeq
  <2>5. IsInjective(d) /\ ToSet(d) = SubBuffer
    BY DEF IsInjective, ToSet
  <2>6. ListInv'
    BY <1>4, <2>2, <2>3, <2>4, <2>5 DEF ListInv
  <2>7. LineInv'
    BY <1>5, <2>4 DEF LineInv
  <2> QED
    BY <1>1, <1>2, <1>4, <1>5, <2>2, <2>3, <2>6, <2>7
<1> QED
  BY <1>6, <1>7 DEF ResetSLESPlayer

LEMMA QueueArrive ==
    ASSUME QueueInv, NEW n \in 1 .. MaxPacket, Arrive(n)
    PROVE  QueueInv'
<1>1. ListInv' /\ LineInv' /\ StoredInv'
  BY ListsKept DEF Arrive, queueVars, playerVars
<1>2. OutputInv' /\ RoomIsThere'
  BY DEF QueueInv, OutputInv, RoomIsThere, Unlocking, Arrive, queueVars, listVars
<1>3. QueueTypeOK'
  BY DEF QueueInv, TypeOK, QueueTypeOK, Arrive, queueVars, playerVars, slVars, listVars
<1>4. /\ sent \in Nat /\ n \in Nat /\ sent + n <= MaxSamples /\ MaxSamples \in Nat
      /\ sent' = sent + n
  BY PlayQueueAssumption, PacketAssumption DEF QueueInv, TypeOK, Arrive
<1>5. [i \in 1 .. n |-> sent + i] \in Seq(Sample)
  <2>1. \A i \in 1 .. n : sent + i \in Sample
    BY <1>4 DEF Sample
  <2>2. [i \in 1 .. n |-> sent + i] \in [1 .. n -> Sample]
    BY <2>1
  <2> QED
    BY <1>4, <2>2
<1>6. packets' \in Seq(Seq(Sample))
  BY <1>5, AppendProperties DEF Arrive, QueueInv, TypeOK
<1>7. /\ buffers' \in [0 .. 1 -> Seq(Sample)] /\ next' \in 0 .. 1
      /\ room' \in 0 .. NumSubBuffers * SubSize
  BY DEF Arrive, QueueInv, TypeOK
<1>8. sent' \in 0 .. MaxSamples
  BY <1>4
<1> QED
  BY <1>1, <1>2, <1>3, <1>6, <1>7, <1>8 DEF QueueInv, TypeOK

LEMMA QueueBeginFrame ==
    ASSUME QueueInv, BeginFrame
    PROVE  QueueInv'
<1>1. /\ sent' \in 0 .. MaxSamples /\ packets' \in Seq(Seq(Sample))
      /\ buffers' \in [0 .. 1 -> Seq(Sample)] /\ next' \in 0 .. 1
  BY DEF BeginFrame, QueueInv, TypeOK
<1>2. emulation = "idle" /\ output = << >> /\ Len(output) = 0
  BY DEF BeginFrame, Lock, LockInNewMode, QueueInv, OutputInv
<1>3. emulation' \in {"idle", "mix"} /\ output' = << >>
  BY <1>2 DEF BeginFrame, Lock, LockInNewMode, Locked
<1>4. /\ ListInv' /\ LineInv' /\ StoredInv'
      /\ Len(unqueued') \in Nat /\ Len(unqueued') <= NumSubBuffers
      /\ QueueTypeOK'
  <2>1. CASE Lock
    <3>1. ListInv' /\ LineInv' /\ StoredInv'
      BY <1>2, <1>3, <2>1, ListsKept DEF Lock, playerVars
    <3>2. Len(unqueued') \in Nat /\ Len(unqueued') <= NumSubBuffers
      BY <2>1, Sizes DEF Lock, listVars, QueueInv, ListInv
    <3>3. QueueTypeOK'
      BY <2>1 DEF Lock, Locked, Stages, playerVars, slVars, listVars, QueueInv, TypeOK, QueueTypeOK
    <3> QED
      BY <3>1, <3>2, <3>3
  <2>2. CASE LockInNewMode
    <3>1. ResetSLESPlayer /\ emulation' # "note" /\ Fault
      BY <1>3, <2>2 DEF LockInNewMode
    <3>2. faults' \in 0 .. MaxFaults
      BY <3>1, PlayQueueAssumption DEF Fault, QueueInv, TypeOK, QueueTypeOK
    <3>3. /\ emulation' \in Stages /\ output' \in Seq(Sample)
          /\ slQueue' \in Seq([buffer : SubBuffer, size : 1 .. SubSize])
          /\ due' \in 0 .. NumSubBuffers
      BY <1>2, <1>3, <3>1, ResetKeeps, EmptySeq, PlayQueueAssumption DEF Stages
    <3>4. UNCHANGED <<playing, mem, heard>>
      BY <3>1 DEF ResetSLESPlayer
    <3>5. QueueTypeOK'
      BY <1>2, <3>1, <3>2, <3>3, <3>4, ResetKeeps DEF QueueInv, TypeOK, QueueTypeOK
    <3> QED
      BY <1>2, <3>1, <3>5, ResetKeeps
  <2> QED
    BY <2>1, <2>2 DEF BeginFrame
<1>5. OutputInv'
  BY <1>3 DEF OutputInv, Unlocking
<1>6. room' = IF emulation' = "mix" THEN Len(unqueued') * SubSize ELSE room
  BY DEF BeginFrame
<1>7. /\ Len(unqueued') * SubSize \in Nat
      /\ Len(unqueued') * SubSize <= NumSubBuffers * SubSize
      /\ NumSubBuffers * SubSize \in Nat
  BY <1>4, Times, PlayQueueAssumption
<1>8. RoomIsThere'
  <2>1. Len(output') = 0
    BY <1>3
  <2> QED
    BY <1>3, <1>6, <1>7, <2>1 DEF RoomIsThere
<1>9. room' \in 0 .. NumSubBuffers * SubSize
  BY <1>6, <1>7 DEF QueueInv, TypeOK
<1> QED
  BY <1>1, <1>4, <1>5, <1>8, <1>9 DEF QueueInv, TypeOK

LEMMA QueueEndFrame ==
    ASSUME QueueInv, EndFrame
    PROVE  QueueInv'
<1>1. ListInv' /\ LineInv' /\ StoredInv'
  BY ListsKept DEF EndFrame, Unlock, playerVars
<1>2. OutputInv'
  BY DEF OutputInv, Unlocking, EndFrame, Unlock
<1>3. RoomIsThere'
  <2>1. Len(output) + room <= Len(unqueued) * SubSize /\ Len(output) \in Nat /\ room \in Nat
    BY Sizes DEF QueueInv, RoomIsThere, EndFrame, Unlock
  <2>2. Len(unqueued) * SubSize \in Nat
    BY Times, Sizes DEF QueueInv
  <2>3. Len(output) <= Len(unqueued) * SubSize
    BY <2>1, <2>2
  <2> QED
    BY <2>1, <2>3 DEF RoomIsThere, EndFrame, Unlock, listVars
<1>4. TypeOK'
  BY DEF EndFrame, Unlock, Stages, QueueInv, TypeOK, QueueTypeOK, playerVars, slVars, listVars, remoteVars
<1> QED
  BY <1>1, <1>2, <1>3, <1>4 DEF QueueInv

LEMMA QueueLoadRemote ==
    ASSUME QueueInv, LoadRemote
    PROVE  QueueInv'
<1>1. ListInv' /\ LineInv' /\ StoredInv'
  BY ListsKept DEF LoadRemote, playerVars
<1>2. OutputInv' /\ RoomIsThere'
  BY DEF QueueInv, OutputInv, RoomIsThere, Unlocking, LoadRemote, listVars
<1>3. dropped' \in SUBSET Sample
  <2>1. buffers[0] \in Seq(Sample) /\ buffers[1] \in Seq(Sample)
    BY DEF QueueInv, TypeOK
  <2>2. ToSet(buffers[0] \o buffers[1]) \subseteq Sample
    BY <2>1, ConcatProperties, Members, ZenonT(40)
  <2> QED
    BY <2>2, UndeliveredIs DEF LoadRemote, QueueInv, TypeOK, QueueTypeOK
<1>4. faults' \in 0 .. MaxFaults
  BY PlayQueueAssumption DEF LoadRemote, Fault, QueueInv, TypeOK, QueueTypeOK
<1>5. QueueTypeOK'
  BY <1>3, <1>4 DEF LoadRemote, QueueInv, TypeOK, QueueTypeOK, playerVars, slVars, listVars
<1>6. packets' \in Seq(Seq(Sample)) /\ buffers' \in [0 .. 1 -> Seq(Sample)] /\ next' \in 0 .. 1
  <2>1. << >> \in Seq(Sample) /\ << >> \in Seq(Seq(Sample))
    BY EmptySeq
  <2> QED
    BY <2>1 DEF LoadRemote
<1> QED
  BY <1>1, <1>2, <1>5, <1>6 DEF LoadRemote, QueueInv, TypeOK

\* A turn of the loop: the data is the current buffer and, if that is not
\* enough, the first packet.
MixData == buffers[next] \o (IF Enough THEN << >> ELSE Head(packets))
Taken   == Min({Len(MixData), room})

LEMMA MixIs ==
    ASSUME TypeOK, Mix
    PROVE  /\ buffers[next] \in Seq(Sample) /\ MixData \in Seq(Sample)
           /\ ~Enough => packets # << >> /\ Head(packets) \in Seq(Sample)
           /\ packets' \in Seq(Seq(Sample))
           /\ Taken \in 0 .. Len(MixData) /\ Taken \in 0 .. room
           /\ (Taken = room \/ Taken = Len(MixData))
           /\ output' = output \o SubSeq(MixData, 1, Taken)
           /\ room' = room - Taken
           /\ Consume(MixData, Taken)
<1>1. buffers[next] \in Seq(Sample) /\ << >> \in Seq(Sample)
  BY EmptySeq DEF TypeOK
<1>2. ~Enough => packets # << >> /\ Head(packets) \in Seq(Sample) /\ Tail(packets) \in Seq(Seq(Sample))
  BY HeadTailProperties DEF Mix, MoreToMix, TypeOK
<1>3. MixData \in Seq(Sample) /\ Len(MixData) \in Nat
  BY <1>1, <1>2, ConcatProperties, LenProperties DEF MixData
<1>4. packets' \in Seq(Seq(Sample))
  BY <1>2 DEF Mix, TypeOK
<1>5. Taken \in 0 .. Len(MixData) /\ Taken \in 0 .. room /\ (Taken = room \/ Taken = Len(MixData))
  BY <1>3, Sizes, MinIs, SMTT(30) DEF Taken
<1>6. /\ output' = output \o SubSeq(MixData, 1, Taken)
      /\ room' = room - Taken
      /\ Consume(MixData, Taken)
  BY DEF Mix, MixData, Taken
<1> QED
  BY <1>1, <1>2, <1>3, <1>4, <1>5, <1>6

LEMMA ConsumeIs ==
    ASSUME TypeOK, NEW data \in Seq(Sample), NEW n \in 0 .. Len(data), Consume(data, n)
    PROVE  /\ buffers' \in [0 .. 1 -> Seq(Sample)] /\ next' \in 0 .. 1
           /\ n < Len(data) =>
                 /\ next' = 1 - next /\ buffers'[next] = << >>
                 /\ buffers'[1 - next] = buffers[1 - next] \o SubSeq(data, n + 1, Len(data))
           /\ ~(n < Len(data)) =>
                 /\ next' = next /\ buffers'[next] = << >>
                 /\ buffers'[1 - next] = buffers[1 - next]
<1> DEFINE r == SubSeq(data, n + 1, Len(data))
<1>1. /\ << >> \in Seq(Sample) /\ next \in 0 .. 1 /\ 1 - next \in 0 .. 1 /\ 1 - next # next
      /\ buffers \in [0 .. 1 -> Seq(Sample)] /\ Sample \subseteq Int
  BY EmptySeq, Sizes DEF TypeOK
<1>2. r \in Seq(Sample)
  BY <1>1, SplitIs
<1>3. n < Len(data) =>
         /\ next' = 1 - next
         /\ buffers' = [buffers EXCEPT ![next] = << >>, ![1 - next] = @ \o r]
  BY DEF Consume
<1>4. ~(n < Len(data)) => next' = next /\ buffers' = [buffers EXCEPT ![next] = << >>]
  BY DEF Consume
<1> HIDE DEF r
<1>5. CASE n < Len(data)
  <2>1. buffers[1 - next] \o r \in Seq(Sample)
    BY <1>1, <1>2, ConcatProperties
  <2>2. CASE next = 0
    BY <1>1, <1>3, <1>5, <2>1, <2>2 DEF r
  <2>3. CASE next = 1
    BY <1>1, <1>3, <1>5, <2>1, <2>3 DEF r
  <2>4. next = 0 \/ next = 1
    BY <1>1
  <2> QED
    BY <2>2, <2>3, <2>4
<1>6. CASE ~(n < Len(data))
  BY <1>1, <1>4, <1>6
<1> QED
  BY <1>5, <1>6

LEMMA QueueMix ==
    ASSUME QueueInv, Mix
    PROVE  QueueInv'
<1>1. ListInv' /\ LineInv' /\ StoredInv'
  BY ListsKept DEF Mix, playerVars
<1>2. OutputInv'
  BY DEF Mix, OutputInv, Unlocking
<1>3. TypeOK
  BY DEF QueueInv
<1>4. /\ Len(output) \in Nat /\ room \in Nat /\ output \in Seq(Sample) /\ Sample \subseteq Int
      /\ Len(MixData) \in Nat
  BY <1>3, Sizes, MixIs, LenProperties DEF TypeOK, QueueTypeOK
<1> DEFINE n == Taken
           data == MixData
<1>5. n \in 0 .. Len(data) /\ n \in 0 .. room /\ n \in Nat
  BY <1>3, <1>4, MixIs
<1>6. data \in Seq(Sample) /\ output' = output \o SubSeq(data, 1, n) /\ room' = room - n
  BY <1>3, MixIs
<1>7. Consume(data, n)
  BY <1>3, MixIs
<1> HIDE DEF n, data
<1>8. SubSeq(data, 1, n) \in Seq(Sample) /\ Len(SubSeq(data, 1, n)) = n
      /\ SubSeq(data, n + 1, Len(data)) \in Seq(Sample)
  BY <1>4, <1>5, <1>6, SplitIs
<1>9. output' \in Seq(Sample) /\ Len(output') = Len(output) + n
  BY <1>4, <1>6, <1>8, SamplesJoin
<1>10. RoomIsThere'
  <2>1. Len(output) + room <= Len(unqueued) * SubSize /\ Len(unqueued) * SubSize \in Nat
    BY Times, Sizes DEF QueueInv, RoomIsThere, Mix
  <2>2. Len(output') + room' = Len(output) + room
    BY <1>4, <1>5, <1>6, <1>9, SMTT(30)
  <2> QED
    BY <2>1, <2>2 DEF RoomIsThere, Mix, listVars
<1>11. room' \in 0 .. NumSubBuffers * SubSize
  <2>1. NumSubBuffers * SubSize \in Nat /\ room <= NumSubBuffers * SubSize
    BY Times, PlayQueueAssumption, <1>3 DEF TypeOK
  <2> QED
    BY <1>4, <1>5, <1>6, <2>1
<1>12. buffers' \in [0 .. 1 -> Seq(Sample)] /\ next' \in 0 .. 1
  BY <1>3, <1>5, <1>6, <1>7, ConsumeIs
<1>13. QueueTypeOK'
  BY <1>3, <1>9 DEF Mix, TypeOK, QueueTypeOK, playerVars, slVars, listVars
<1>14. packets' \in Seq(Seq(Sample)) /\ sent' \in 0 .. MaxSamples
  BY <1>3, MixIs DEF Mix, TypeOK
<1> QED
  BY <1>1, <1>2, <1>10, <1>11, <1>12, <1>13, <1>14 DEF QueueInv, TypeOK

LEMMA QueuePlay ==
    ASSUME QueueInv, Play, UNCHANGED remoteVars
    PROVE  QueueInv'
<1> DEFINE n == Len(slQueue)
<1>1. /\ slQueue # << >> /\ n \in Nat \ {0} /\ due \in Nat /\ NumSubBuffers \in Nat
      /\ slQueue \in Seq([buffer : SubBuffer, size : 1 .. SubSize])
  BY Sizes DEF Play, QueueInv, TypeOK, QueueTypeOK
<1>2. /\ slQueue' \in Seq([buffer : SubBuffer, size : 1 .. SubSize])
      /\ Len(slQueue') = n - 1
      /\ \A i \in 1 .. n - 1 : slQueue'[i] = slQueue[i + 1]
  BY <1>1, HeadTailProperties DEF Play
<1>3. Line' = Line /\ Line \in Seq(SubBuffer) /\ Len(Line) \in Nat /\ Len(Line) <= NumSubBuffers
  BY LineIs DEF Play, Line, listVars
<1>4. /\ n <= Len(Line) /\ \A i \in 1 .. n : slQueue[i].buffer = Line[n + 1 - i]
      /\ player = "made" => Len(Line) = n + due
      /\ due > 0 => player = "made"
      /\ player' = player /\ due' = IF player = "made" THEN due + 1 ELSE due
  BY DEF QueueInv, LineInv, Play, playerVars
<1>5. LineInv'
  <2>1. ASSUME NEW i \in 1 .. n - 1
        PROVE  slQueue'[i].buffer = Line[n - 1 + 1 - i]
    <3>1. i + 1 \in 1 .. n /\ n + 1 - (i + 1) = n - 1 + 1 - i
      BY <1>1
    <3> QED
      BY <1>2, <1>4, <3>1
  <2>2. \A i \in 1 .. Len(slQueue') : slQueue'[i].buffer = Line'[Len(slQueue') + 1 - i]
    BY <1>2, <1>3, <2>1
  <2>3. Len(slQueue') <= Len(Line')
    BY <1>1, <1>2, <1>3, <1>4
  <2>4. ASSUME player' = "made" PROVE Len(Line') = Len(slQueue') + due'
    <3>1. Len(Line) = n + due /\ due' = due + 1 /\ Len(slQueue') = n - 1
      BY <1>2, <1>4, <2>4
    <3> HIDE DEF n
    <3>2. n + due = n - 1 + (due + 1)
      BY <1>1
    <3> QED
      BY <1>3, <3>1, <3>2
  <2>5. due' > 0 => player' = "made"
    BY <1>1, <1>4
  <2> QED
    BY <2>2, <2>3, <2>4, <2>5 DEF LineInv
<1>6. due' \in 0 .. NumSubBuffers
  <2>1. due \in 0 .. NumSubBuffers
    BY DEF QueueInv, TypeOK, QueueTypeOK
  <2> QED
    BY <1>1, <1>3, <1>4, <2>1
<1>7. StoredInv'
  <2>1. ASSUME NEW i \in 1 .. n - 1 PROVE slQueue[i + 1].size <= Len(mem[slQueue[i + 1].buffer])
    <3>1. i + 1 \in 1 .. n
      BY <1>1
    <3> QED
      BY <3>1 DEF QueueInv, StoredInv
  <2> QED
    BY <1>2, <2>1 DEF StoredInv, Play
<1>8. heard' \in Seq(Sample)
  <2>1. Head(slQueue) = slQueue[1] /\ 1 \in 1 .. Len(slQueue)
    BY <1>1
  <2>2. Given(Head(slQueue)) \in Seq(Sample)
    BY <2>1, GivenIs
  <2> QED
    BY <2>2, ConcatProperties DEF Play, QueueInv, TypeOK, QueueTypeOK
<1>9. ListInv' /\ OutputInv' /\ RoomIsThere'
  BY DEF Play, QueueInv, ListInv, OutputInv, RoomIsThere, Unlocking, listVars, remoteVars
<1>10. TypeOK'
  BY <1>2, <1>6, <1>8 DEF Play, QueueInv, TypeOK, QueueTypeOK, playerVars, listVars, remoteVars
<1> QED
  BY <1>5, <1>7, <1>9, <1>10 DEF QueueInv

\* The last of the lists becomes the first.
LEMMA TurnedRound ==
    ASSUME NEW S, NEW s \in Seq(S), NEW t \in Seq(S), NEW n \in Nat \ {0},
           Len(s) = n, Len(t) = n, t[1] = s[n], \A i \in 1 .. n - 1 : t[i + 1] = s[i]
    PROVE  /\ IsInjective(s) => IsInjective(t)
           /\ ToSet(t) = ToSet(s)
<1>1. DOMAIN s = 1 .. n /\ DOMAIN t = 1 .. n
  BY LenProperties
<1>2. ASSUME NEW i \in 1 .. n
      PROVE  \E j \in 1 .. n : t[i] = s[j] /\ (i = 1 => j = n) /\ (i # 1 => j = i - 1)
  <2>1. CASE i = 1
    BY <2>1
  <2>2. CASE i # 1
    <3>1. i - 1 \in 1 .. n - 1 /\ i - 1 \in 1 .. n /\ i - 1 + 1 = i
      BY <2>2
    <3> QED
      BY <2>2, <3>1
  <2> QED
    BY <2>1, <2>2
<1>3. ASSUME NEW j \in 1 .. n PROVE \E i \in 1 .. n : t[i] = s[j]
  <2>1. CASE j = n
    BY <2>1
  <2>2. CASE j # n
    <3>1. j \in 1 .. n - 1 /\ j + 1 \in 1 .. n
      BY <2>2
    <3> QED
      BY <3>1
  <2> QED
    BY <2>1, <2>2
<1>4. ASSUME IsInjective(s) PROVE IsInjective(t)
  <2>1. \A i, j \in 1 .. n : s[i] = s[j] => i = j
    BY <1>1, <1>4 DEF IsInjective
  <2>2. ASSUME NEW i \in 1 .. n, NEW j \in 1 .. n, t[i] = t[j] PROVE i = j
    <3>1. PICK k \in 1 .. n : t[i] = s[k] /\ (i = 1 => k = n) /\ (i # 1 => k = i - 1)
      BY <1>2
    <3>2. PICK l \in 1 .. n : t[j] = s[l] /\ (j = 1 => l = n) /\ (j # 1 => l = j - 1)
      BY <1>2
    <3>3. k = l
      BY <2>1, <2>2, <3>1, <3>2
    <3> QED
      BY <3>1, <3>2, <3>3
  <2> QED
    BY <1>1, <2>2 DEF IsInjective
<1>5. \A x : x \in ToSet(t) <=> \E i \in 1 .. n : t[i] = x
  BY Members
<1>6. \A x : x \in ToSet(s) <=> \E i \in 1 .. n : s[i] = x
  BY Members, SMTT(30)
<1>7. ASSUME NEW x PROVE x \in ToSet(t) <=> x \in ToSet(s)
  BY <1>2, <1>3, <1>5, <1>6
<1> QED
  BY <1>4, <1>7

LEMMA QueueCallback ==
    ASSUME QueueInv, Callback, UNCHANGED remoteVars
    PROVE  QueueInv'
<1> DEFINE u == unqueued
           q == queued
           m == Len(queued)
           k == Len(unqueued)
<1>1. /\ due \in Nat \ {0} /\ due' = due - 1 /\ emulation \in {"idle", "mix"}
      /\ player = "made" /\ Len(slQueue) \in Nat
      /\ UNCHANGED <<player, slQueue, mem, emulation, output>>
  BY Sizes DEF Callback, Unlocking, QueueInv, LineInv, TypeOK, QueueTypeOK, Stages, playerVars
<1>2. Line = q /\ Line' = queued'
  <2>1. queued' \in Seq(SubBuffer)
    BY FrontIs, ZenonT(40) DEF Callback, listVars, QueueInv, TypeOK, QueueTypeOK
  <2> QED
    BY <1>1, <2>1, LineIs, ConcatEmptySeq DEF Line
<1>3. /\ u \in Seq(SubBuffer) /\ q \in Seq(SubBuffer) /\ k \in Nat /\ m \in Nat \ {0}
      /\ k + m = NumSubBuffers /\ q # << >>
  <2>1. u \in Seq(SubBuffer) /\ q \in Seq(SubBuffer) /\ k \in Nat /\ m \in Nat
    BY Sizes DEF QueueInv, TypeOK, QueueTypeOK
  <2>2. m = Len(slQueue) + due
    BY <1>1, <1>2 DEF QueueInv, LineInv
  <2> QED
    BY <1>1, <2>1, <2>2, Members DEF QueueInv, ListInv
<1> DEFINE b == Last(q)
           f == Front(q)
<1>4. /\ f \in Seq(SubBuffer) /\ Len(f) = m - 1 /\ \A i \in 1 .. m - 1 : f[i] = q[i]
      /\ b \in SubBuffer /\ b = q[m]
  BY <1>3, FrontIs
<1>5. queued' = f /\ unqueued' = <<b>> \o u
  BY <1>3 DEF Callback
<1> HIDE DEF u, q, m, k, b, f
<1>6. <<b>> \in Seq(SubBuffer) /\ Len(<<b>>) = 1 /\ <<b>>[1] = b
  BY <1>4
<1>7. /\ unqueued' \in Seq(SubBuffer) /\ Len(unqueued') = 1 + k
      /\ \A i \in 1 .. 1 + k : unqueued'[i] = IF i <= 1 THEN <<b>>[i] ELSE u[i - 1]
  BY <1>3, <1>5, <1>6, ConcatProperties DEF k, u
<1>8. ListInv'
  <2> DEFINE s == u \o q
             t == unqueued' \o queued'
             n == NumSubBuffers
  <2>1. /\ s \in Seq(SubBuffer) /\ Len(s) = k + m
        /\ \A i \in 1 .. k + m : s[i] = IF i <= k THEN u[i] ELSE q[i - k]
    BY <1>3, ConcatProperties DEF k, m, u, q
  <2>2. /\ t \in Seq(SubBuffer) /\ Len(t) = 1 + k + (m - 1)
        /\ \A i \in 1 .. 1 + k + (m - 1) : t[i] = IF i <= 1 + k THEN unqueued'[i] ELSE f[i - (1 + k)]
    BY <1>4, <1>5, <1>7, ConcatProperties
  <2>3. IsInjective(s) /\ ToSet(s) = SubBuffer
    BY DEF QueueInv, ListInv, u, q
  <2> HIDE DEF s, t
  <2>4. Len(s) = n /\ Len(t) = n /\ n \in Nat \ {0}
    BY <1>3, <2>1, <2>2, PlayQueueAssumption
  <2>5. t[1] = s[n]
    <3>1. t[1] = b
      BY <1>3, <1>6, <1>7, <2>2
    <3>2. s[n] = q[m]
      <4>1. n \in 1 .. k + m /\ ~(n <= k) /\ n - k = m
        BY <1>3
      <4> QED
        BY <2>1, <4>1
    <3> QED
      BY <1>4, <3>1, <3>2
  <2>6. ASSUME NEW i \in 1 .. n - 1 PROVE t[i + 1] = s[i]
    <3>1. i \in 1 .. k + m /\ i + 1 \in 1 .. 1 + k + (m - 1) /\ i + 1 - 1 = i
      BY <1>3
    <3>2. CASE i <= k
      <4>1. i + 1 <= 1 + k /\ ~(i + 1 <= 1) /\ i + 1 \in 1 .. 1 + k
        BY <1>3, <3>2
      <4>2. t[i + 1] = u[i]
        BY <1>7, <2>2, <3>1, <4>1
      <4> QED
        BY <2>1, <3>1, <3>2, <4>2
    <3>3. CASE ~(i <= k)
      <4>1. ~(i + 1 <= 1 + k) /\ i + 1 - (1 + k) = i - k /\ i - k \in 1 .. m - 1
        BY <1>3, <3>3
      <4> DEFINE j == i + 1
      <4>2. j \in 1 .. 1 + k + (m - 1) /\ ~(j <= 1 + k) /\ j - (1 + k) = i - k
        BY <1>3, <3>1, <3>3, <4>1
      <4> HIDE DEF j
      <4>3. t[j] = f[i - k]
        BY <2>2, <4>2
      <4>4. s[i] = q[i - k]
        BY <2>1, <3>1, <3>3
      <4> QED
        BY <1>4, <4>1, <4>3, <4>4 DEF j
    <3> QED
      BY <3>2, <3>3
  <2>7. IsInjective(t) /\ ToSet(t) = SubBuffer
    BY <2>1, <2>2, <2>3, <2>4, <2>5, <2>6, TurnedRound
  <2>8. Len(unqueued') + Len(queued') = NumSubBuffers
    <3>1. 1 + k + (m - 1) = NumSubBuffers
      BY <1>3
    <3> QED
      BY <1>4, <1>5, <1>7, <3>1
  <2> QED
    BY <2>7, <2>8 DEF ListInv, t
<1>9. LineInv'
  <2> DEFINE n == Len(slQueue)
  <2>1. /\ n <= m /\ m = n + due
        /\ \A i \in 1 .. n : slQueue[i].buffer = q[n + 1 - i]
    BY <1>1, <1>2 DEF QueueInv, LineInv, m, q
  <2>2. Len(Line') = m - 1 /\ Len(slQueue') = n /\ slQueue' = slQueue
    BY <1>1, <1>2, <1>4, <1>5
  <2>3. n <= m - 1 /\ m - 1 = n + (due - 1)
    BY <1>1, <1>3, <2>1
  <2>4. ASSUME NEW i \in 1 .. n PROVE slQueue[i].buffer = f[n + 1 - i]
    <3>1. n + 1 - i \in 1 .. m - 1
      BY <1>1, <1>3, <2>3
    <3> QED
      BY <1>4, <2>1, <3>1
  <2> QED
    BY <1>1, <1>2, <1>5, <2>2, <2>3, <2>4 DEF LineInv
<1>10. StoredInv' /\ OutputInv'
  BY <1>1 DEF QueueInv, StoredInv, OutputInv, Unlocking
<1>11. RoomIsThere'
  <2>1. k * SubSize \in Nat /\ (1 + k) * SubSize \in Nat /\ k * SubSize <= (1 + k) * SubSize
    <3>1. 1 + k \in Nat /\ k <= 1 + k
      BY <1>3
    <3> QED
      BY <1>3, <3>1, Times
  <2>2. Len(output) \in Nat /\ room \in Nat /\ room' = room
    BY Sizes DEF QueueInv, remoteVars
  <2>3. emulation # "idle" =>
            Len(output) + (IF emulation = "mix" THEN room ELSE 0) <= k * SubSize
    BY DEF QueueInv, RoomIsThere, k
  <2>4. emulation # "idle" =>
            Len(output) + (IF emulation = "mix" THEN room ELSE 0) <= (1 + k) * SubSize
    BY <2>1, <2>2, <2>3
  <2> QED
    BY <1>1, <1>7, <2>2, <2>4 DEF RoomIsThere
<1>12. TypeOK'
  <2>1. due' \in 0 .. NumSubBuffers
    <3>1. due \in 0 .. NumSubBuffers
      BY DEF QueueInv, TypeOK, QueueTypeOK
    <3> QED
      BY <1>1, <3>1, PlayQueueAssumption
  <2> QED
    BY <1>4, <1>5, <1>7, <2>1 DEF Callback, QueueInv, TypeOK, QueueTypeOK, playerVars, remoteVars
<1> QED
  BY <1>8, <1>9, <1>10, <1>11, <1>12 DEF QueueInv

LEMMA QueueSettings ==
    ASSUME QueueInv, UNCHANGED remoteVars, UpdateSettings \/ Pause \/ Resume
    PROVE  QueueInv'
<1>1. CASE UpdateSettings
  <2>1. ResetSLESPlayer /\ emulation = "idle" /\ emulation' = "idle" /\ output' = output
    BY <1>1 DEF UpdateSettings
  <2>2. faults' \in 0 .. MaxFaults
    BY <1>1, PlayQueueAssumption DEF UpdateSettings, Fault, QueueInv, TypeOK, QueueTypeOK
  <2>3. << >> \in Seq([buffer : SubBuffer, size : 1 .. SubSize]) /\ 0 \in 0 .. NumSubBuffers
    BY EmptySeq, PlayQueueAssumption
  <2>4. TypeOK'
    BY <2>1, <2>2, <2>3, ResetKeeps DEF QueueInv, TypeOK, QueueTypeOK, remoteVars
  <2>5. OutputInv' /\ RoomIsThere'
    BY <2>1 DEF QueueInv, OutputInv, RoomIsThere, Unlocking
  <2> QED
    BY <2>1, <2>4, <2>5, ResetKeeps DEF QueueInv
<1>2. CASE Pause \/ Resume
  <2>1. ListInv' /\ LineInv' /\ StoredInv'
    BY <1>2, ListsKept DEF Pause, Resume
  <2>2. OutputInv' /\ RoomIsThere'
    BY <1>2 DEF QueueInv, OutputInv, RoomIsThere, Unlocking, Pause, Resume, listVars, remoteVars
  <2>3. TypeOK'
    BY <1>2 DEF QueueInv, TypeOK, QueueTypeOK, Pause, Resume, slVars, listVars, remoteVars
  <2> QED
    BY <2>1, <2>2, <2>3 DEF QueueInv
<1> QED
  BY <1>1, <1>2

\* The sub-buffer that Submit writes, and what it holds then.
Written == Chunk \o SubSeq(mem[Last(unqueued)], Len(Chunk) + 1, Len(mem[Last(unqueued)]))

LEMMA SubmitIs ==
    ASSUME QueueInv, Submit
    PROVE  /\ mem' = [mem EXCEPT ![Last(unqueued)] = Written]
           /\ Written \in Seq(Sample) /\ Len(Written) <= SubSize
           /\ Len(Written) >= Len(Chunk) /\ Len(Written) >= Len(mem[Last(unqueued)])
           /\ SubSeq(Written, 1, Len(Chunk)) = Chunk
           /\ \/ /\ slQueue' = Append(slQueue, [buffer |-> Last(unqueued), size |-> Len(Chunk)])
                 /\ emulation' = "note" /\ UNCHANGED <<output, dropped, faults>>
                 /\ Len(slQueue) < NumSubBuffers
              \/ /\ Fault /\ output' = << >> /\ dropped' = dropped \cup ToSet(output)
                 /\ emulation' = "idle" /\ UNCHANGED slQueue
<1> DEFINE n == Len(Chunk)
           old == mem[Last(unqueued)]
           tail == SubSeq(old, n + 1, Len(old))
<1>1. /\ unqueued # << >> /\ output # << >> /\ Last(unqueued) \in SubBuffer
  BY SomethingIsUnqueued DEF Submit, Unlocking
<1>2. Chunk \in Seq(Sample) /\ n \in 1 .. SubSize /\ SubSize \in Nat
  BY <1>1, ChunkIs, PlayQueueAssumption DEF QueueInv
<1>3. old \in Seq(Sample) /\ Len(old) \in Nat /\ Len(old) <= SubSize
  BY <1>1, LenProperties DEF QueueInv, TypeOK, QueueTypeOK
<1>4. Written = Chunk \o tail
  BY DEF Written
<1> HIDE DEF n, old
<1>5. tail \in Seq(Sample) /\ Len(tail) = IF n + 1 <= Len(old) THEN Len(old) - (n + 1) + 1 ELSE 0
  <2>1. ASSUME NEW i \in n + 1 .. Len(old) PROVE old[i] \in Sample
    <3>1. i \in 1 .. Len(old)
      BY <1>2
    <3> QED
      BY <1>3, <3>1, ElementOfSeq
  <2>2. n + 1 \in Int /\ Len(old) \in Int
    BY <1>2, <1>3
  <2> QED
    BY <2>1, <2>2, SubSeqProperties
<1> HIDE DEF tail
<1>6. /\ Written \in Seq(Sample) /\ Len(Written) = n + Len(tail)
      /\ \A i \in 1 .. n + Len(tail) : Written[i] = IF i <= n THEN Chunk[i] ELSE tail[i - n]
  BY <1>2, <1>4, <1>5, ConcatProperties DEF n
<1>7. Len(tail) \in Nat /\ Len(Written) <= SubSize /\ Len(Written) >= n /\ Len(Written) >= Len(old)
  <2>1. CASE n + 1 <= Len(old)
    BY <1>2, <1>3, <1>5, <1>6, <2>1
  <2>2. CASE ~(n + 1 <= Len(old))
    BY <1>2, <1>3, <1>5, <1>6, <2>2
  <2> QED
    BY <2>1, <2>2
<1>8. SubSeq(Written, 1, n) = Chunk
  <2> DEFINE w == SubSeq(Written, 1, n)
  <2>1. w \in Seq(Sample) /\ Len(w) = n /\ \A i \in 1 .. n : w[i] = Written[i]
    <3>1. n \in 0 .. Len(Written) /\ Sample \subseteq Int
      BY <1>2, <1>6, <1>7 DEF Sample
    <3> QED
      BY <1>6, <3>1, SplitIs
  <2> HIDE DEF w
  <2>2. \A i \in 1 .. n : w[i] = Chunk[i]
    BY <1>2, <1>6, <1>7, <2>1
  <2>3. w = Chunk
    BY <1>2, <2>1, <2>2, SeqEqual DEF n
  <2> QED
    BY <2>3 DEF w
<1>9. mem' = [mem EXCEPT ![Last(unqueued)] = Written]
  BY DEF Submit, Written
<1>10. \/ /\ slQueue' = Append(slQueue, [buffer |-> Last(unqueued), size |-> Len(Chunk)])
          /\ emulation' = "note" /\ UNCHANGED <<output, dropped, faults>>
          /\ Len(slQueue) < NumSubBuffers
       \/ /\ Fault /\ output' = << >> /\ dropped' = dropped \cup ToSet(output)
          /\ emulation' = "idle" /\ UNCHANGED slQueue
  BY DEF Submit
<1> QED
  BY <1>6, <1>7, <1>8, <1>9, <1>10 DEF n, old

LEMMA QueueSubmit ==
    ASSUME QueueInv, Submit, UNCHANGED remoteVars
    PROVE  QueueInv'
<1> DEFINE b == Last(unqueued)
           n == Len(Chunk)
           l == Len(slQueue)
           e == [buffer |-> b, size |-> n]
<1>1. /\ emulation = "submit" /\ UNCHANGED <<player, due, unqueued, queued>>
      /\ b \in SubBuffer /\ output # << >> /\ n \in 1 .. SubSize /\ SubSize \in Nat
      /\ l \in Nat /\ Len(queued) \in Nat
      /\ slQueue \in Seq([buffer : SubBuffer, size : 1 .. SubSize])
      /\ mem \in [SubBuffer -> Seq(Sample)] /\ \A i \in SubBuffer : Len(mem[i]) <= SubSize
  BY SomethingIsUnqueued, ChunkIs, Sizes
  DEF Submit, Unlocking, QueueInv, TypeOK, QueueTypeOK, playerVars, listVars
<1>2. /\ Written \in Seq(Sample) /\ Len(Written) <= SubSize
      /\ Len(Written) >= n /\ Len(Written) >= Len(mem[b])
      /\ mem' = [mem EXCEPT ![b] = Written]
  BY SubmitIs
<1>3. mem' \in [SubBuffer -> Seq(Sample)] /\ \A i \in SubBuffer : Len(mem'[i]) <= SubSize
  BY <1>1, <1>2
<1>4. ListInv'
  BY <1>1 DEF QueueInv, ListInv
<1>5. ASSUME NEW i \in 1 .. l
      PROVE  slQueue[i].size <= Len(mem'[slQueue[i].buffer])
  <2> DEFINE c == slQueue[i].buffer
             z == slQueue[i].size
  <2>1. c \in SubBuffer /\ z \in 1 .. SubSize /\ z <= Len(mem[c])
    BY GivenIs DEF QueueInv, StoredInv
  <2>2. Len(mem[c]) \in Nat /\ Len(Written) \in Nat
    BY <1>1, <1>2, <2>1, LenProperties
  <2>3. mem'[c] = IF c = b THEN Written ELSE mem[c]
    BY <1>1, <1>2, <2>1
  <2> HIDE DEF c, z
  <2>4. CASE c = b
    BY <1>2, <2>1, <2>2, <2>3, <2>4 DEF c, z
  <2>5. CASE c # b
    BY <2>1, <2>3, <2>5 DEF c, z
  <2> QED
    BY <2>4, <2>5
<1>6. CASE /\ slQueue' = Append(slQueue, e)
           /\ emulation' = "note" /\ UNCHANGED <<output, dropped, faults>>
           /\ l < NumSubBuffers
  <2>1. e \in [buffer : SubBuffer, size : 1 .. SubSize] /\ e.buffer = b /\ e.size = n
    BY <1>1
  <2> HIDE DEF e
  <2>2. /\ slQueue' \in Seq([buffer : SubBuffer, size : 1 .. SubSize])
        /\ Len(slQueue') = l + 1
        /\ \A i \in 1 .. l : slQueue'[i] = slQueue[i]
        /\ slQueue'[l + 1] = e
    BY <1>1, <1>6, <2>1, AppendProperties
  <2>3. Line = queued /\ queued \in Seq(SubBuffer)
    BY <1>1, LineIs DEF QueueInv, TypeOK, QueueTypeOK
  <2>4. Line' = <<b>> \o queued
    BY <1>1, <1>6 DEF Line
  <2>5. <<b>> \in Seq(SubBuffer) /\ Len(<<b>>) = 1 /\ <<b>>[1] = b
    BY <1>1
  <2> HIDE DEF b
  <2>6. /\ Len(Line') = 1 + Len(queued)
        /\ \A i \in 1 .. 1 + Len(queued) : Line'[i] = IF i <= 1 THEN <<b>>[i] ELSE queued[i - 1]
    BY <2>3, <2>4, <2>5, ConcatProperties
  <2>7. /\ l <= Len(queued) /\ \A i \in 1 .. l : slQueue[i].buffer = queued[l + 1 - i]
        /\ player = "made" => Len(queued) = l + due
        /\ due > 0 => player = "made"
    BY <2>3 DEF QueueInv, LineInv
  <2>8. due \in Nat
    BY Sizes DEF QueueInv
  <2>9. ASSUME NEW i \in 1 .. l + 1 PROVE slQueue'[i].buffer = Line'[l + 1 + 1 - i]
    <3>1. CASE i = l + 1
      <4>1. l + 1 + 1 - i = 1 /\ 1 \in 1 .. 1 + Len(queued)
        BY <1>1, <3>1
      <4> QED
        BY <2>1, <2>2, <2>5, <2>6, <3>1, <4>1
    <3>2. CASE i # l + 1
      <4> DEFINE j == l + 1 + 1 - i
      <4>1. i \in 1 .. l /\ j \in 1 .. 1 + Len(queued) /\ ~(j <= 1) /\ j - 1 = l + 1 - i
        <5>1. l \in Nat /\ Len(queued) \in Nat /\ l <= Len(queued)
          BY <1>1, <2>7
        <5> HIDE DEF l
        <5> QED
          BY <5>1, <3>2
      <4> HIDE DEF j
      <4>2. Line'[j] = queued[l + 1 - i]
        BY <2>6, <4>1
      <4> QED
        BY <2>2, <2>7, <4>1, <4>2 DEF j
    <3> QED
      BY <3>1, <3>2
  <2>10. LineInv'
    <3>1. Len(slQueue') <= Len(Line')
      BY <1>1, <2>2, <2>6, <2>7
    <3>2. player' = "made" => Len(Line') = Len(slQueue') + due'
      <4>1. ASSUME player = "made" PROVE 1 + Len(queued) = l + 1 + due
        <5>1. l \in Nat /\ Len(queued) \in Nat /\ Len(queued) = l + due
          BY <1>1, <2>7, <4>1
        <5> HIDE DEF l
        <5> QED
          BY <2>8, <5>1
      <4> QED
        BY <1>1, <2>2, <2>6, <4>1
    <3> QED
      BY <1>1, <2>2, <2>7, <2>9, <3>1, <3>2 DEF LineInv
  <2>11. StoredInv'
    <3>1. n <= Len(mem'[b])
      BY <1>1, <1>2
    <3>2. ASSUME NEW i \in 1 .. l + 1 PROVE slQueue'[i].size <= Len(mem'[slQueue'[i].buffer])
      <4>1. CASE i = l + 1
        BY <2>1, <2>2, <3>1, <4>1
      <4>2. CASE i # l + 1
        <5>1. i \in 1 .. l
          BY <1>1, <4>2
        <5> QED
          BY <1>5, <2>2, <5>1
      <4> QED
        BY <4>1, <4>2
    <3> QED
      BY <2>2, <3>2 DEF StoredInv
  <2>12. OutputInv'
    BY <1>1, <1>6 DEF OutputInv
  <2>13. RoomIsThere'
    BY <1>1, <1>6 DEF QueueInv, RoomIsThere
  <2>14. TypeOK'
    BY <1>1, <1>3, <1>6, <2>2 DEF Submit, Stages, QueueInv, TypeOK, QueueTypeOK, playerVars, remoteVars
  <2> QED
    BY <1>4, <2>10, <2>11, <2>12, <2>13, <2>14 DEF QueueInv
<1>7. CASE /\ Fault /\ output' = << >> /\ dropped' = dropped \cup ToSet(output)
           /\ emulation' = "idle" /\ UNCHANGED slQueue
  <2>1. LineInv'
    <3>1. Line' = Line
      BY <1>1, <1>7 DEF Line
    <3> QED
      BY <1>1, <1>7, <3>1 DEF QueueInv, LineInv
  <2>2. StoredInv'
    BY <1>5, <1>7 DEF StoredInv
  <2>3. OutputInv' /\ RoomIsThere'
    BY <1>7 DEF OutputInv, RoomIsThere, Unlocking
  <2>4. dropped' \in SUBSET Sample /\ << >> \in Seq(Sample)
    BY <1>7, EmptySeq, Members DEF QueueInv, TypeOK, QueueTypeOK
  <2>5. faults' \in 0 .. MaxFaults
    BY <1>7, PlayQueueAssumption DEF Fault, QueueInv, TypeOK, QueueTypeOK
  <2>6. TypeOK'
    BY <1>1, <1>3, <1>7, <2>4, <2>5
    DEF Submit, Stages, QueueInv, TypeOK, QueueTypeOK, playerVars, remoteVars
  <2> QED
    BY <1>4, <2>1, <2>2, <2>3, <2>6 DEF QueueInv
<1> QED
  BY <1>6, <1>7, SubmitIs

LEMMA QueueNote ==
    ASSUME QueueInv, Note, UNCHANGED remoteVars
    PROVE  QueueInv'
<1> DEFINE b == Last(unqueued)
           f == Front(unqueued)
           k == Len(unqueued)
           m == Len(queued)
           n == Len(Chunk)
<1>1. /\ emulation = "note" /\ unqueued # << >> /\ output # << >> /\ b \in SubBuffer
      /\ unqueued \in Seq(SubBuffer) /\ queued \in Seq(SubBuffer)
      /\ k \in Nat \ {0} /\ m \in Nat /\ k + m = NumSubBuffers
  BY SomethingIsUnqueued, Sizes DEF Note, Unlocking, QueueInv, ListInv, TypeOK, QueueTypeOK
<1>2. f \in Seq(SubBuffer) /\ Len(f) = k - 1 /\ \A i \in 1 .. k - 1 : f[i] = unqueued[i]
  BY <1>1, FrontIs
<1>3. /\ unqueued' = f /\ queued' = <<b>> \o queued
      /\ UNCHANGED <<player, slQueue, due, mem, dropped>>
      /\ emulation' \in {"idle", "submit"}
      /\ emulation' = IF output' = << >> THEN "idle" ELSE "submit"
  BY DEF Note, playerVars, slVars
<1>4. <<b>> \in Seq(SubBuffer) /\ Len(<<b>>) = 1 /\ <<b>>[1] = b /\ b = unqueued[k]
  BY <1>1, FrontIs
<1> HIDE DEF b, f
<1>5. /\ queued' \in Seq(SubBuffer) /\ Len(queued') = 1 + m
      /\ \A i \in 1 .. 1 + m : queued'[i] = IF i <= 1 THEN <<b>>[i] ELSE queued[i - 1]
  BY <1>1, <1>3, <1>4, ConcatProperties
<1>6. Line' = Line
  <2>1. Line' = queued'
    BY <1>3, <1>5, ConcatEmptySeq DEF Line
  <2>2. Line = <<b>> \o queued
    BY <1>1 DEF Line, b
  <2> QED
    BY <1>3, <2>1, <2>2
<1>7. LineInv' /\ StoredInv'
  BY <1>3, <1>6 DEF QueueInv, LineInv, StoredInv
<1>8. ListInv'
  <2> DEFINE s == unqueued \o queued
             t == unqueued' \o queued'
  <2>1. /\ s \in Seq(SubBuffer) /\ Len(s) = k + m
        /\ \A i \in 1 .. k + m : s[i] = IF i <= k THEN unqueued[i] ELSE queued[i - k]
    BY <1>1, ConcatProperties
  <2>2. /\ t \in Seq(SubBuffer) /\ Len(t) = k - 1 + (1 + m)
        /\ \A i \in 1 .. k - 1 + (1 + m) : t[i] = IF i <= k - 1 THEN f[i] ELSE queued'[i - (k - 1)]
    <3>1. unqueued' \in Seq(SubBuffer) /\ Len(unqueued') = k - 1
      BY <1>2, <1>3
    <3> HIDE DEF k, m
    <3>2. /\ t \in Seq(SubBuffer) /\ Len(t) = k - 1 + (1 + m)
          /\ \A i \in 1 .. k - 1 + (1 + m) :
                t[i] = IF i <= k - 1 THEN unqueued'[i] ELSE queued'[i - (k - 1)]
      <4>1. queued' \in Seq(SubBuffer) /\ Len(queued') = 1 + m
        BY <1>5
      <4>2. /\ t \in Seq(SubBuffer) /\ Len(t) = Len(unqueued') + Len(queued')
            /\ \A i \in 1 .. Len(unqueued') + Len(queued') :
                  t[i] = IF i <= Len(unqueued') THEN unqueued'[i] ELSE queued'[i - Len(unqueued')]
        BY <3>1, <4>1, ConcatProperties
      <4> HIDE DEF t
      <4> QED
        BY <3>1, <4>1, <4>2
    <3> QED
      BY <1>3, <3>2
  <2> HIDE DEF s, t, k, m
  <2>3. ASSUME NEW i \in 1 .. k + m PROVE t[i] = s[i]
    <3>1. i \in 1 .. k - 1 + (1 + m)
      BY <1>1
    <3>2. CASE i <= k - 1
      BY <1>1, <1>2, <2>1, <2>2, <3>1, <3>2, SMTT(30)
    <3>3. CASE i = k
      <4>1. ~(i <= k - 1) /\ i - (k - 1) = 1 /\ 1 \in 1 .. 1 + m
        BY <1>1, <3>3
      <4>2. t[i] = b
        BY <1>4, <1>5, <2>2, <3>1, <4>1
      <4> QED
        BY <1>1, <1>4, <2>1, <3>3, <4>2
    <3>4. CASE ~(i <= k)
      <4> DEFINE j == i - (k - 1)
      <4>1. ~(i <= k - 1) /\ j \in 1 .. 1 + m /\ ~(j <= 1) /\ j - 1 = i - k
        BY <1>1, <3>4
      <4> HIDE DEF j
      <4>2. t[i] = queued[i - k]
        BY <1>5, <2>2, <3>1, <4>1 DEF j
      <4> QED
        BY <2>1, <3>4, <4>2
    <3>5. i <= k - 1 \/ i = k \/ ~(i <= k)
      BY <1>1
    <3> QED
      BY <3>2, <3>3, <3>4, <3>5
  <2>4. Len(t) = Len(s)
    <3>1. k - 1 + (1 + m) = k + m
      BY <1>1
    <3> QED
      BY <2>1, <2>2, <3>1
  <2>5. t = s
    BY <2>1, <2>2, <2>3, <2>4, SeqEqual
  <2>6. Len(unqueued') + Len(queued') = NumSubBuffers
    <3>1. k - 1 + (1 + m) = NumSubBuffers
      BY <1>1
    <3> QED
      BY <1>2, <1>3, <1>5, <3>1
  <2> QED
    BY <2>5, <2>6 DEF s, t, QueueInv, ListInv
<1>9. /\ n \in 1 .. SubSize /\ n <= Len(output) /\ (n = SubSize \/ n = Len(output))
      /\ Len(output) \in Nat /\ SubSize \in Nat /\ room \in Nat
      /\ output' \in Seq(Sample) /\ Len(output') = Len(output) - n
      /\ output' = << >> <=> Len(output') = 0
  <2>1. output' = SubSeq(output, n + 1, Len(output))
    BY DEF Note
  <2>2. TypeOK
    BY DEF QueueInv
  <2>3. /\ n \in 1 .. SubSize /\ n <= Len(output) /\ (n = SubSize \/ n = Len(output))
        /\ output' \in Seq(Sample) /\ Len(output') = Len(output) - n
    BY <1>1, <2>1, <2>2, ChunkIs
  <2>4. output' = << >> <=> Len(output') = 0
    BY <2>3, Members
  <2> QED
    BY <2>2, <2>3, <2>4, Sizes
<1>10. OutputInv'
  BY <1>3 DEF OutputInv, Unlocking
<1>11. RoomIsThere'
  <2>1. CASE output' = << >>
    BY <1>3, <2>1 DEF RoomIsThere
  <2>2. CASE output' # << >>
    <3>1. Len(output) <= k * SubSize
      BY <1>1, <1>9 DEF QueueInv, RoomIsThere
    <3>2. n = SubSize
      BY <1>9, <2>2
    <3>3. k * SubSize = (k - 1) * SubSize + SubSize /\ (k - 1) * SubSize \in Nat
      <4>1. k - 1 \in Nat /\ k - 1 + 1 = k
        BY <1>1
      <4> QED
        BY <4>1, Times
    <3>4. Len(output') <= (k - 1) * SubSize
      BY <1>9, <3>1, <3>2, <3>3
    <3>5. emulation' = "submit"
      BY <1>3, <2>2
    <3> HIDE DEF k
    <3>6. Len(output') + 0 = Len(output')
      BY <1>9
    <3> QED
      BY <1>2, <1>3, <3>4, <3>5, <3>6 DEF RoomIsThere
  <2> QED
    BY <2>1, <2>2
<1>12. TypeOK'
  BY <1>2, <1>3, <1>5, <1>9
  DEF Note, Stages, QueueInv, TypeOK, QueueTypeOK, playerVars, slVars, remoteVars
<1> QED
  BY <1>7, <1>8, <1>10, <1>11, <1>12 DEF QueueInv

LEMMA QueueInit0 == Init => QueueInv
<1> SUFFICES ASSUME Init PROVE QueueInv
  OBVIOUS
<1> USE DEF Init, QueueInit
<1>1. NumSubBuffers \in Nat /\ SubSize \in Nat /\ NumSubBuffers * SubSize \in Nat
  BY Times, PlayQueueAssumption
<1> DEFINE d == [i \in SubBuffer |-> i]
<1>2. d \in [1 .. NumSubBuffers -> SubBuffer]
  BY DEF SubBuffer
<1>3. d \in Seq(SubBuffer) /\ Len(d) = NumSubBuffers
  BY <1>1, <1>2
<1>4. unqueued = d /\ queued = << >> /\ queued \in Seq(SubBuffer) /\ Len(queued) = 0
  OBVIOUS
<1>5. Line = << >> \o queued
  BY DEF Line
<1>6. Line = << >> /\ Len(Line) = 0 /\ unqueued \o queued = d
  BY <1>3, <1>4, <1>5, ConcatEmptySeq
<1>7. IsInjective(d) /\ ToSet(d) = SubBuffer
  BY DEF IsInjective, ToSet
<1> HIDE DEF d
<1>8. ListInv
  <2>1. Len(unqueued) + Len(queued) = NumSubBuffers
    BY <1>1, <1>3, <1>4
  <2> QED
    BY <1>6, <1>7, <2>1 DEF ListInv
<1>9. LineInv
  BY <1>6 DEF LineInv
<1>10. StoredInv /\ OutputInv /\ RoomIsThere
  BY DEF StoredInv, OutputInv, RoomIsThere, Unlocking
<1>11. /\ << >> \in Seq(Sample) /\ Len(<< >>) = 0 /\ << >> \in Seq(Seq(Sample))
       /\ << >> \in Seq([buffer : SubBuffer, size : 1 .. SubSize])
  BY EmptySeq
<1>12. mem \in [SubBuffer -> Seq(Sample)] /\ \A b \in SubBuffer : Len(mem[b]) <= SubSize
  BY <1>1, <1>11
<1>13. /\ faults \in 0 .. MaxFaults /\ sent \in 0 .. MaxSamples /\ due \in 0 .. NumSubBuffers
       /\ room \in 0 .. NumSubBuffers * SubSize
  BY <1>1, PlayQueueAssumption
<1>14. QueueTypeOK
  BY <1>3, <1>4, <1>11, <1>12, <1>13 DEF QueueTypeOK, Stages
<1>15. packets \in Seq(Seq(Sample)) /\ buffers \in [0 .. 1 -> Seq(Sample)] /\ next \in 0 .. 1
  BY <1>11
<1>16. TypeOK
  BY <1>13, <1>14, <1>15 DEF TypeOK
<1> QED
  BY <1>8, <1>9, <1>10, <1>16 DEF QueueInv

LEMMA QueueStutter ==
    ASSUME QueueInv, UNCHANGED vars
    PROVE  QueueInv'
<1>1. ListInv' /\ LineInv' /\ StoredInv'
  BY ListsKept DEF vars, queueVars, playerVars
<1>2. OutputInv' /\ RoomIsThere' /\ TypeOK'
  BY DEF QueueInv, OutputInv, RoomIsThere, Unlocking, TypeOK, QueueTypeOK,
         vars, queueVars, remoteVars, playerVars, slVars, listVars
<1> QED
  BY <1>1, <1>2 DEF QueueInv

LEMMA QueueStep == QueueInv /\ [Next]_vars => QueueInv'
<1> SUFFICES ASSUME QueueInv, [Next]_vars PROVE QueueInv'
  OBVIOUS
<1>1. CASE \E n \in 1 .. MaxPacket : Arrive(n)
  BY <1>1, QueueArrive
<1>2. CASE BeginFrame
  BY <1>2, QueueBeginFrame
<1>3. CASE Mix
  BY <1>3, QueueMix
<1>4. CASE EndFrame
  BY <1>4, QueueEndFrame
<1>5. CASE LoadRemote
  BY <1>5, QueueLoadRemote
<1>6. CASE Play /\ UNCHANGED remoteVars
  BY <1>6, QueuePlay
<1>7. CASE Callback /\ UNCHANGED remoteVars
  BY <1>7, QueueCallback
<1>8. CASE (UpdateSettings \/ Pause \/ Resume) /\ UNCHANGED remoteVars
  BY <1>8, QueueSettings
<1>9. CASE Submit /\ UNCHANGED remoteVars
  BY <1>9, QueueSubmit
<1>10. CASE Note /\ UNCHANGED remoteVars
  BY <1>10, QueueNote
<1>11. CASE UNCHANGED vars
  BY <1>11, QueueStutter
<1> QED
  BY <1>1, <1>2, <1>3, <1>4, <1>5, <1>6, <1>7, <1>8, <1>9, <1>10, <1>11 DEF Next, Driver

LEMMA QueueAlways == Spec => []QueueInv
  BY QueueInit0, QueueStep, PTL DEF Spec

\* The driver's and the client's variables have their types: what a sub-buffer
\* holds is never longer than a sub-buffer, and no more callbacks are due than there
\* are sub-buffers.
THEOREM SoundTypeCorrect == Spec => []TypeOK
<1>1. QueueInv => TypeOK
  BY DEF QueueInv
<1> QED
  BY <1>1, QueueAlways, PTL

\* Whatever is mixed fits into the sub-buffers that are not queued: Unlock never
\* takes one from an empty list.
THEOREM MixedSoundFits == Spec => []RoomIsThere
<1>1. QueueInv => RoomIsThere
  BY DEF QueueInv
<1> QED
  BY <1>1, QueueAlways, PTL

\* The line of sub-buffers, the oldest first, is what QueuesAgree calls pending.
LEMMA PendingIs ==
    ASSUME QueueInv
    PROVE  /\ Pending \in Seq(SubBuffer) /\ Len(Pending) = Len(Line)
           /\ \A i \in 1 .. Len(Line) : Pending[i] = Line[Len(Line) + 1 - i]
<1> DEFINE m == Len(queued)
           r == Reverse(queued)
           b == Last(unqueued)
<1>1. queued \in Seq(SubBuffer) /\ m \in Nat
  BY Sizes DEF QueueInv, TypeOK, QueueTypeOK
<1>2. r \in Seq(SubBuffer) /\ Len(r) = m /\ \A i \in 1 .. m : r[i] = queued[m - i + 1]
  <2>1. \A i \in 1 .. m : m - i + 1 \in 1 .. m
    BY <1>1
  <2>2. r = [i \in 1 .. m |-> queued[m - i + 1]]
    BY DEF Reverse
  <2>3. r \in [1 .. m -> SubBuffer]
    BY <1>1, <2>1, <2>2, ElementOfSeq
  <2> HIDE DEF m
  <2> QED
    BY <1>1, <2>2, <2>3
<1> HIDE DEF r
<1>3. CASE emulation # "note"
  <2>1. Pending = r /\ Line = queued
    BY <1>2, <1>3, LineIs, ConcatEmptySeq DEF Pending, r
  <2>2. ASSUME NEW i \in 1 .. m PROVE r[i] = queued[m + 1 - i]
    <3>1. m - i + 1 = m + 1 - i
      BY <1>1
    <3> QED
      BY <1>2, <3>1
  <2> QED
    BY <1>2, <2>1, <2>2
<1>4. CASE emulation = "note"
  <2>1. Pending = r \o <<b>>
    BY <1>4 DEF Pending, r
  <2>2. b \in SubBuffer
    BY <1>4, SomethingIsUnqueued DEF Unlocking
  <2>3. /\ Len(Line) = m + 1 /\ Line[1] = b
        /\ \A i \in 1 .. m : Line[i + 1] = queued[i]
    BY <1>4, LineIs
  <2> HIDE DEF b, m
  <2> DEFINE t == <<b>>
  <2>4. t \in Seq(SubBuffer) /\ Len(t) = 1 /\ t[1] = b
    BY <2>2
  <2> HIDE DEF t
  <2>5. /\ Pending \in Seq(SubBuffer) /\ Len(Pending) = m + 1
        /\ \A i \in 1 .. m + 1 : Pending[i] = IF i <= m THEN r[i] ELSE t[i - m]
    <3>1. Pending = r \o t
      BY <2>1 DEF t
    <3>2. /\ r \o t \in Seq(SubBuffer) /\ Len(r \o t) = Len(r) + Len(t)
          /\ \A i \in 1 .. Len(r) + Len(t) :
                (r \o t)[i] = IF i <= Len(r) THEN r[i] ELSE t[i - Len(r)]
      <4>1. r \in Seq(SubBuffer) /\ t \in Seq(SubBuffer)
        BY <1>2, <2>4
      <4> QED
        BY <4>1, ConcatProperties
    <3> QED
      BY <1>2, <2>4, <3>1, <3>2
  <2>6. ASSUME NEW i \in 1 .. m + 1 PROVE Pending[i] = Line[m + 1 + 1 - i]
    <3>1. CASE i = m + 1
      <4>1. ~(i <= m) /\ i - m = 1 /\ m + 1 + 1 - i = 1
        BY <1>1, <3>1
      <4> QED
        BY <2>3, <2>4, <2>5, <4>1
    <3>2. CASE i # m + 1
      <4> DEFINE j == m - i + 1
      <4>1. i \in 1 .. m /\ i <= m /\ j \in 1 .. m /\ m + 1 + 1 - i = j + 1
        BY <1>1, <3>2
      <4>2. Pending[i] = queued[j]
        BY <1>2, <2>5, <4>1
      <4> QED
        BY <2>3, <4>1, <4>2
    <3> QED
      BY <3>1, <3>2
  <2> QED
    BY <2>3, <2>5, <2>6
<1> QED
  BY <1>3, <1>4

\* The driver's lists and OpenSL's queue tell the same story, although the callback
\* does not say which sub-buffer it is for: every sub-buffer is on one list, and
\* those that OpenSL still plays are the newest of the queued ones.
THEOREM TheQueuesAgree == Spec => []QueuesAgree
<1>1. ASSUME QueueInv PROVE QueuesAgree
  <2> DEFINE n == Len(slQueue)
             p == Len(Pending)
             a == [i \in DOMAIN slQueue |-> slQueue[i].buffer]
             c == SubSeq(Pending, p - n + 1, p)
  <2>1. /\ n \in Nat /\ p \in Nat /\ n <= p /\ Pending \in Seq(SubBuffer) /\ p = Len(Line)
        /\ \A i \in 1 .. p : Pending[i] \in SubBuffer
        /\ \A i \in 1 .. n : slQueue[i].buffer = Line[n + 1 - i]
        /\ DOMAIN slQueue = 1 .. n
        /\ \A i \in 1 .. n : slQueue[i].buffer \in SubBuffer
        /\ \A i \in 1 .. p : Pending[i] = Line[p + 1 - i]
        /\ player = "made" => p = n + due
    BY <1>1, PendingIs, LineIs, GivenIs, Sizes, LenProperties, ElementOfSeq
    DEF QueueInv, LineInv, TypeOK, QueueTypeOK
  <2>2. a = [i \in 1 .. n |-> slQueue[i].buffer] /\ a \in [1 .. n -> SubBuffer]
    BY <2>1
  <2> HIDE DEF n, p
  <2>3. a \in Seq(SubBuffer) /\ Len(a) = n /\ \A i \in 1 .. n : a[i] = slQueue[i].buffer
    BY <2>1, <2>2
  <2> HIDE DEF a
  <2>4. /\ c \in Seq(SubBuffer) /\ Len(c) = IF p - n + 1 <= p THEN p - (p - n + 1) + 1 ELSE 0
        /\ \A i \in 1 .. p - (p - n + 1) + 1 : c[i] = Pending[p - n + 1 + i - 1]
    <3>1. \A i \in p - n + 1 .. p : i \in 1 .. p
      BY <2>1
    <3>2. \A i \in p - n + 1 .. p : Pending[i] \in SubBuffer
      BY <2>1, <3>1
    <3>3. p - n + 1 \in Int /\ p \in Int
      BY <2>1
    <3> QED
      BY <3>2, <3>3, SubSeqProperties
  <2> HIDE DEF c
  <2>5. Len(c) = n
    <3>1. CASE n = 0
      <4>1. ~(p - n + 1 <= p)
        BY <2>1, <3>1
      <4> QED
        BY <2>4, <3>1, <4>1
    <3>2. CASE n # 0
      <4>1. p - n + 1 <= p /\ p - (p - n + 1) + 1 = n
        BY <2>1, <3>2
      <4> QED
        BY <2>4, <4>1
    <3> QED
      BY <3>1, <3>2
  <2>6. ASSUME NEW i \in 1 .. n PROVE a[i] = c[i]
    <3> DEFINE j == p - n + 1 + i - 1
    <3>1. i \in 1 .. p - (p - n + 1) + 1 /\ j \in 1 .. p /\ p + 1 - j = n + 1 - i
      BY <2>1
    <3>2. c[i] = Pending[j]
      BY <2>4, <3>1
    <3> HIDE DEF j
    <3>3. Pending[j] = Line[n + 1 - i]
      BY <2>1, <3>1
    <3> QED
      BY <2>1, <2>3, <3>2, <3>3
  <2>7. a = c
    BY <2>3, <2>4, <2>5, <2>6, SeqEqual
  <2>8. IsInjective(unqueued \o queued) /\ ToSet(unqueued \o queued) = SubBuffer
    BY <1>1 DEF QueueInv, ListInv
  <2>9. [i \in DOMAIN slQueue |-> slQueue[i].buffer]
            = SubSeq(Pending, Len(Pending) - Len(slQueue) + 1, Len(Pending))
    BY <2>7 DEF a, c, n, p
  <2>10. player = "made" => Len(Pending) = Len(slQueue) + due
    BY <2>1 DEF n, p
  <2> QED
    BY <2>8, <2>9, <2>10 DEF QueuesAgree
<1> QED
  BY <1>1, QueueAlways, PTL

-----------------------------------------------------------------------------
\* The samples on their way.

\* What is not in a sub-buffer yet: while the lists are changed, the first of the
\* output already is.
Rest == IF emulation = "note" THEN SubSeq(output, Len(Chunk) + 1, Len(output)) ELSE output

\* The buffers are used in turn.
TurnsInv == buffers[1 - next] = << >>

\* What is in one place is in order and without repetition.
RiseInv ==
    /\ Rising(heard) /\ Rising(output) /\ Rising(buffers[next])
    /\ \A i \in 1 .. Len(slQueue) : Rising(Given(slQueue[i]))
    /\ \A i, j \in 1 .. Len(slQueue) :
          i < j => Before(ToSet(Given(slQueue[i])), ToSet(Given(slQueue[j])))
    /\ \A i \in 1 .. Len(packets) : Rising(packets[i])
    /\ \A i, j \in 1 .. Len(packets) : i < j => Before(ToSet(packets[i]), ToSet(packets[j]))

\* So are the places that a sample comes through: it is heard before what OpenSL
\* has still to play, then what was written, then what is left of the packet that was
\* begun, then what the engine has.
InOrder(H, U, R, B, P) ==
    /\ Before(H, U \cup R \cup B \cup P)
    /\ Before(U, R \cup B \cup P)
    /\ Before(R, B \cup P)
    /\ Before(B, P)

OrderInv == InOrder(ToSet(heard), Unplayed, ToSet(Rest), ToSet(buffers[next]), Undelivered)

\* Every sample that came is in one of the places, unless it was given up, and none is
\* that did not come.
Everywhere == ToSet(heard) \cup Unplayed \cup ToSet(Rest) \cup ToSet(buffers[next]) \cup Undelivered

CoverInv ==
    /\ 1 .. sent \subseteq Everywhere \cup dropped
    /\ Everywhere \subseteq 1 .. sent

SoundInv == QueueInv /\ TurnsInv /\ RiseInv /\ OrderInv /\ CoverInv

\* Where nothing moves but what the driver counts.
LEMMA SoundKept ==
    ASSUME SoundInv, QueueInv',
           UNCHANGED <<heard, slQueue, mem, dropped, sent, packets, buffers, next>>,
           Rest' = Rest, Rising(output')
    PROVE  SoundInv'
<1>1. Unplayed' = Unplayed /\ Undelivered' = Undelivered /\ \A e : Given(e)' = Given(e)
  BY DEF Unplayed, Undelivered, Given
<1>2. TurnsInv' /\ RiseInv'
  BY <1>1 DEF SoundInv, TurnsInv, RiseInv, Given
<1>3. OrderInv' /\ CoverInv'
  BY <1>1 DEF SoundInv, OrderInv, CoverInv, Everywhere
<1> QED
  BY <1>2, <1>3 DEF SoundInv

\* Steps that move no sample.
LEMMA SoundQuiet ==
    ASSUME SoundInv, QueueInv',
           \/ Lock /\ BeginFrame
           \/ EndFrame
           \/ (Callback \/ Pause \/ Resume) /\ UNCHANGED remoteVars
           \/ UNCHANGED vars
    PROVE  SoundInv'
<1>1. UNCHANGED <<heard, slQueue, mem, dropped, sent, packets, buffers, next>>
  BY DEF Lock, BeginFrame, EndFrame, Unlock, Callback, Pause, Resume,
         vars, queueVars, slVars, remoteVars
<1>2. output' = output
  BY DEF Lock, Locked, EndFrame, Unlock, Callback, Pause, Resume, vars, queueVars,
         SoundInv, QueueInv, OutputInv
<1>3. \/ emulation' = emulation
      \/ emulation # "note" /\ emulation' # "note"
  BY DEF Lock, Locked, EndFrame, Unlock, Callback, Pause, Resume, vars, queueVars
<1>4. Rest' = Rest
  BY <1>2, <1>3 DEF Rest, Chunk
<1>5. Rising(output')
  BY <1>2 DEF SoundInv, RiseInv
<1> QED
  BY <1>1, <1>4, <1>5, SoundKept

LEMMA SoundNote ==
    ASSUME SoundInv, QueueInv', Note, UNCHANGED remoteVars
    PROVE  SoundInv'
<1>1. UNCHANGED <<heard, slQueue, mem, dropped, sent, packets, buffers, next>>
  BY DEF Note, slVars, remoteVars
<1>2. emulation = "note" /\ emulation' # "note" /\ output # << >>
  BY SomethingIsUnqueued DEF Note, Unlocking, SoundInv
<1>3. output' = SubSeq(output, Len(Chunk) + 1, Len(output)) /\ Rest' = Rest
  BY <1>2 DEF Note, Rest
<1>4. Rising(output')
  <2>1. output \in Seq(Sample) /\ Sample \subseteq Int /\ Len(Chunk) \in 0 .. Len(output)
    <3>1. TypeOK /\ output \in Seq(Sample)
      BY DEF SoundInv, QueueInv, TypeOK, QueueTypeOK
    <3>2. /\ Len(Chunk) \in 1 .. SubSize /\ Len(Chunk) <= Len(output)
          /\ Len(output) \in Nat /\ SubSize \in Nat /\ Sample \subseteq Int
      BY <1>2, <3>1, ChunkIs, Sizes
    <3> QED
      BY <3>1, <3>2
  <2> QED
    BY <1>3, <2>1, SplitIs DEF SoundInv, RiseInv
<1> QED
  BY <1>1, <1>3, <1>4, SoundKept

LEMMA SoundArrive ==
    ASSUME SoundInv, QueueInv', NEW n \in 1 .. MaxPacket, Arrive(n)
    PROVE  SoundInv'
<1> DEFINE new == [i \in 1 .. n |-> sent + i]
           m == Len(packets)
<1>1. /\ UNCHANGED <<heard, slQueue, mem, dropped, output, emulation, buffers, next>>
      /\ sent' = sent + n /\ packets' = Append(packets, new)
      /\ sent \in Nat /\ n \in Nat /\ sent + n <= MaxSamples /\ MaxSamples \in Nat
  BY PlayQueueAssumption, PacketAssumption
  DEF Arrive, queueVars, slVars, SoundInv, QueueInv, TypeOK
<1>2. new \in Seq(Sample) /\ Rising(new) /\ \A x : x \in ToSet(new) <=> x \in sent + 1 .. sent + n
  <2>1. \A i \in 1 .. n : sent + i \in Sample
    BY <1>1 DEF Sample
  <2>2. new \in [1 .. n -> Sample]
    BY <2>1
  <2>3. new \in Seq(Sample)
    <3> HIDE DEF new
    <3>1. n \in Nat
      BY <1>1
    <3> QED
      BY <2>2, <3>1
  <2>4. Rising(new)
    BY <1>1 DEF Rising
  <2>5. ASSUME NEW x PROVE x \in ToSet(new) <=> x \in sent + 1 .. sent + n
    <3>1. x \in ToSet(new) <=> \E i \in 1 .. n : sent + i = x
      BY DEF ToSet
    <3>2. ASSUME x \in sent + 1 .. sent + n PROVE \E i \in 1 .. n : sent + i = x
      <4>1. x - sent \in 1 .. n /\ sent + (x - sent) = x
        BY <1>1, <3>2
      <4> QED
        BY <4>1
    <3>3. ASSUME NEW i \in 1 .. n PROVE sent + i \in sent + 1 .. sent + n
      BY <1>1
    <3> QED
      BY <3>1, <3>2, <3>3
  <2> QED
    BY <2>3, <2>4, <2>5
<1> HIDE DEF new
<1>3. /\ packets \in Seq(Seq(Sample)) /\ m \in Nat /\ Len(packets') = m + 1
      /\ \A i \in 1 .. m : packets'[i] = packets[i]
      /\ packets'[m + 1] = new
      /\ \A i \in 1 .. m + 1 : i \in 1 .. m \/ i = m + 1
      /\ m + 1 \in 1 .. m + 1
      /\ \A i \in 1 .. m : i \in 1 .. m + 1
  BY <1>1, <1>2, AppendProperties, LenProperties DEF SoundInv, QueueInv, TypeOK
<1> HIDE DEF m
<1>4. Undelivered' = Undelivered \cup ToSet(new)
  <2>1. \A x : x \in Undelivered <=> \E i \in 1 .. m : x \in ToSet(packets[i])
    BY UndeliveredIs DEF SoundInv, QueueInv, m
  <2>2. \A x : x \in Undelivered' <=> \E i \in 1 .. m + 1 : x \in ToSet(packets'[i])
    <3>1. packets' \in Seq(Seq(Sample))
      BY DEF QueueInv, TypeOK, Sample
    <3>2. DOMAIN packets' = 1 .. m + 1
      BY <1>3, <3>1, LenProperties
    <3> QED
      BY <3>2 DEF Undelivered
  <2>3. ASSUME NEW x PROVE x \in Undelivered' <=> x \in Undelivered \cup ToSet(new)
    BY <1>3, <2>1, <2>2
  <2> QED
    BY <2>3
<1>5. /\ Unplayed' = Unplayed /\ Rest' = Rest /\ \A e : Given(e)' = Given(e)
  BY <1>1 DEF Unplayed, Given, Rest, Chunk
<1>6. Everywhere' = Everywhere \cup ToSet(new)
  BY <1>1, <1>4, <1>5 DEF Everywhere
<1>7. Before(Everywhere, ToSet(new))
  BY <1>1, <1>2 DEF Before, SoundInv, CoverInv
<1>8. CoverInv'
  <2>1. 1 .. sent' \subseteq 1 .. sent \cup ToSet(new)
    BY <1>1, <1>2
  <2>2. 1 .. sent \subseteq 1 .. sent' /\ ToSet(new) \subseteq 1 .. sent'
    BY <1>1, <1>2
  <2> QED
    BY <1>1, <1>6, <2>1, <2>2 DEF SoundInv, CoverInv
<1>9. OrderInv'
  BY <1>1, <1>4, <1>5, <1>7 DEF SoundInv, OrderInv, InOrder, Before, Everywhere
<1>10. \A i \in 1 .. m : Before(ToSet(packets[i]), ToSet(new))
  BY <1>7, UndeliveredIs DEF Before, Everywhere, SoundInv, QueueInv, m
<1>11. RiseInv'
  <2>1. Rising(heard)' /\ Rising(output)' /\ Rising(buffers[next])'
    BY <1>1 DEF SoundInv, RiseInv
  <2>2. /\ \A i \in 1 .. Len(slQueue') : Rising(Given(slQueue[i]))'
        /\ \A i, j \in 1 .. Len(slQueue') :
              i < j => Before(ToSet(Given(slQueue[i])), ToSet(Given(slQueue[j])))'
    BY <1>1 DEF SoundInv, RiseInv, Given
  <2>3. \A i \in 1 .. Len(packets') : Rising(packets[i])'
    BY <1>2, <1>3 DEF SoundInv, RiseInv, m
  <2>4. ASSUME NEW i \in 1 .. Len(packets'), NEW j \in 1 .. Len(packets'), i < j
        PROVE  Before(ToSet(packets'[i]), ToSet(packets'[j]))
    <3>1. i \in 1 .. m
      BY <1>3, <2>4
    <3> QED
      BY <1>3, <1>10, <2>4, <3>1 DEF SoundInv, RiseInv, m
  <2> QED
    BY <2>1, <2>2, <2>3, <2>4 DEF RiseInv
<1>12. TurnsInv'
  BY <1>1 DEF SoundInv, TurnsInv
<1> QED
  BY <1>8, <1>9, <1>11, <1>12 DEF SoundInv

\* A new player, before the frame or from the user interface.
LEMMA SoundReset ==
    ASSUME SoundInv, QueueInv', ResetSLESPlayer, UNCHANGED <<sent, packets, buffers, next>>,
           emulation = "idle", emulation' \in {"idle", "mix"}, output' \in {output, << >>}
    PROVE  SoundInv'
<1>1. slQueue' = << >> /\ dropped' = dropped \cup Unplayed /\ UNCHANGED <<mem, heard>>
  BY DEF ResetSLESPlayer
<1>2. output = << >> /\ output' = << >> /\ Rest = << >> /\ Rest' = << >>
  BY DEF SoundInv, QueueInv, OutputInv, Rest
<1>3. Unplayed' = {} /\ Undelivered' = Undelivered
  BY <1>1 DEF Unplayed, Undelivered
<1>4. TurnsInv' /\ RiseInv'
  BY <1>1, <1>2 DEF SoundInv, TurnsInv, RiseInv
<1>5. Everywhere' \cup dropped' = Everywhere \cup dropped /\ Everywhere' \subseteq Everywhere
  BY <1>1, <1>2, <1>3 DEF Everywhere
<1>6. CoverInv'
  BY <1>5 DEF SoundInv, CoverInv
<1>7. OrderInv'
  BY <1>1, <1>2, <1>3 DEF SoundInv, OrderInv, InOrder, Before
<1> QED
  BY <1>4, <1>6, <1>7 DEF SoundInv

LEMMA SoundLoadRemote ==
    ASSUME SoundInv, QueueInv', LoadRemote
    PROVE  SoundInv'
<1>1. /\ UNCHANGED <<heard, slQueue, mem, output, emulation, sent>>
      /\ dropped' = dropped \cup ToSet(buffers[0] \o buffers[1]) \cup Undelivered
      /\ packets' = << >> /\ next' = 0 /\ buffers'[0] = << >> /\ buffers'[1] = << >>
  BY DEF LoadRemote, slVars
<1>2. ToSet(buffers[next]) \subseteq dropped'
  <2>1. /\ buffers[0] \in Seq(Sample) /\ buffers[1] \in Seq(Sample) /\ Sample \subseteq Int
        /\ next = 0 \/ next = 1
    BY DEF SoundInv, QueueInv, TypeOK, Sample
  <2>2. ToSet(buffers[0] \o buffers[1]) = ToSet(buffers[0]) \cup ToSet(buffers[1])
    BY <2>1, SamplesJoin
  <2> QED
    BY <1>1, <2>1, <2>2
<1>3. /\ Unplayed' = Unplayed /\ Rest' = Rest /\ Undelivered' = {}
      /\ buffers'[next'] = << >> /\ buffers'[1 - next'] = << >>
      /\ Len(packets') = 0
  BY <1>1 DEF Unplayed, Given, Rest, Chunk, Undelivered
<1>4. ToSet(buffers'[next']) = {} /\ Rising(buffers'[next'])
  BY <1>3, NoMembers
<1>5. TurnsInv'
  BY <1>3 DEF TurnsInv
<1>6. RiseInv'
  BY <1>1, <1>3, <1>4 DEF SoundInv, RiseInv, Given
<1>7. OrderInv'
  BY <1>1, <1>3, <1>4 DEF SoundInv, OrderInv, InOrder, Before
<1>8. Everywhere' \subseteq Everywhere /\ Everywhere \cup dropped \subseteq Everywhere' \cup dropped'
  BY <1>1, <1>2, <1>3, <1>4 DEF Everywhere
<1>9. CoverInv'
  BY <1>1, <1>8 DEF SoundInv, CoverInv
<1> QED
  BY <1>5, <1>6, <1>7, <1>9 DEF SoundInv

LEMMA SoundPlay ==
    ASSUME SoundInv, QueueInv', Play, UNCHANGED remoteVars
    PROVE  SoundInv'
<1> DEFINE n == Len(slQueue)
           g == Given(slQueue[1])
<1>1. /\ slQueue # << >> /\ n \in Nat \ {0} /\ QueueInv
      /\ slQueue \in Seq([buffer : SubBuffer, size : 1 .. SubSize])
      /\ heard \in Seq(Sample) /\ Sample \subseteq Int
  BY Sizes DEF Play, SoundInv, QueueInv, TypeOK, QueueTypeOK
<1>2. /\ Len(slQueue') = n - 1 /\ \A i \in 1 .. n - 1 : slQueue'[i] = slQueue[i + 1]
      /\ slQueue' \in Seq([buffer : SubBuffer, size : 1 .. SubSize])
  BY <1>1, HeadTailProperties DEF Play
<1>3. /\ UNCHANGED <<mem, dropped, output, emulation, sent, packets, buffers, next>>
      /\ heard' = heard \o g
  BY <1>1 DEF Play, remoteVars
<1>4. 1 \in 1 .. n /\ g \in Seq(Sample)
  BY <1>1, GivenIs
<1> HIDE DEF n, g
<1>5. /\ Rest' = Rest /\ Undelivered' = Undelivered /\ \A e : Given(e)' = Given(e)
      /\ \A i \in 1 .. n - 1 : Given(slQueue[i])' = Given(slQueue[i + 1])
  BY <1>2, <1>3 DEF Rest, Chunk, Undelivered, Given
<1>6. /\ \A i \in 1 .. n - 1 : i + 1 \in 1 .. n /\ 1 < i + 1
      /\ \A i \in 1 .. n : i = 1 \/ (i - 1 \in 1 .. n - 1 /\ i - 1 + 1 = i)
  BY <1>1
<1>7. Unplayed = ToSet(g) \cup Unplayed'
  <2>1. \A x : x \in Unplayed <=> \E i \in 1 .. n : x \in ToSet(Given(slQueue[i]))
    BY <1>1, UnplayedIs DEF n
  <2>2. \A x : x \in Unplayed' <=> \E i \in 1 .. n - 1 : x \in ToSet(Given(slQueue[i + 1]))
    <3>1. DOMAIN slQueue' = 1 .. n - 1
      BY <1>2, LenProperties
    <3> QED
      BY <1>5, <3>1 DEF Unplayed
  <2>3. ASSUME NEW x, x \in Unplayed PROVE x \in ToSet(g) \cup Unplayed'
    <3>1. PICK i \in 1 .. n : x \in ToSet(Given(slQueue[i]))
      BY <2>1, <2>3
    <3>2. CASE i = 1
      BY <3>1, <3>2 DEF g
    <3>3. CASE i - 1 \in 1 .. n - 1 /\ i - 1 + 1 = i
      BY <2>2, <3>1, <3>3
    <3> QED
      BY <1>6, <3>2, <3>3
  <2>4. ASSUME NEW x, x \in ToSet(g) \cup Unplayed' PROVE x \in Unplayed
    BY <1>4, <1>6, <2>1, <2>2, <2>4 DEF g
  <2> QED
    BY <2>3, <2>4
<1>8. Before(ToSet(g), Unplayed')
  <2>1. \A x : x \in Unplayed' => \E i \in 1 .. n - 1 : x \in ToSet(Given(slQueue[i + 1]))
    <3>1. DOMAIN slQueue' = 1 .. n - 1
      BY <1>2, LenProperties
    <3> QED
      BY <1>5, <3>1 DEF Unplayed
  <2>2. \A i \in 1 .. n - 1 : Before(ToSet(g), ToSet(Given(slQueue[i + 1])))
    BY <1>4, <1>6 DEF SoundInv, RiseInv, g, n
  <2> QED
    BY <2>1, <2>2 DEF Before
<1>9. /\ ToSet(heard') = ToSet(heard) \cup ToSet(g)
      /\ Rising(heard) /\ Rising(g) /\ Before(ToSet(heard), ToSet(g)) => Rising(heard')
  BY <1>1, <1>3, <1>4, SamplesJoin
<1>10. Before(ToSet(heard), ToSet(g))
  BY <1>7 DEF SoundInv, OrderInv, InOrder, Before
<1>11. OrderInv'
  BY <1>3, <1>5, <1>7, <1>8, <1>9 DEF SoundInv, OrderInv, InOrder, Before
<1>12. Everywhere' = Everywhere
  BY <1>3, <1>5, <1>7, <1>9 DEF Everywhere
<1>13. CoverInv'
  BY <1>3, <1>12 DEF SoundInv, CoverInv
<1>14. RiseInv'
  <2>1. Rising(g) /\ Rising(heard)
    BY <1>4 DEF SoundInv, RiseInv, g, n
  <2>2. Rising(heard')
    BY <1>9, <1>10, <2>1
  <2>3. Rising(output)' /\ Rising(buffers[next])'
    BY <1>3 DEF SoundInv, RiseInv
  <2>4. ASSUME NEW i \in 1 .. Len(slQueue') PROVE Rising(Given(slQueue[i]))'
    BY <1>2, <1>5, <1>6 DEF SoundInv, RiseInv, n
  <2>5. ASSUME NEW i \in 1 .. Len(slQueue'), NEW j \in 1 .. Len(slQueue'), i < j
        PROVE  Before(ToSet(Given(slQueue[i])), ToSet(Given(slQueue[j])))'
    <3>1. i + 1 \in 1 .. n /\ j + 1 \in 1 .. n /\ i + 1 < j + 1
      BY <1>2, <1>6, <2>5
    <3>2. Before(ToSet(Given(slQueue[i + 1])), ToSet(Given(slQueue[j + 1])))
      BY <3>1 DEF SoundInv, RiseInv, n
    <3> QED
      BY <1>2, <1>5, <3>2
  <2>6. /\ \A i \in 1 .. Len(packets') : Rising(packets'[i])
        /\ \A i, j \in 1 .. Len(packets') :
              i < j => Before(ToSet(packets'[i]), ToSet(packets'[j]))
    BY <1>3 DEF SoundInv, RiseInv
  <2> QED
    BY <2>2, <2>3, <2>4, <2>5, <2>6 DEF RiseInv
<1>15. TurnsInv'
  BY <1>3 DEF SoundInv, TurnsInv
<1> QED
  BY <1>11, <1>13, <1>14, <1>15 DEF SoundInv

\* The sub-buffer that is written is none that OpenSL has still to play.
LEMMA WrittenIsFree ==
    ASSUME QueueInv, emulation = "submit", NEW i \in 1 .. Len(slQueue)
    PROVE  slQueue[i].buffer # Last(unqueued)
<1> DEFINE k == Len(unqueued)
           m == Len(queued)
           n == Len(slQueue)
           s == unqueued \o queued
<1>1. /\ unqueued \in Seq(SubBuffer) /\ queued \in Seq(SubBuffer)
      /\ k \in Nat /\ m \in Nat /\ n \in Nat /\ unqueued # << >> /\ k # 0
  BY Sizes, SomethingIsUnqueued DEF QueueInv, TypeOK, QueueTypeOK, Unlocking
<1>2. n <= m /\ slQueue[i].buffer = queued[n + 1 - i]
  BY LineIs DEF QueueInv, LineInv
<1>3. /\ s \in Seq(SubBuffer) /\ Len(s) = k + m
      /\ \A j \in 1 .. k + m : s[j] = IF j <= k THEN unqueued[j] ELSE queued[j - k]
  BY <1>1, ConcatProperties
<1>4. DOMAIN s = 1 .. k + m /\ IsInjective(s)
  BY <1>3, LenProperties DEF QueueInv, ListInv
<1> HIDE DEF s
<1> DEFINE j == k + (n + 1 - i)
<1>5. i \in 1 .. n
  OBVIOUS
<1> HIDE DEF n, k, m
<1>6. /\ j \in 1 .. k + m /\ ~(j <= k) /\ j - k = n + 1 - i /\ j # k
      /\ k \in 1 .. k + m /\ k <= k
  BY <1>1, <1>2, <1>5
<1> HIDE DEF j
<1>7. s[j] = slQueue[i].buffer
  BY <1>2, <1>3, <1>6
<1>8. s[k] = Last(unqueued)
  BY <1>3, <1>6 DEF Last, k
<1> QED
  BY <1>4, <1>6, <1>7, <1>8 DEF IsInjective

LEMMA SoundSubmit ==
    ASSUME SoundInv, QueueInv', Submit, UNCHANGED remoteVars
    PROVE  SoundInv'
<1> DEFINE b == Last(unqueued)
           n == Len(Chunk)
           l == Len(slQueue)
           e == [buffer |-> b, size |-> n]
           rest == SubSeq(output, n + 1, Len(output))
<1>1. /\ QueueInv /\ TypeOK /\ emulation = "submit" /\ output # << >> /\ b \in SubBuffer
      /\ mem \in [SubBuffer -> Seq(Sample)] /\ output \in Seq(Sample) /\ Sample \subseteq Int
      /\ slQueue \in Seq([buffer : SubBuffer, size : 1 .. SubSize]) /\ l \in Nat
      /\ Rest = output
  BY SomethingIsUnqueued, Sizes
  DEF Submit, Unlocking, SoundInv, QueueInv, TypeOK, QueueTypeOK, Rest
<1>2. UNCHANGED <<heard, sent, packets, buffers, next>>
  BY DEF Submit, remoteVars
<1>3. mem' = [mem EXCEPT ![b] = Written] /\ SubSeq(Written, 1, n) = Chunk
  BY <1>1, SubmitIs
<1>4. \A i \in 1 .. l : Given(slQueue[i])' = SubSeq(mem'[slQueue'[i].buffer], 1, slQueue'[i].size)
  BY DEF Given
<1>5. ASSUME NEW i \in 1 .. l PROVE SubSeq(mem'[slQueue[i].buffer], 1, slQueue[i].size) = Given(slQueue[i])
  <2>1. slQueue[i].buffer \in SubBuffer /\ slQueue[i].buffer # b
    BY <1>1, GivenIs, WrittenIsFree
  <2>2. mem'[slQueue[i].buffer] = mem[slQueue[i].buffer]
    BY <1>1, <1>3, <2>1
  <2> QED
    BY <2>2 DEF Given
<1>6. Undelivered' = Undelivered
  BY <1>2 DEF Undelivered
<1>7. /\ \A i \in 1 .. Len(packets') : Rising(packets'[i])
      /\ \A i, j \in 1 .. Len(packets') : i < j => Before(ToSet(packets'[i]), ToSet(packets'[j]))
      /\ Rising(heard') /\ Rising(buffers'[next'])
  BY <1>2 DEF SoundInv, RiseInv
<1>8. TurnsInv'
  BY <1>2 DEF SoundInv, TurnsInv
<1>9. /\ n \in 0 .. Len(output) /\ Chunk = SubSeq(output, 1, n)
  <2>1. n \in 1 .. SubSize /\ n <= Len(output) /\ Chunk = SubSeq(output, 1, n)
    BY <1>1, ChunkIs
  <2>2. Len(output) \in Nat /\ SubSize \in Nat
    BY <1>1, Sizes
  <2> QED
    BY <2>1, <2>2
<1>10. CASE slQueue' = Append(slQueue, e) /\ emulation' = "note" /\ UNCHANGED <<output, dropped>>
  <2>1. /\ e \in [buffer : SubBuffer, size : 1 .. SubSize] /\ e.buffer = b /\ e.size = n
    BY <1>1, ChunkIs
  <2> HIDE DEF e, l, n
  <2>2. /\ Len(slQueue') = l + 1 /\ slQueue'[l + 1] = e
        /\ \A i \in 1 .. l : slQueue'[i] = slQueue[i]
        /\ slQueue' \in Seq([buffer : SubBuffer, size : 1 .. SubSize])
    BY <1>1, <1>10, <2>1, AppendProperties DEF l
  <2>3. \A i \in 1 .. l : Given(slQueue[i])' = Given(slQueue[i])
    BY <1>4, <1>5, <2>2
  <2>4. ASSUME NEW i \in 1 .. l + 1, i = l + 1 PROVE Given(slQueue[i])' = Chunk
    <3>1. Given(slQueue[i])' = SubSeq(mem'[slQueue'[i].buffer], 1, slQueue'[i].size)
      BY DEF Given
    <3>2. mem'[b] = Written
      BY <1>1, <1>3
    <3> QED
      BY <1>3, <2>1, <2>2, <2>4, <3>1, <3>2
  <2>5. Rest' = rest
    BY <1>10 DEF Rest, Chunk, n
  <2>6. /\ ToSet(output) = ToSet(Chunk) \cup ToSet(rest)
        /\ Rising(Chunk) /\ Before(ToSet(Chunk), ToSet(rest))
    BY <1>1, <1>9, SplitIs DEF SoundInv, RiseInv
  <2>7. /\ \A i \in 1 .. l + 1 : i \in 1 .. l \/ i = l + 1
        /\ l + 1 \in 1 .. l + 1 /\ \A i \in 1 .. l : i \in 1 .. l + 1
        /\ \A i, j \in 1 .. l + 1 : i < j => i \in 1 .. l
    BY <1>1 DEF l
  <2>8. Unplayed' = Unplayed \cup ToSet(Chunk)
    <3>1. \A x : x \in Unplayed <=> \E i \in 1 .. l : x \in ToSet(Given(slQueue[i]))
      BY <1>1, UnplayedIs DEF l
    <3>2. \A x : x \in Unplayed' <=> \E i \in 1 .. l + 1 : x \in ToSet(Given(slQueue[i])')
      <4>1. DOMAIN slQueue' = 1 .. l + 1
        BY <2>2, LenProperties
      <4> QED
        BY <4>1 DEF Unplayed
    <3>3. ASSUME NEW x PROVE x \in Unplayed' <=> x \in Unplayed \cup ToSet(Chunk)
      <4>1. ASSUME NEW i \in 1 .. l + 1, x \in ToSet(Given(slQueue[i])')
            PROVE  x \in Unplayed \cup ToSet(Chunk)
        BY <2>3, <2>4, <2>7, <3>1, <4>1
      <4>2. ASSUME x \in Unplayed \cup ToSet(Chunk)
            PROVE  \E i \in 1 .. l + 1 : x \in ToSet(Given(slQueue[i])')
        BY <2>3, <2>4, <2>7, <3>1, <4>2
      <4> QED
        BY <3>2, <4>1, <4>2
    <3> QED
      BY <3>3
  <2>9. Before(Unplayed, ToSet(Chunk)) /\ Before(Unplayed, ToSet(rest))
    BY <1>1, <2>6 DEF SoundInv, OrderInv, InOrder, Before
  <2>10. OrderInv'
    BY <1>1, <1>2, <1>6, <2>5, <2>6, <2>8, <2>9 DEF SoundInv, OrderInv, InOrder, Before
  <2>11. Everywhere' = Everywhere
    BY <1>1, <1>2, <1>6, <2>5, <2>6, <2>8 DEF Everywhere
  <2>12. CoverInv'
    BY <1>2, <1>10, <2>11 DEF SoundInv, CoverInv
  <2>13. \A i \in 1 .. l : Before(ToSet(Given(slQueue[i])), ToSet(Chunk))
    BY <1>1, <2>9, UnplayedIs DEF Before, l
  <2>14. Rising(output')
    BY <1>10 DEF SoundInv, RiseInv
  <2>15. ASSUME NEW i \in 1 .. l + 1 PROVE Rising(Given(slQueue[i])')
    BY <2>3, <2>4, <2>6, <2>7 DEF SoundInv, RiseInv, l
  <2>16. ASSUME NEW i \in 1 .. l + 1, NEW j \in 1 .. l + 1, i < j
         PROVE  Before(ToSet(Given(slQueue[i])'), ToSet(Given(slQueue[j])'))
    <3>1. i \in 1 .. l
      BY <2>7, <2>16
    <3>2. CASE j \in 1 .. l
      BY <2>3, <2>16, <3>1, <3>2 DEF SoundInv, RiseInv, l
    <3>3. CASE j = l + 1
      BY <2>3, <2>4, <2>13, <3>1, <3>3
    <3> QED
      BY <2>7, <3>2, <3>3
  <2>17. RiseInv'
    BY <1>7, <2>2, <2>14, <2>15, <2>16 DEF RiseInv
  <2> QED
    BY <1>8, <2>10, <2>12, <2>17 DEF SoundInv
<1>11. CASE output' = << >> /\ dropped' = dropped \cup ToSet(output) /\ emulation' = "idle"
            /\ UNCHANGED slQueue
  <2> HIDE DEF b, n, e
  <2>1. \A i \in 1 .. l : Given(slQueue[i])' = Given(slQueue[i])
    BY <1>4, <1>5, <1>11
  <2>2. Unplayed' = Unplayed
    <3>1. DOMAIN slQueue = 1 .. l
      BY <1>1, LenProperties
    <3> HIDE DEF l
    <3>2. DOMAIN slQueue' = 1 .. l
      BY <1>11, <3>1
    <3>3. \A x : x \in Unplayed' <=> \E i \in 1 .. l : x \in ToSet(Given(slQueue[i])')
      BY <3>2 DEF Unplayed
    <3>4. \A x : x \in Unplayed <=> \E i \in 1 .. l : x \in ToSet(Given(slQueue[i]))
      BY <3>1 DEF Unplayed
    <3>5. ASSUME NEW x PROVE x \in Unplayed' <=> x \in Unplayed
      BY <2>1, <3>3, <3>4
    <3> QED
      BY <3>5
  <2>3. Rest' = << >> /\ ToSet(Rest') = {} /\ Rising(output')
    BY <1>11, NoMembers DEF Rest
  <2>4. OrderInv'
    BY <1>2, <1>6, <2>2, <2>3 DEF SoundInv, OrderInv, InOrder, Before
  <2>5. Everywhere' \subseteq Everywhere /\ Everywhere \cup dropped = Everywhere' \cup dropped'
    BY <1>1, <1>2, <1>6, <1>11, <2>2, <2>3 DEF Everywhere
  <2>6. CoverInv'
    BY <1>2, <2>5 DEF SoundInv, CoverInv
  <2>7. /\ \A i \in 1 .. Len(slQueue') : Rising(Given(slQueue[i])')
        /\ \A i, j \in 1 .. Len(slQueue') :
              i < j => Before(ToSet(Given(slQueue[i])'), ToSet(Given(slQueue[j])'))
    BY <1>11, <2>1 DEF SoundInv, RiseInv
  <2>8. RiseInv'
    BY <1>7, <2>3, <2>7 DEF RiseInv
  <2> QED
    BY <1>8, <2>4, <2>6, <2>8 DEF SoundInv
<1> QED
  BY <1>1, <1>10, <1>11, SubmitIs

\* What a turn of the loop takes is the oldest that was not written.
LEMMA MixTakesTheOldest ==
    ASSUME SoundInv, QueueInv', Mix
    PROVE  /\ ToSet(MixData) \cup Undelivered' = ToSet(buffers[next]) \cup Undelivered
           /\ Rising(MixData) /\ Before(ToSet(MixData), Undelivered')
           /\ \A i \in 1 .. Len(packets') : Rising(packets'[i])
           /\ \A i, j \in 1 .. Len(packets') :
                 i < j => Before(ToSet(packets'[i]), ToSet(packets'[j]))
<1>1. /\ TypeOK /\ QueueInv /\ buffers[next] \in Seq(Sample) /\ Sample \subseteq Int
      /\ packets \in Seq(Seq(Sample)) /\ Rising(buffers[next])
      /\ Before(ToSet(buffers[next]), Undelivered)
  BY MixIs, Sizes DEF SoundInv, QueueInv, TypeOK, RiseInv, OrderInv, InOrder
<1>2. CASE Enough
  <2>1. MixData = buffers[next]
    BY <1>1, <1>2, ConcatEmptySeq DEF MixData
  <2>2. packets' = packets /\ Undelivered' = Undelivered
    BY <1>2 DEF Mix, Undelivered
  <2> QED
    BY <1>1, <2>1, <2>2 DEF SoundInv, RiseInv
<1>3. CASE ~Enough
  <2> DEFINE m == Len(packets)
             h == packets[1]
  <2>1. packets # << >> /\ packets' = Tail(packets) /\ MixData = buffers[next] \o h
    <3>1. packets # << >> /\ packets' = Tail(packets)
      BY <1>3 DEF Mix, MoreToMix
    <3>2. Head(packets) = packets[1]
      BY <1>1, <3>1
    <3> QED
      BY <1>3, <3>1, <3>2 DEF MixData
  <2>2. /\ m \in Nat \ {0} /\ Len(packets') = m - 1 /\ packets' \in Seq(Seq(Sample))
        /\ \A i \in 1 .. m - 1 : packets'[i] = packets[i + 1]
    BY <1>1, <2>1, HeadTailProperties, Members
  <2> HIDE DEF m
  <2>3. /\ 1 \in 1 .. m /\ \A i \in 1 .. m - 1 : i + 1 \in 1 .. m /\ 1 < i + 1
        /\ \A i \in 1 .. m : i = 1 \/ (i - 1 \in 1 .. m - 1 /\ i - 1 + 1 = i)
        /\ \A i, j \in 1 .. m - 1 : i < j => i + 1 < j + 1
    BY <2>2
  <2>4. h \in Seq(Sample) /\ Rising(h)
    BY <1>1, <2>3, UndeliveredIs DEF SoundInv, RiseInv, m
  <2>5. \A i \in 1 .. m - 1 : Before(ToSet(h), ToSet(packets'[i]))
    BY <2>2, <2>3 DEF SoundInv, RiseInv, m
  <2> HIDE DEF h
  <2>6. \A x : x \in Undelivered <=> \E i \in 1 .. m : x \in ToSet(packets[i])
    BY <1>1, UndeliveredIs DEF m
  <2>7. \A x : x \in Undelivered' <=> \E i \in 1 .. m - 1 : x \in ToSet(packets'[i])
    <3>1. DOMAIN packets' = 1 .. m - 1
      BY <2>2, LenProperties
    <3> QED
      BY <3>1 DEF Undelivered
  <2>8. Undelivered = ToSet(h) \cup Undelivered'
    <3>1. ASSUME NEW x, x \in Undelivered PROVE x \in ToSet(h) \cup Undelivered'
      <4>1. PICK i \in 1 .. m : x \in ToSet(packets[i])
        BY <2>6, <3>1
      <4>2. CASE i = 1
        BY <4>1, <4>2 DEF h
      <4>3. CASE i - 1 \in 1 .. m - 1 /\ i - 1 + 1 = i
        BY <2>2, <2>7, <4>1, <4>3
      <4> QED
        BY <2>3, <4>2, <4>3
    <3>2. ASSUME NEW x, x \in ToSet(h) \cup Undelivered' PROVE x \in Undelivered
      BY <2>2, <2>3, <2>6, <2>7, <3>2 DEF h
    <3> QED
      BY <3>1, <3>2
  <2>9. Before(ToSet(h), Undelivered')
    BY <2>5, <2>7 DEF Before
  <2>10. Before(ToSet(buffers[next]), ToSet(h)) /\ Before(ToSet(buffers[next]), Undelivered')
    BY <1>1, <2>8 DEF Before
  <2>11. ToSet(MixData) = ToSet(buffers[next]) \cup ToSet(h) /\ Rising(MixData)
    BY <1>1, <2>1, <2>4, <2>10, SamplesJoin
  <2>12. Before(ToSet(MixData), Undelivered')
    BY <2>9, <2>10, <2>11 DEF Before
  <2>13. \A i \in 1 .. m - 1 : Rising(packets'[i])
    BY <2>2, <2>3 DEF SoundInv, RiseInv, m
  <2>14. ASSUME NEW i \in 1 .. m - 1, NEW j \in 1 .. m - 1, i < j
         PROVE  Before(ToSet(packets'[i]), ToSet(packets'[j]))
    <3>1. i + 1 \in 1 .. m /\ j + 1 \in 1 .. m /\ i + 1 < j + 1
      BY <2>3, <2>14
    <3>2. Before(ToSet(packets[i + 1]), ToSet(packets[j + 1]))
      BY <3>1 DEF SoundInv, RiseInv, m
    <3> QED
      BY <2>2, <3>2
  <2> QED
    BY <2>2, <2>8, <2>11, <2>12, <2>13, <2>14
<1> QED
  BY <1>2, <1>3

LEMMA SoundMix ==
    ASSUME SoundInv, QueueInv', Mix
    PROVE  SoundInv'
<1> DEFINE data  == MixData
           n     == Taken
           first == SubSeq(data, 1, n)
           rest  == SubSeq(data, n + 1, Len(data))
           H == ToSet(heard)
           U == Unplayed
           R == ToSet(output)
           B == ToSet(buffers[next])
           P == Undelivered
           Q == Undelivered'
<1>1. /\ TypeOK /\ Sample \subseteq Int /\ output \in Seq(Sample)
      /\ data \in Seq(Sample) /\ n \in 0 .. Len(data)
      /\ output' = output \o first /\ Consume(data, n)
  BY MixIs, Sizes DEF SoundInv, QueueInv, TypeOK, QueueTypeOK
<1>2. /\ emulation = "mix" /\ emulation' = "mix"
      /\ UNCHANGED <<heard, slQueue, mem, dropped, sent>>
  BY DEF Mix, slVars
<1>3. /\ ToSet(data) \cup Q = B \cup P /\ Rising(data) /\ Before(ToSet(data), Q)
      /\ \A i \in 1 .. Len(packets') : Rising(packets'[i])
      /\ \A i, j \in 1 .. Len(packets') :
            i < j => Before(ToSet(packets'[i]), ToSet(packets'[j]))
  BY MixTakesTheOldest
<1>4. InOrder(H, U, R, B, P)
  BY <1>2 DEF SoundInv, OrderInv, Rest
<1>5. /\ buffers[1 - next] = << >> /\ next \in 0 .. 1 /\ 1 - (1 - next) = next
      /\ Rising(output)
  BY <1>1 DEF SoundInv, TurnsInv, RiseInv, TypeOK
<1>6. /\ Unplayed' = Unplayed /\ \A e : Given(e)' = Given(e)
      /\ Rest = output /\ Rest' = output'
  BY <1>2 DEF Unplayed, Given, Rest
<1> HIDE DEF data, n
<1>7. /\ first \in Seq(Sample) /\ rest \in Seq(Sample)
      /\ ToSet(data) = ToSet(first) \cup ToSet(rest)
      /\ Rising(first) /\ Rising(rest) /\ Before(ToSet(first), ToSet(rest))
      /\ Len(rest) = Len(data) - n
  BY <1>1, <1>3, SplitIs
<1> HIDE DEF first, rest
<1>8. /\ buffers'[1 - next'] = << >>
      /\ ToSet(buffers'[next']) = ToSet(rest) /\ Rising(buffers'[next'])
  <2>1. CASE n < Len(data)
    <3>1. /\ next' = 1 - next /\ buffers'[next] = << >>
          /\ buffers'[1 - next] = << >> \o rest
      BY <1>1, <1>5, <2>1, ConsumeIs DEF rest
    <3>2. buffers'[next'] = rest /\ 1 - next' = next
      BY <1>5, <1>7, <3>1, ConcatEmptySeq
    <3> QED
      BY <1>7, <3>1, <3>2
  <2>2. CASE ~(n < Len(data))
    <3>1. next' = next /\ buffers'[next] = << >> /\ buffers'[1 - next] = << >>
      BY <1>1, <1>5, <2>2, ConsumeIs
    <3>2. Len(rest) = 0
      <4>1. Len(data) \in Nat
        BY <1>1, LenProperties
      <4> QED
        BY <1>1, <1>7, <2>2, <4>1
    <3>3. ToSet(rest) = {}
      <4>1. rest = << >>
        BY <1>7, <3>2, Members
      <4> QED
        BY <4>1, NoMembers
    <3> QED
      BY <3>1, <3>3, NoMembers
  <2> QED
    BY <2>1, <2>2
<1> DEFINE F == ToSet(first)
           B1 == ToSet(rest)
           D == ToSet(data)
<1>9. D = F \cup B1 /\ D \cup Q = B \cup P /\ Before(F, B1) /\ Before(D, Q)
  BY <1>3, <1>7
<1> HIDE DEF H, U, R, B, P, Q, F, B1, D
<1>10. Before(R, F) /\ InOrder(H, U, R \cup F, B1, Q)
  BY <1>4, <1>9 DEF InOrder, Before
<1>11. ToSet(output') = R \cup F /\ Rising(output')
  <2>1. Before(ToSet(output), ToSet(first))
    BY <1>10 DEF R, F
  <2>2. /\ ToSet(output \o first) = ToSet(output) \cup ToSet(first)
        /\ Rising(output \o first)
    <3>1. output \in Seq(Sample) /\ first \in Seq(Sample) /\ Sample \subseteq Int
      BY <1>1, <1>7
    <3>2. Rising(output) /\ Rising(first)
      BY <1>5, <1>7
    <3> QED
      BY <2>1, <3>1, <3>2, SamplesJoin
  <2> QED
    BY <1>1, <2>2 DEF R, F
<1>12. OrderInv'
  BY <1>2, <1>6, <1>8, <1>10, <1>11 DEF OrderInv, H, U, B1, Q
<1>13. Everywhere' = Everywhere
  <2>1. Everywhere = H \cup U \cup R \cup B \cup P
    BY <1>6 DEF Everywhere, H, U, R, B, P
  <2>2. Everywhere' = H \cup U \cup (R \cup F) \cup B1 \cup Q
    BY <1>2, <1>6, <1>8, <1>11 DEF Everywhere, H, U, B1, Q
  <2> QED
    BY <1>9, <2>1, <2>2
<1>14. CoverInv'
  BY <1>2, <1>13 DEF SoundInv, CoverInv
<1>15. RiseInv'
  BY <1>2, <1>3, <1>6, <1>8, <1>11 DEF SoundInv, RiseInv
<1>16. TurnsInv'
  BY <1>8 DEF TurnsInv
<1> QED
  BY <1>12, <1>14, <1>15, <1>16 DEF SoundInv

LEMMA SoundInit == Init => SoundInv
<1> SUFFICES ASSUME Init PROVE SoundInv
  OBVIOUS
<1>1. QueueInv
  BY QueueInit0
<1>2. /\ slQueue = << >> /\ packets = << >> /\ heard = << >> /\ output = << >> /\ sent = 0
      /\ buffers[next] = << >> /\ buffers[1 - next] = << >> /\ Rest = << >>
      /\ Len(slQueue) = 0 /\ Len(packets) = 0
  BY DEF Init, QueueInit, Rest
<1>3. Unplayed = {} /\ Undelivered = {}
  BY <1>2 DEF Unplayed, Undelivered
<1>4. ToSet(heard) = {} /\ ToSet(Rest) = {} /\ ToSet(buffers[next]) = {} /\ Rising(<< >>)
  BY <1>2, NoMembers
<1>5. OrderInv /\ CoverInv
  BY <1>2, <1>3, <1>4 DEF OrderInv, InOrder, Before, CoverInv, Everywhere
<1>6. TurnsInv /\ RiseInv
  BY <1>2, <1>4 DEF TurnsInv, RiseInv
<1> QED
  BY <1>1, <1>5, <1>6 DEF SoundInv

LEMMA SoundStep == SoundInv /\ [Next]_vars => SoundInv'
<1> SUFFICES ASSUME SoundInv, [Next]_vars PROVE SoundInv'
  OBVIOUS
<1>1. QueueInv'
  BY QueueStep DEF SoundInv
<1>2. CASE \E n \in 1 .. MaxPacket : Arrive(n)
  BY <1>1, <1>2, SoundArrive
<1>3. CASE BeginFrame
  <2>1. CASE Lock
    BY <1>1, <1>3, <2>1, SoundQuiet
  <2>2. CASE LockInNewMode
    <3>1. /\ ResetSLESPlayer /\ emulation = "idle" /\ UNCHANGED <<sent, packets, buffers, next>>
          /\ emulation' \in {"idle", "mix"} /\ output' \in {output, << >>}
      BY <1>3, <2>2 DEF BeginFrame, LockInNewMode, Locked
    <3> QED
      BY <1>1, <3>1, SoundReset
  <2> QED
    BY <1>3, <2>1, <2>2 DEF BeginFrame
<1>4. CASE Mix
  BY <1>1, <1>4, SoundMix
<1>5. CASE LoadRemote
  BY <1>1, <1>5, SoundLoadRemote
<1>6. CASE Play /\ UNCHANGED remoteVars
  BY <1>1, <1>6, SoundPlay
<1>7. CASE UpdateSettings /\ UNCHANGED remoteVars
  <2>1. /\ ResetSLESPlayer /\ emulation = "idle" /\ UNCHANGED <<sent, packets, buffers, next>>
        /\ emulation' \in {"idle", "mix"} /\ output' \in {output, << >>}
    BY <1>7 DEF UpdateSettings, remoteVars
  <2> QED
    BY <1>1, <2>1, SoundReset
<1>8. CASE Submit /\ UNCHANGED remoteVars
  BY <1>1, <1>8, SoundSubmit
<1>9. CASE Note /\ UNCHANGED remoteVars
  BY <1>1, <1>9, SoundNote
<1>10. CASE \/ EndFrame
            \/ (Callback \/ Pause \/ Resume) /\ UNCHANGED remoteVars
            \/ UNCHANGED vars
  BY <1>1, <1>10, SoundQuiet
<1> QED
  BY <1>2, <1>3, <1>4, <1>5, <1>6, <1>7, <1>8, <1>9, <1>10 DEF Next, Driver

\* Samples are heard in order and once, and none is left out but for those that were
\* given up: through the packets, the buffers used in turn, the sub-buffers and
\* OpenSL's queue, whatever frames, callbacks, pauses, Resets and failures come between.
THEOREM SoundIsTrue == Spec => []HeardIsTrue
<1>1. ASSUME SoundInv PROVE HeardIsTrue
  <2>1. Rising(heard) /\ heard \in Seq(Sample) /\ sent \in Nat /\ Sample \subseteq Int
    BY <1>1, PlayQueueAssumption DEF SoundInv, RiseInv, QueueInv, TypeOK, QueueTypeOK, Sample
  <2>2. ASSUME heard # << >>, NEW x \in 1 .. Last(heard) PROVE x \in ToSet(heard) \cup dropped
    <3>1. Last(heard) \in ToSet(heard) /\ Last(heard) \in Int
      <4>1. Len(heard) \in 1 .. Len(heard) /\ Last(heard) \in Sample
        BY <2>1, <2>2, FrontIs, Members
      <4> QED
        BY <2>1, <4>1, Members DEF Last
    <3>2. Last(heard) \in 1 .. sent
      BY <1>1, <3>1 DEF SoundInv, CoverInv, Everywhere
    <3>3. x \in Everywhere \cup dropped
      <4>1. x \in 1 .. sent
        BY <2>1, <3>2
      <4> QED
        BY <1>1, <4>1 DEF SoundInv, CoverInv
    <3>4. ~(Last(heard) < x)
      BY <3>1
    <3>5. Before(ToSet(heard), Unplayed \cup ToSet(Rest) \cup ToSet(buffers[next]) \cup Undelivered)
      BY <1>1 DEF SoundInv, OrderInv, InOrder
    <3> QED
      BY <3>1, <3>3, <3>4, <3>5 DEF Before, Everywhere
  <2> QED
    BY <2>1, <2>2 DEF HeardIsTrue, Rising
<1>2. Spec => []SoundInv
  BY SoundInit, SoundStep, PTL DEF Spec
<1> QED
  BY <1>1, <1>2, PTL
=============================================================================
