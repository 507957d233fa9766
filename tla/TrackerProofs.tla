---------------------------- MODULE TrackerProofs ----------------------------
(***************************************************************************)
(* Proofs about Tracker for every number of keys, of frames of a key and   *)
(* of states, and every size of a movie's buffers.                         *)
(***************************************************************************)
EXTENDS Tracker, TLAPS, SequenceTheorems, WellFoundedInduction

-----------------------------------------------------------------------------
\* Every set of numbers has a least one.

LessThan == {ss \in Nat \X Nat : ss[1] < ss[2]}

LEMMA LeastOf ==
    ASSUME NEW T, T \subseteq Nat, T # {}
    PROVE  \E x \in T : \A y \in T : x <= y
<1>1. IsWellFoundedOn(LessThan, Nat)
  BY NatLessThanWellFounded DEF OpToRel, LessThan
<1>2. PICK x \in T : \A y \in T : ~(<<y, x>> \in LessThan)
  BY <1>1, WFMin
<1>3. ASSUME NEW y \in T PROVE x <= y
  <2>1. x \in Nat /\ y \in Nat
    OBVIOUS
  <2>2. y < x => <<y, x>> \in LessThan
    BY <2>1, Zenon DEF LessThan
  <2> QED
    BY <1>2, <2>1, <2>2
<1> QED
  BY <1>3

-----------------------------------------------------------------------------
\* The ring of keys.

LEMMA Sizes ==
    /\ NumKeys \in Nat /\ NumKeys >= 3 /\ NumFrames \in Nat /\ NumFrames >= 1
    /\ MaxStates \in Nat /\ MaxStates >= 1
    /\ Last \in Nat /\ Last + 1 = NumFrames /\ Frames = 0 .. Last
BY RewinderAssumption, GameAssumption DEF Last, Frames

\* The remainders do not go round twice.
LEMMA RingIs ==
    ASSUME NEW k \in Keys
    PROVE  /\ NextKey(k) = IF k = NumKeys - 1 THEN 0 ELSE k + 1
           /\ PrevKey(k) = IF k = 0 THEN NumKeys - 1 ELSE k - 1
<1>1. k \in 0 .. NumKeys - 1 /\ NumKeys \in Nat /\ NumKeys >= 3
  BY Sizes DEF Keys
<1>2. (k + 1) % NumKeys = IF k + 1 < NumKeys THEN k + 1 ELSE k + 1 - NumKeys
  BY <1>1
<1>3. (k + NumKeys - 1) % NumKeys
        = IF k + NumKeys - 1 < NumKeys THEN k + NumKeys - 1 ELSE k + NumKeys - 1 - NumKeys
  BY <1>1
<1> QED
  BY <1>1, <1>2, <1>3 DEF NextKey, PrevKey

\* The keys before and after a key are two others, and it is between them.
LEMMA Neighbours ==
    ASSUME NEW k \in Keys
    PROVE  /\ NextKey(k) \in Keys /\ PrevKey(k) \in Keys
           /\ NextKey(k) # k /\ PrevKey(k) # k /\ PrevKey(k) # NextKey(k)
           /\ NextKey(PrevKey(k)) = k /\ PrevKey(NextKey(k)) = k
           /\ \A j \in Keys : NextKey(j) = k => j = PrevKey(k)
<1>1. NumKeys \in Nat /\ NumKeys >= 3 /\ Keys = 0 .. NumKeys - 1
  BY Sizes DEF Keys
<1>2. NextKey(k) \in Keys /\ PrevKey(k) \in Keys
  BY <1>1, RingIs
<1>3. NextKey(k) # k /\ PrevKey(k) # k /\ PrevKey(k) # NextKey(k)
  BY <1>1, RingIs
<1>4. NextKey(PrevKey(k)) = k /\ PrevKey(NextKey(k)) = k
  <2>1. NextKey(PrevKey(k)) = IF PrevKey(k) = NumKeys - 1 THEN 0 ELSE PrevKey(k) + 1
    BY <1>2, RingIs
  <2>2. PrevKey(NextKey(k)) = IF NextKey(k) = 0 THEN NumKeys - 1 ELSE NextKey(k) - 1
    BY <1>2, RingIs
  <2> QED
    BY <1>1, <2>1, <2>2, RingIs
<1>5. ASSUME NEW j \in Keys, NextKey(j) = k PROVE j = PrevKey(k)
  BY <1>1, <1>5, RingIs
<1> QED
  BY <1>2, <1>3, <1>4, <1>5

-----------------------------------------------------------------------------
\* The game.

\* Every state was played from an older one, or came from nowhere.
GameInv ==
    /\ Len(origin) \in 1 .. MaxStates
    /\ now \in 1 .. Len(origin) /\ shown \in 1 .. Len(origin) /\ taped \in 1 .. Len(origin)
    /\ \A s \in 1 .. Len(origin) : origin[s] \in 0 .. s - 1

\* States that were played stay what they are, those up to m at least.
Grows(o, p, m) ==
    /\ Len(o) >= m /\ Len(p) >= m
    /\ \A s \in 1 .. m : p[s] = o[s]

LEMMA OriginIs ==
    ASSUME GameTypeOK
    PROVE  /\ Len(origin) \in Nat
           /\ \A s \in 1 .. Len(origin) : origin[s] \in {Nowhere} \cup States
           /\ DOMAIN origin = 1 .. Len(origin)
BY ElementOfSeq, LenProperties DEF GameTypeOK

\* What PlayFrom adds.
LEMMA PlayIs ==
    ASSUME GameTypeOK, GameInv, NEW s \in 1 .. Len(origin), PlayFrom(s)
    PROVE  /\ NewState = Len(origin) + 1 /\ NewState \in States /\ now' = NewState
           /\ Len(origin') = NewState
           /\ origin' \in Seq({Nowhere} \cup States)
           /\ origin'[NewState] = s
           /\ Grows(origin, origin', Len(origin))
           /\ \A t \in 1 .. Len(origin') : origin'[t] \in 0 .. t - 1
<1>1. /\ origin \in Seq({Nowhere} \cup States) /\ Len(origin) \in Nat
      /\ s \in {Nowhere} \cup States /\ MaxStates \in Nat
  BY OriginIs, Sizes DEF GameTypeOK, GameInv, States
<1>2. NewState = Len(origin) + 1 /\ NewState \in States /\ now' = NewState
  BY DEF PlayFrom, NewState
<1>3. /\ origin' \in Seq({Nowhere} \cup States) /\ Len(origin') = Len(origin) + 1
      /\ \A t \in 1 .. Len(origin) : origin'[t] = origin[t]
      /\ origin'[Len(origin) + 1] = s
  BY <1>1, AppendProperties DEF PlayFrom
<1>4. ASSUME NEW t \in 1 .. Len(origin') PROVE origin'[t] \in 0 .. t - 1
  <2>1. CASE t = Len(origin) + 1
    BY <1>1, <1>3, <2>1
  <2>2. CASE t # Len(origin) + 1
    <3>1. t \in 1 .. Len(origin)
      BY <1>1, <1>3, <2>2
    <3> QED
      BY <1>3, <3>1 DEF GameInv
  <2> QED
    BY <2>1, <2>2
<1> QED
  BY <1>1, <1>2, <1>3, <1>4 DEF Grows

LEMMA PlayGame ==
    ASSUME GameTypeOK, GameInv, NEW s \in 1 .. Len(origin), PlayFrom(s),
           shown' \in {shown, NewState}, taped' = taped
    PROVE  GameTypeOK' /\ GameInv'
<1>1. Len(origin) \in Nat /\ MaxStates \in Nat
  BY OriginIs, Sizes
<1>2. /\ NewState = Len(origin) + 1 /\ NewState \in 1 .. MaxStates /\ now' = NewState
      /\ Len(origin') = NewState /\ origin' \in Seq({Nowhere} \cup States)
      /\ \A t \in 1 .. Len(origin') : origin'[t] \in 0 .. t - 1
  BY PlayIs DEF States
<1>3. shown' \in 1 .. Len(origin') /\ taped' \in 1 .. Len(origin')
  BY <1>1, <1>2 DEF GameInv
<1>4. GameTypeOK'
  <2>1. 1 .. Len(origin') \subseteq States
    BY <1>1, <1>2 DEF States
  <2>2. now' \in States /\ shown' \in States
    BY <1>1, <1>2, <1>3, <2>1
  <2> QED
    BY <1>2, <2>2 DEF GameTypeOK
<1>5. GameInv'
  <2>1. now' \in 1 .. Len(origin') /\ Len(origin') \in 1 .. MaxStates
    BY <1>1, <1>2
  <2> QED
    BY <1>2, <1>3, <2>1 DEF GameInv
<1> QED
  BY <1>4, <1>5

\* What Forget leaves.
LEMMA ForgetIs ==
    ASSUME GameTypeOK, GameInv, NEW m \in 1 .. Len(origin), NEW s \in 1 .. Len(origin),
           Forget(m, s)
    PROVE  /\ origin' \in Seq({Nowhere} \cup States)
           /\ Len(origin') = IF s <= m THEN m ELSE m + 1
           /\ Len(origin') <= Len(origin)
           /\ Grows(origin, origin', m)
           /\ now' = IF s <= m THEN s ELSE m + 1
           /\ now' \in 1 .. Len(origin') /\ shown' = now'
           /\ now' > m => origin'[now'] = Nowhere
           /\ \A t \in 1 .. Len(origin') : origin'[t] \in 0 .. t - 1
<1> DEFINE cut == SubSeq(origin, 1, m)
<1>1. /\ origin \in Seq({Nowhere} \cup States) /\ Len(origin) \in Nat /\ m \in Nat /\ s \in Nat
      /\ \A i \in 1 .. m : origin[i] \in {Nowhere} \cup States
  BY OriginIs DEF GameTypeOK
<1>2. /\ cut \in Seq({Nowhere} \cup States) /\ Len(cut) = m
      /\ \A i \in 1 .. m : cut[i] = origin[i]
  <2>1. /\ cut \in Seq({Nowhere} \cup States)
        /\ Len(cut) = IF 1 <= m THEN m - 1 + 1 ELSE 0
        /\ \A i \in 1 .. m - 1 + 1 : cut[i] = origin[1 + i - 1]
    BY <1>1, SubSeqProperties
  <2>2. (IF 1 <= m THEN m - 1 + 1 ELSE 0) = m /\ m - 1 + 1 = m
    OBVIOUS
  <2>3. \A i \in 1 .. m : 1 + i - 1 = i
    OBVIOUS
  <2> HIDE DEF cut
  <2> QED
    BY <2>1, <2>2, <2>3
<1>3. \A i \in 1 .. m : cut[i] \in 0 .. i - 1
  BY <1>1, <1>2 DEF GameInv
<1>4. CASE s <= m
  <2>1. origin' = cut /\ now' = s /\ shown' = now'
    BY <1>4 DEF Forget
  <2> HIDE DEF cut
  <2> QED
    BY <1>1, <1>2, <1>3, <1>4, <2>1 DEF Grows
<1>5. CASE ~(s <= m)
  <2>1. origin' = Append(cut, Nowhere) /\ now' = m + 1 /\ shown' = now'
    BY <1>5 DEF Forget
  <2> HIDE DEF cut
  <2>2. /\ origin' \in Seq({Nowhere} \cup States) /\ Len(origin') = m + 1
        /\ \A i \in 1 .. m : origin'[i] = cut[i]
        /\ origin'[m + 1] = Nowhere
    BY <1>2, <2>1, AppendProperties
  <2>3. ASSUME NEW t \in 1 .. Len(origin') PROVE origin'[t] \in 0 .. t - 1
    <3>1. CASE t = m + 1
      BY <1>1, <2>2, <3>1 DEF Nowhere
    <3>2. CASE t # m + 1
      <4>1. t \in 1 .. m
        BY <1>1, <2>2, <3>2
      <4> QED
        BY <1>3, <2>2, <4>1
    <3> QED
      BY <3>1, <3>2
  <2> QED
    BY <1>1, <1>2, <1>5, <2>1, <2>2, <2>3 DEF Grows
<1> QED
  BY <1>4, <1>5

LEMMA ForgetGame ==
    ASSUME GameTypeOK, GameInv, NEW m \in 1 .. Len(origin), NEW s \in 1 .. Len(origin),
           Forget(m, s), taped' \in m .. Len(origin')
    PROVE  GameTypeOK' /\ GameInv'
<1>1. Len(origin) \in Nat /\ MaxStates \in Nat /\ Len(origin) \in 1 .. MaxStates
  BY OriginIs, Sizes DEF GameInv
<1>2. /\ origin' \in Seq({Nowhere} \cup States) /\ Len(origin') \in Nat
      /\ Len(origin') <= Len(origin)
      /\ now' \in 1 .. Len(origin') /\ shown' = now'
      /\ \A t \in 1 .. Len(origin') : origin'[t] \in 0 .. t - 1
  BY <1>1, ForgetIs
<1>3. taped' \in 1 .. Len(origin') /\ Len(origin') \in 1 .. MaxStates
  BY <1>1, <1>2
<1> QED
  BY <1>1, <1>2, <1>3, SMTT(30) DEF GameInv, GameTypeOK, States

-----------------------------------------------------------------------------
\* What a key records.

\* The state that i frames of key k lead to.
StateAfter(k, i) == IF i = 0 THEN k.start ELSE k.input[i]

\* The input leads on from the state the key begins with, by states later than m.
Leads(o, m, k) ==
    /\ k.start \in 1 .. Len(o)
    /\ \A i \in 1 .. Len(k.input) :
           k.input[i] \in m + 1 .. Len(o) /\ o[k.input[i]] = StateAfter(k, i - 1)

Whole(o, m, k) == Len(k.input) = NumFrames /\ Leads(o, m, k)

\* Whole, and n frames of it were replayed.
At(o, m, k, n) == k.pos = n /\ ~k.packed /\ Whole(o, m, k)

\* It is being recorded, for n frames.
Recorded(o, m, k, n) == k.pos = 0 /\ ~k.packed /\ Len(k.input) = n /\ Leads(o, m, k)

\* It can be rewound to.
Kept(o, m, k) == CanRewind(k) => Whole(o, m, k) /\ (k.packed => k.pos = NumFrames)

LEMMA KeyIs ==
    ASSUME NEW k \in KeyType
    PROVE  /\ k.start \in {Nowhere} \cup States /\ k.pos \in {BadPos} \cup 0 .. NumFrames
           /\ k.input \in Seq(States) /\ Len(k.input) \in Nat /\ k.packed \in BOOLEAN
           /\ k = [start |-> k.start, pos |-> k.pos, input |-> k.input, packed |-> k.packed]
BY LenProperties DEF KeyType

LEMMA LeadsOn ==
    ASSUME NEW o, NEW p, NEW m \in Nat, NEW k \in KeyType, Len(o) \in Nat, Len(p) \in Nat,
           Grows(o, p, Len(o)), Leads(o, m, k)
    PROVE  Leads(p, m, k)
<1>1. Len(p) >= Len(o) /\ \A s \in 1 .. Len(o) : p[s] = o[s]
  BY DEF Grows
<1>2. k.start \in 1 .. Len(p)
  BY <1>1 DEF Leads
<1>3. ASSUME NEW i \in 1 .. Len(k.input)
      PROVE  k.input[i] \in m + 1 .. Len(p) /\ p[k.input[i]] = StateAfter(k, i - 1)
  <2>1. k.input[i] \in m + 1 .. Len(o) /\ o[k.input[i]] = StateAfter(k, i - 1)
    BY DEF Leads
  <2> QED
    BY <1>1, <2>1
<1> QED
  BY <1>2, <1>3 DEF Leads

\* A key as it begins to be recorded.
LEMMA RecordingIs ==
    ASSUME NEW o, NEW m \in Nat, Len(o) \in Nat, Len(o) <= MaxStates, NEW b \in 1 .. Len(o), NEW s \in m + 1 .. Len(o), o[s] = b
    PROVE  /\ Recording(b, s) \in KeyType
           /\ Recorded(o, m, Recording(b, s), 1)
           /\ StateAfter(Recording(b, s), 1) = s
           /\ CanRewind(Recording(b, s)) /\ Recording(b, s).start = b
<1> DEFINE k == Recording(b, s)
<1>1. /\ k.start = b /\ k.pos = 0 /\ k.input = <<s>> /\ k.packed = FALSE
      /\ k = [start |-> b, pos |-> 0, input |-> <<s>>, packed |-> FALSE]
  BY DEF Recording
<1>2. Len(<<s>>) = 1 /\ <<s>>[1] = s /\ s \in States /\ b \in States
  BY Sizes DEF States
<1>3. <<s>> \in Seq(States)
  BY <1>2
<1>4. k \in KeyType
  BY <1>1, <1>2, <1>3, Sizes DEF KeyType
<1> HIDE DEF k
<1>5. StateAfter(k, 1) = s /\ StateAfter(k, 0) = b
  BY <1>1, <1>2 DEF StateAfter
<1>6. ASSUME NEW i \in 1 .. Len(k.input)
      PROVE k.input[i] \in m + 1 .. Len(o) /\ o[k.input[i]] = StateAfter(k, i - 1)
  <2>1. i = 1 /\ i - 1 = 0
    BY <1>1, <1>2
  <2> QED
    BY <1>1, <1>2, <1>5, <2>1
<1>7. Leads(o, m, k)
  BY <1>1, <1>6 DEF Leads
<1>8. Recorded(o, m, k, 1) /\ CanRewind(k)
  BY <1>1, <1>2, <1>7 DEF Recorded, CanRewind, BadPos
<1> QED
  BY <1>1, <1>4, <1>5, <1>8 DEF k

\* A frame is added to a key that is recorded.
LEMMA PutIs ==
    ASSUME NEW o, NEW m \in Nat, Len(o) \in Nat, Len(o) <= MaxStates, NEW k \in KeyType, NEW n \in Nat, Recorded(o, m, k, n),
           NEW s \in m + 1 .. Len(o), o[s] = StateAfter(k, n)
    PROVE  /\ Put(k, s) \in KeyType
           /\ Recorded(o, m, Put(k, s), n + 1)
           /\ StateAfter(Put(k, s), n + 1) = s
           /\ Put(k, s).start = k.start
           /\ \A i \in 1 .. n : Put(k, s).input[i] = k.input[i]
<1> DEFINE q == Put(k, s)
<1>1. /\ k.pos = 0 /\ k.packed = FALSE /\ Len(k.input) = n /\ Leads(o, m, k)
      /\ k.input \in Seq(States) /\ k.start \in {Nowhere} \cup States
      /\ s \in States
  BY KeyIs, Sizes DEF Recorded, States
<1>2. /\ q = [start |-> k.start, pos |-> 0, input |-> Append(k.input, s), packed |-> FALSE]
      /\ q.start = k.start /\ q.pos = 0 /\ q.input = Append(k.input, s) /\ q.packed = FALSE
  <2>1. q = [k EXCEPT !.input = Append(k.input, s)]
    BY <1>1 DEF Put, CanRewind, BadPos
  <2>2. k \in [start : {Nowhere} \cup States, pos : {BadPos} \cup 0 .. NumFrames,
               input : Seq(States), packed : BOOLEAN]
    BY DEF KeyType
  <2> HIDE DEF q
  <2> QED
    BY <1>1, <2>1, <2>2
<1> HIDE DEF q
<1>3. /\ q.input \in Seq(States) /\ Len(q.input) = n + 1
      /\ \A i \in 1 .. n : q.input[i] = k.input[i]
      /\ q.input[n + 1] = s
  BY <1>1, <1>2, AppendProperties
<1>4. q \in KeyType
  BY <1>1, <1>2, <1>3, Sizes DEF KeyType
<1>5. StateAfter(q, n + 1) = s /\ \A i \in 0 .. n : StateAfter(q, i) = StateAfter(k, i)
  BY <1>2, <1>3 DEF StateAfter
<1>6. ASSUME NEW i \in 1 .. Len(q.input)
      PROVE q.input[i] \in m + 1 .. Len(o) /\ o[q.input[i]] = StateAfter(q, i - 1)
  <2>1. CASE i = n + 1
    BY <1>3, <1>5, <2>1
  <2>2. CASE i # n + 1
    <3>1. i \in 1 .. n /\ i - 1 \in 0 .. n
      BY <1>3, <2>2
    <3> QED
      BY <1>1, <1>3, <1>5, <3>1 DEF Leads
  <2> QED
    BY <2>1, <2>2
<1>7. Leads(o, m, q)
  BY <1>1, <1>2, <1>6 DEF Leads
<1> QED
  BY <1>2, <1>3, <1>4, <1>5, <1>7 DEF Recorded, q

\* What a key records does not depend on its position.
LEMMA SameInput ==
    ASSUME NEW o, NEW m, NEW k, NEW q, q.start = k.start, q.input = k.input
    PROVE  /\ \A n : StateAfter(q, n) = StateAfter(k, n)
           /\ Whole(o, m, q) = Whole(o, m, k)
<1>1. \A n : StateAfter(q, n) = StateAfter(k, n)
  BY DEF StateAfter
<1>2. Leads(o, m, q) <=> Leads(o, m, k)
  BY <1>1 DEF Leads
<1> QED
  BY <1>1, <1>2 DEF Whole

\* A key with another position.
LEMMA MovedOnly ==
    ASSUME NEW o, NEW m, NEW k \in KeyType, NEW i \in {BadPos} \cup 0 .. NumFrames,
           NEW q, q = [k EXCEPT !.pos = i]
    PROVE  /\ q \in KeyType
           /\ q.start = k.start /\ q.pos = i /\ q.input = k.input /\ q.packed = k.packed
           /\ \A n : StateAfter(q, n) = StateAfter(k, n)
           /\ Whole(o, m, q) = Whole(o, m, k)
<1>1. /\ q \in KeyType
      /\ q.start = k.start /\ q.pos = i /\ q.input = k.input /\ q.packed = k.packed
  BY DEF KeyType
<1> QED
  BY <1>1, SameInput

\* A key that has all its frames can be rewound to when it is ended.
LEMMA EndForwardIs ==
    ASSUME NEW o, NEW m, NEW k \in KeyType, NEW q \in EndForward(k)
    PROVE  /\ k.pos = 0 /\ Len(k.input) = NumFrames =>
                 /\ q \in KeyType /\ Whole(o, m, q) = Whole(o, m, k) /\ q.pos = NumFrames
                 /\ \A n : StateAfter(q, n) = StateAfter(k, n)
           /\ k.pos # 0 => q = ResetKey
<1>1. CASE k.pos = 0 /\ Len(k.input) = NumFrames
  <2>1. PICK b \in BOOLEAN : q = [k EXCEPT !.pos = NumFrames, !.packed = b]
    BY <1>1 DEF EndForward
  <2>2. /\ q \in KeyType
        /\ q.start = k.start /\ q.pos = NumFrames /\ q.input = k.input
    <3>1. q = [start |-> k.start, pos |-> NumFrames, input |-> k.input, packed |-> b]
      BY <2>1 DEF KeyType
    <3>2. k.start \in {Nowhere} \cup States /\ k.input \in Seq(States)
      BY KeyIs
    <3> QED
      BY <3>1, <3>2, Sizes DEF KeyType
  <2> QED
    BY <1>1, <2>2, SameInput
<1>2. CASE k.pos # 0
  BY <1>2 DEF EndForward
<1> QED
  BY <1>1, <1>2

\* A key that was recorded, or replayed before, is replayed from its beginning.
LEMMA BeginBackwardIs ==
    ASSUME NEW o, NEW m, NEW k \in KeyType, Whole(o, m, k), k.packed => k.pos = NumFrames
    PROVE  /\ BeginBackward(k) \in KeyType /\ At(o, m, BeginBackward(k), 0)
           /\ BeginBackward(k).start = k.start /\ BeginBackward(k).input = k.input
           /\ \A n : StateAfter(BeginBackward(k), n) = StateAfter(k, n)
<1> DEFINE q == BeginBackward(k)
<1>1. (k.packed /\ k.pos < Len(k.input)) = FALSE
  BY Sizes DEF Whole
<1>2. q = [k EXCEPT !.pos = 0, !.packed = FALSE]
  BY <1>1 DEF BeginBackward
<1> HIDE DEF q
<1>3. /\ q \in KeyType
      /\ q.start = k.start /\ q.pos = 0 /\ q.input = k.input /\ ~q.packed
  <2>1. q = [start |-> k.start, pos |-> 0, input |-> k.input, packed |-> FALSE]
    BY <1>2 DEF KeyType
  <2>2. k.start \in {Nowhere} \cup States /\ k.input \in Seq(States)
    BY KeyIs
  <2> QED
    BY <2>1, <2>2, Sizes DEF KeyType
<1>4. (\A n : StateAfter(q, n) = StateAfter(k, n)) /\ Whole(o, m, q)
  BY <1>3, SameInput
<1> QED
  BY <1>3, <1>4 DEF At, q

LEMMA EndBackwardIs ==
    ASSUME NEW o, NEW m, NEW k \in KeyType, Whole(o, m, k), ~k.packed
    PROVE  /\ EndBackward(k) \in KeyType /\ At(o, m, EndBackward(k), 0)
           /\ EndBackward(k).start = k.start /\ EndBackward(k).input = k.input
           /\ \A n : StateAfter(EndBackward(k), n) = StateAfter(k, n)
<1>1. 0 \in {BadPos} \cup 0 .. NumFrames
  BY Sizes
<1> QED
  BY <1>1, MovedOnly DEF EndBackward, At

LEMMA InvalidateIs ==
    ASSUME NEW k \in KeyType
    PROVE  /\ Invalidate(k) \in KeyType /\ ~CanRewind(Invalidate(k))
           /\ Invalidate(k).start = k.start /\ Invalidate(k).input = k.input
BY MovedOnly DEF Invalidate, CanRewind

\* A recorded frame is played from the state it was played from.
LEMMA ReplayIs ==
    ASSUME NEW m \in Nat, NEW k \in KeyType, NEW n \in 0 .. Last, At(origin, m, k, n)
    PROVE  /\ Get(k, StateAfter(k, n)) = StateAfter(k, n + 1)
           /\ StateAfter(k, n + 1) = k.input[n + 1]
           /\ k.input[n + 1] \in m + 1 .. Len(origin)
           /\ origin[k.input[n + 1]] = StateAfter(k, n)
           /\ Advance(k) \in KeyType /\ At(origin, m, Advance(k), n + 1)
           /\ Advance(k).start = k.start /\ Advance(k).input = k.input
           /\ \A i : StateAfter(Advance(k), i) = StateAfter(k, i)
<1>1. /\ k.pos = n /\ k.packed = FALSE /\ Len(k.input) = NumFrames /\ Leads(origin, m, k)
      /\ n + 1 \in 1 .. NumFrames /\ n < NumFrames /\ n \in Nat /\ NumFrames \in Nat
      /\ k.packed \in BOOLEAN
  BY KeyIs, Sizes DEF At, Whole
<1>2. /\ k.input[n + 1] \in m + 1 .. Len(origin)
      /\ origin[k.input[n + 1]] = StateAfter(k, n + 1 - 1)
  BY <1>1 DEF Leads
<1>3. n + 1 - 1 = n /\ n + 1 # 0
  BY <1>1
<1>4. Get(k, StateAfter(k, n)) = k.input[n + 1]
  BY <1>1, <1>2, <1>3 DEF Get
<1>5. Advance(k) = [k EXCEPT !.pos = n + 1]
  BY <1>1 DEF Advance
<1>6. n + 1 \in {BadPos} \cup 0 .. NumFrames
  BY <1>1
<1> QED
  BY <1>1, <1>2, <1>3, <1>4, <1>5, <1>6, MovedOnly DEF StateAfter, At

\* What was replayed of a key is what it is recorded on from.
LEMMA ResumeForwardIs ==
    ASSUME NEW o, NEW m \in Nat, NEW k \in KeyType, NEW n \in 1 .. NumFrames, At(o, m, k, n)
    PROVE  /\ ResumeForward(k) \in KeyType
           /\ Recorded(o, m, ResumeForward(k), n)
           /\ StateAfter(ResumeForward(k), n) = StateAfter(k, n)
           /\ ResumeForward(k).start = k.start
<1> DEFINE q == ResumeForward(k)
<1>1. /\ k.pos = n /\ k.packed = FALSE /\ Len(k.input) = NumFrames /\ Leads(o, m, k)
      /\ NumFrames \in Nat /\ n \in Nat
      /\ k.input \in Seq(States) /\ k.start \in {Nowhere} \cup States
  BY KeyIs, Sizes DEF At, Whole
<1>2. /\ SubSeq(k.input, 1, n) \in Seq(States) /\ Len(SubSeq(k.input, 1, n)) = n
      /\ \A i \in 1 .. n : SubSeq(k.input, 1, n)[i] = k.input[i]
  <2>1. \A i \in 1 .. n : k.input[i] \in States
    BY <1>1, ElementOfSeq
  <2>2. /\ SubSeq(k.input, 1, n) \in Seq(States)
        /\ Len(SubSeq(k.input, 1, n)) = IF 1 <= n THEN n - 1 + 1 ELSE 0
        /\ \A i \in 1 .. n - 1 + 1 : SubSeq(k.input, 1, n)[i] = k.input[1 + i - 1]
    BY <1>1, <2>1, SubSeqProperties
  <2>3. (IF 1 <= n THEN n - 1 + 1 ELSE 0) = n /\ n - 1 + 1 = n /\ \A i \in 1 .. n : 1 + i - 1 = i
    BY <1>1
  <2> QED
    BY <2>2, <2>3
<1>3. /\ q = [start |-> k.start, pos |-> 0, input |-> SubSeq(k.input, 1, n), packed |-> FALSE]
      /\ q.start = k.start /\ q.pos = 0 /\ q.input = SubSeq(k.input, 1, n) /\ q.packed = FALSE
  <2>1. q = [k EXCEPT !.pos = 0, !.input = SubSeq(k.input, 1, n)]
    BY <1>1 DEF ResumeForward
  <2>2. k \in [start : {Nowhere} \cup States, pos : {BadPos} \cup 0 .. NumFrames,
               input : Seq(States), packed : BOOLEAN]
    BY DEF KeyType
  <2> HIDE DEF q
  <2> QED
    BY <1>1, <2>1, <2>2
<1> HIDE DEF q
<1>4. q \in KeyType
  BY <1>1, <1>2, <1>3, Sizes DEF KeyType
<1>5. \A i \in 0 .. n : StateAfter(q, i) = StateAfter(k, i)
  BY <1>2, <1>3 DEF StateAfter
<1>6. ASSUME NEW i \in 1 .. n
      PROVE q.input[i] \in m + 1 .. Len(o) /\ o[q.input[i]] = StateAfter(q, i - 1)
  <2>1. i \in 1 .. NumFrames /\ i - 1 \in 0 .. n
    BY <1>1
  <2> QED
    BY <1>1, <1>2, <1>3, <1>5, <2>1 DEF Leads
<1>7. Leads(o, m, q)
  BY <1>1, <1>2, <1>3, <1>6 DEF Leads
<1>8. n \in 0 .. n
  BY <1>1
<1> QED
  BY <1>2, <1>3, <1>4, <1>5, <1>7, <1>8 DEF Recorded, q

-----------------------------------------------------------------------------
\* The rewinder.

\* Of two keys that follow one another, the first leads to where the second begins.
Linked(a, b) == CanRewind(a) /\ CanRewind(b) => StateAfter(a, NumFrames) = b.start

Current == keys[key]
Newer   == keys[NextKey(key)]
Older   == keys[PrevKey(key)]

Fresh == frame = Last /\ keys = [k \in Keys |-> ResetKey]

RecordedTo(n) == Recorded(origin, taped, Current, n) /\ now = StateAfter(Current, n)
ReplayedTo(n) == At(origin, taped, Current, n) /\ now = StateAfter(Current, n)

\* The newer key can be replayed once more.
NewerReady == At(origin, taped, Newer, 0)

\* Where the i-th picture of a pass over the buffer is put, or comes from.
SlotOf(d, i) == IF d = 1 THEN i ELSE Last - i

\* The pictures that were shown have made room for those of this key.
Pictures ==
    \A i \in Frames :
        picture[SlotOf(pingpong, i)] =
            IF frame < Last /\ i <= frame THEN Current.input[i + 1]
            ELSE IF frame < Last THEN Newer.input[NumFrames - i]
            ELSE Current.input[NumFrames - i]

NextSlot == slot = IF frame < Last THEN SlotOf(pingpong, frame + 1) ELSE SlotOf(pingpong, 0)

ForwardMode == (stage = "idle" /\ (rewinding <=> uturn)) \/ stage = "resume"
BackMode    == stage = "idle" /\ (rewinding <=> ~uturn)

StageInv ==
    /\ stage # "idle" => on /\ rewinder /\ ~uturn
    /\ stage \in {"catchUp", "store", "align", "back"} => rewinding
    /\ stage \in {"forward", "resume"} => ~rewinding
    /\ ~rewinder => Fresh /\ ~rewinding /\ ~uturn

RestInv ==
    /\ \A k \in Keys \ {key} : Kept(origin, taped, keys[k])
    /\ \A k \in Keys \ {key} : Linked(keys[k], keys[NextKey(k)])
    /\ ~ForwardMode /\ stage # "catchUp" => Linked(Current, Newer)

ForwardInv ==
    ForwardMode =>
        /\ shown = now
        /\ (Fresh /\ ~rewinding /\ stage = "idle") \/ RecordedTo(frame + 1)
        /\ rewinding => CanRewind(Older)

CatchUpInv ==
    stage = "catchUp" =>
        /\ RecordedTo(NumFrames - todo) /\ todo \in 0 .. Last - frame
        /\ shown = Current.input[frame + 1] /\ CanRewind(Older)

StoreInv ==
    stage = "store" =>
        /\ ReplayedTo(NumFrames - todo) /\ todo \in 0 .. NumFrames
        /\ shown = Current.input[frame + 1] /\ CanRewind(Older) /\ ~CanRewind(Newer)
        /\ \A i \in 0 .. NumFrames - todo - 1 : picture[i] = Current.input[i + 1]
        /\ IF todo = 0 THEN pingpong = -1 /\ slot = Last
                       ELSE pingpong = 1 /\ slot = NumFrames - todo

AlignInv ==
    stage = "align" =>
        /\ ReplayedTo(frame + 1) /\ Pictures /\ NextSlot /\ todo \in 0 .. Last
        /\ \/ frame = Last /\ CanRewind(Older) /\ shown = Current.input[NumFrames - todo]
           \/ frame + todo < Last /\ NewerReady /\ shown = Newer.input[Last - frame - todo]

\* The picture on the screen is shown once more.
BackAgainInv ==
    stage = "back" =>
        /\ ReplayedTo(frame + 1) /\ Pictures /\ NextSlot /\ shown = picture[slot]
        /\ (frame = Last /\ CanRewind(Older)) \/ (frame < Last /\ NewerReady)

BackInv ==
    BackMode =>
        /\ ReplayedTo(frame + 1) /\ Pictures /\ NextSlot
        /\ NewerReady /\ shown = Newer.input[NumFrames - frame]

\* The picture on the screen is what the machine is brought to.
ResumeInv ==
    stage = "forward" =>
        /\ ReplayedTo(frame + 1)
        /\ \/ frame + todo <= Last /\ shown = Current.input[frame + 1 + todo]
           \/ /\ frame + todo - Last \in 1 .. NumFrames
              /\ NewerReady /\ shown = Newer.input[frame + todo - Last]

RewindInv ==
    /\ StageInv /\ RestInv /\ ForwardInv /\ CatchUpInv /\ StoreInv /\ AlignInv
    /\ BackAgainInv /\ BackInv /\ ResumeInv

\* Keys stay what they are while the game goes on.
LEMMA KeysGrow ==
    ASSUME GameTypeOK, GameInv, NEW s \in 1 .. Len(origin), PlayFrom(s), taped' = taped,
           NEW k \in KeyType
    PROVE  /\ Leads(origin, taped, k) => Leads(origin', taped', k)
           /\ Whole(origin, taped, k) => Whole(origin', taped', k)
           /\ Kept(origin, taped, k) => Kept(origin', taped', k)
           /\ \A n : At(origin, taped, k, n) => At(origin', taped', k, n)
           /\ \A n : Recorded(origin, taped, k, n) => Recorded(origin', taped', k, n)
<1>1. /\ Len(origin) \in Nat /\ Len(origin') \in Nat /\ taped \in Nat
      /\ Grows(origin, origin', Len(origin))
  <2>1. NewState = Len(origin) + 1 /\ Len(origin') = NewState /\ Grows(origin, origin', Len(origin))
    BY PlayIs
  <2>2. Len(origin) \in Nat /\ taped \in Nat
    BY OriginIs DEF GameInv
  <2> QED
    BY <2>1, <2>2
<1>2. Leads(origin, taped, k) => Leads(origin', taped', k)
  BY <1>1, LeadsOn
<1>3. Whole(origin, taped, k) => Whole(origin', taped', k)
  BY <1>2 DEF Whole
<1> QED
  BY <1>2, <1>3 DEF Kept, At, Recorded

LEMMA TypesOfKeys ==
    ASSUME RewinderTypeOK
    PROVE  /\ key \in Keys /\ \A k \in Keys : keys[k] \in KeyType
           /\ Current \in KeyType /\ Newer \in KeyType /\ Older \in KeyType
           /\ frame \in 0 .. Last /\ Last \in Nat /\ NumFrames = Last + 1
BY Neighbours, Sizes DEF RewinderTypeOK, Current, Newer, Older

LEMMA ResetKeyIs ==
    /\ ResetKey \in KeyType /\ ~CanRewind(ResetKey) /\ Len(ResetKey.input) = 0
    /\ ResetKey.pos # 0
<1>1. << >> \in Seq(States) /\ Len(<< >>) = 0
  BY EmptySeq
<1> QED
  BY <1>1 DEF ResetKey, KeyType, CanRewind, BadPos

\* Keys of which one is changed, or two that follow one another.
LEMMA OneKey ==
    ASSUME NEW ks \in [Keys -> KeyType], NEW k \in Keys, NEW a \in KeyType,
           NEW ls, ls = [ks EXCEPT ![k] = a]
    PROVE  /\ ls \in [Keys -> KeyType] /\ ls[k] = a
           /\ \A j \in Keys \ {k} : ls[j] = ks[j]
OBVIOUS

LEMMA TwoKeys ==
    ASSUME NEW ks \in [Keys -> KeyType], NEW k \in Keys, NEW l \in Keys, k # l,
           NEW a \in KeyType, NEW b \in KeyType,
           NEW ls, ls = [ks EXCEPT ![k] = a, ![l] = b]
    PROVE  /\ ls \in [Keys -> KeyType] /\ ls[k] = a /\ ls[l] = b
           /\ \A j \in Keys \ {k, l} : ls[j] = ks[j]
OBVIOUS

\* A frame is played and recorded.
LEMMA ForwardInKey ==
    ASSUME TypeOK, GameInv, RewindInv, on, rewinder, ExecuteForward, frame < Last,
           UNCHANGED <<trackerVars, movieVars>>
    PROVE  RewinderTypeOK' /\ GameTypeOK' /\ GameInv' /\ RewindInv'
<1> DEFINE n == NewState
<1>1. /\ GameTypeOK /\ RewinderTypeOK /\ taped' = taped /\ on' = on /\ rewinder' = rewinder
      /\ shown' = n /\ PlayFrom(now) /\ now \in 1 .. Len(origin)
  BY DEF TypeOK, movieVars, trackerVars, ExecuteForward, LiveFrame, GameInv
<1>2. /\ ~rewinding /\ ~uturn /\ rewinding' = rewinding /\ uturn' = uturn
      /\ stage' = "idle" /\ ForwardMode
      /\ UNCHANGED <<picture, slot, pingpong, todo>>
  BY DEF ExecuteForward, Running, ForwardMode, RewindInv, StageInv, videoVars
<1>3. /\ frame' = frame + 1 /\ key' = key /\ frame \in 0 .. Last - 1 /\ Last \in Nat
      /\ keys' = [keys EXCEPT ![key] = Put(keys[key], n)]
  BY <1>1, TypesOfKeys DEF ExecuteForward
<1>4. GameTypeOK' /\ GameInv'
  BY <1>1, PlayGame
<1>5. /\ n \in taped + 1 .. Len(origin') /\ origin'[n] = now /\ now' = n
      /\ Len(origin') \in Nat /\ Len(origin') <= MaxStates /\ taped \in Nat
  <2>1. n = Len(origin) + 1 /\ Len(origin') = n /\ origin'[n] = now /\ now' = n
    BY <1>1, PlayIs
  <2>2. Len(origin) \in Nat /\ taped \in 1 .. Len(origin) /\ Len(origin') \in 1 .. MaxStates
    BY <1>1, <1>4, OriginIs DEF GameInv
  <2> QED
    BY <2>1, <2>2, Sizes
<1>6. /\ Recorded(origin', taped', Current, frame + 1) /\ now = StateAfter(Current, frame + 1)
      /\ Current \in KeyType
  <2>1. RecordedTo(frame + 1)
    BY <1>2, <1>3 DEF RewindInv, ForwardInv, Fresh
  <2> QED
    BY <1>1, <2>1, KeysGrow, TypesOfKeys DEF RecordedTo
<1> DEFINE q == Put(Current, n)
<1>7. /\ q \in KeyType /\ Recorded(origin', taped', q, frame + 1 + 1)
      /\ StateAfter(q, frame + 1 + 1) = n /\ q.start = Current.start
  <2>1. frame + 1 \in Nat
    BY <1>3
  <2> QED
    BY <1>1, <1>5, <1>6, <2>1, PutIs
<1> HIDE DEF q, n
<1>8. /\ keys' \in [Keys -> KeyType] /\ keys'[key] = q /\ key \in Keys
      /\ \A k \in Keys \ {key} : keys'[k] = keys[k]
  <2>1. keys' = [keys EXCEPT ![key] = q]
    BY <1>3 DEF q, Current
  <2> QED
    BY <1>1, <1>7, <2>1, OneKey, TypesOfKeys DEF RewinderTypeOK
<1>9. Current' = q
  BY <1>3, <1>8 DEF Current
<1>10. RewinderTypeOK'
  <2>1. Len(q.input) <= NumFrames
    BY <1>3, <1>7, Sizes DEF Recorded
  <2>2. \A k \in Keys : Len(keys'[k].input) <= NumFrames
    BY <1>1, <1>8, <2>1 DEF RewinderTypeOK
  <2>3. frame' \in Frames
    BY <1>3, Sizes
  <2> QED
    BY <1>1, <1>2, <1>3, <1>8, <2>2, <2>3 DEF RewinderTypeOK, Stages
<1>11. ForwardInv'
  <2>1. RecordedTo(frame + 1)'
    BY <1>3, <1>5, <1>7, <1>9 DEF RecordedTo
  <2> QED
    BY <1>1, <1>2, <1>5, <2>1 DEF ForwardInv
<1>12. RestInv'
  <2>1. \A k \in Keys \ {key} : Kept(origin', taped', keys'[k])
    BY <1>1, <1>8, KeysGrow, TypesOfKeys DEF RewindInv, RestInv
  <2>2. ASSUME NEW k \in Keys \ {key} PROVE Linked(keys'[k], keys'[NextKey(k)])
    <3>1. Linked(keys[k], keys[NextKey(k)]) /\ NextKey(k) \in Keys /\ keys'[k] = keys[k]
      BY <1>8, Neighbours DEF RewindInv, RestInv
    <3>2. CASE NextKey(k) # key
      BY <1>8, <3>1, <3>2
    <3>3. CASE NextKey(k) = key
      <4>1. keys[key].pos = 0
        BY <1>6 DEF Recorded, Current
      <4> QED
        BY <1>7, <1>8, <3>1, <3>3, <4>1 DEF Linked, CanRewind, BadPos, Current
    <3> QED
      BY <3>2, <3>3
  <2> QED
    BY <1>2, <1>3, <2>1, <2>2 DEF RestInv, ForwardMode
<1> QED
  BY <1>1, <1>2, <1>4, <1>10, <1>11, <1>12
  DEF RewindInv, StageInv, CatchUpInv, StoreInv, AlignInv, BackAgainInv, BackInv, BackMode, ResumeInv

\* A frame is played, and another key begun.
LEMMA ForwardToNextKey ==
    ASSUME TypeOK, GameInv, RewindInv, on, rewinder, ExecuteForward, ~(frame < Last),
           UNCHANGED <<trackerVars, movieVars>>
    PROVE  RewinderTypeOK' /\ GameTypeOK' /\ GameInv' /\ RewindInv'
<1> DEFINE n == NewState
           next == NextKey(key)
           new == Recording(now, n)
<1>1. /\ GameTypeOK /\ RewinderTypeOK /\ taped' = taped /\ on' = on /\ rewinder' = rewinder
      /\ shown' = n /\ PlayFrom(now) /\ now \in 1 .. Len(origin)
  BY DEF TypeOK, movieVars, trackerVars, ExecuteForward, LiveFrame, GameInv
<1>2. /\ ~rewinding /\ ~uturn /\ rewinding' = rewinding /\ uturn' = uturn
      /\ stage' = "idle" /\ ForwardMode
      /\ UNCHANGED <<picture, slot, pingpong, todo>>
  BY DEF ExecuteForward, Running, ForwardMode, RewindInv, StageInv, videoVars
<1>3. /\ frame = Last /\ frame' = 0 /\ key' = next /\ Last + 1 = NumFrames /\ Last \in Nat
  BY <1>1, TypesOfKeys DEF ExecuteForward
<1>4. PICK ended \in EndForward(Current) : keys' = [keys EXCEPT ![key] = ended, ![next] = new]
  BY <1>1, <1>3, TypesOfKeys DEF ExecuteForward, Current
<1>5. GameTypeOK' /\ GameInv'
  BY <1>1, PlayGame
<1>6. /\ n \in taped + 1 .. Len(origin') /\ origin'[n] = now /\ now' = n
      /\ Len(origin') \in Nat /\ Len(origin') <= MaxStates /\ taped \in Nat
      /\ now \in 1 .. Len(origin')
  <2>1. n = Len(origin) + 1 /\ Len(origin') = n /\ origin'[n] = now /\ now' = n
    BY <1>1, PlayIs
  <2>2. Len(origin) \in Nat /\ taped \in 1 .. Len(origin) /\ Len(origin') \in 1 .. MaxStates
    BY <1>1, <1>5, OriginIs DEF GameInv
  <2> QED
    BY <1>1, <2>1, <2>2, Sizes
<1> HIDE DEF n
<1>7. /\ new \in KeyType /\ Recorded(origin', taped', new, 1) /\ StateAfter(new, 1) = n
      /\ CanRewind(new) /\ new.start = now
  BY <1>1, <1>6, RecordingIs
<1> HIDE DEF new
<1>8. /\ ended \in KeyType /\ Kept(origin', taped', ended)
      /\ CanRewind(ended) => /\ StateAfter(ended, NumFrames) = now
                             /\ ended.start = Current.start /\ CanRewind(Current)
      /\ Len(ended.input) <= NumFrames
  <2>1. Current \in KeyType
    BY <1>1, TypesOfKeys
  <2>2. CASE RecordedTo(frame + 1)
    <3>1. /\ Current.pos = 0 /\ Len(Current.input) = NumFrames
          /\ Whole(origin', taped', Current) /\ now = StateAfter(Current, NumFrames)
      <4>1. frame + 1 = NumFrames
        BY <1>3
      <4>2. Recorded(origin, taped, Current, NumFrames) /\ now = StateAfter(Current, NumFrames)
        BY <2>2, <4>1 DEF RecordedTo
      <4>3. Recorded(origin', taped', Current, NumFrames)
        BY <1>1, <2>1, <4>2, KeysGrow
      <4> QED
        BY <4>2, <4>3 DEF Recorded, Whole
    <3>2. /\ ended \in KeyType /\ Whole(origin', taped', ended) = Whole(origin', taped', Current)
          /\ ended.pos = NumFrames
          /\ \A i : StateAfter(ended, i) = StateAfter(Current, i)
      BY <2>1, <3>1, EndForwardIs
    <3>3. ended.start = Current.start
      BY <3>2 DEF StateAfter
    <3>4. CanRewind(Current)
      BY <3>1 DEF CanRewind, BadPos
    <3>5. Len(ended.input) <= NumFrames
      BY <3>1, <3>2, Sizes DEF Whole
    <3> QED
      BY <3>1, <3>2, <3>3, <3>4, <3>5 DEF Kept
  <2>3. CASE Fresh
    <3>1. Current = ResetKey
      BY <1>1, <2>3, TypesOfKeys DEF Fresh, Current
    <3>2. ended = ResetKey
      BY <3>1, ResetKeyIs DEF EndForward
    <3> QED
      BY <3>2, ResetKeyIs, Sizes DEF Kept
  <2> QED
    BY <1>2, <2>2, <2>3 DEF RewindInv, ForwardInv
<1>9. /\ keys' \in [Keys -> KeyType] /\ keys'[key] = ended /\ keys'[next] = new
      /\ \A k \in Keys \ {key, next} : keys'[k] = keys[k]
      /\ key \in Keys /\ next \in Keys /\ next # key
      /\ \A k \in Keys : NextKey(k) = next => k = key
      /\ NextKey(key) = next
  <2>1. /\ key \in Keys /\ next \in Keys /\ next # key
        /\ \A k \in Keys : NextKey(k) = next => k = PrevKey(next)
        /\ PrevKey(next) = key
    BY <1>1, Neighbours, TypesOfKeys
  <2> QED
    BY <1>1, <1>4, <1>7, <1>8, <2>1, TwoKeys DEF RewinderTypeOK
<1> HIDE DEF next
<1>10. Current' = new
  BY <1>3, <1>9 DEF Current
<1>11. RewinderTypeOK'
  <2>1. Len(new.input) <= NumFrames
    BY <1>7, Sizes DEF Recorded
  <2>2. \A k \in Keys : Len(keys'[k].input) <= NumFrames
    BY <1>1, <1>8, <1>9, <2>1 DEF RewinderTypeOK
  <2>3. frame' \in Frames
    BY <1>3, Sizes
  <2> QED
    BY <1>1, <1>2, <1>3, <1>9, <2>2, <2>3 DEF RewinderTypeOK, Stages
<1>12. ForwardInv'
  <2>1. RecordedTo(frame + 1)'
    BY <1>3, <1>6, <1>7, <1>10 DEF RecordedTo
  <2> QED
    BY <1>1, <1>2, <1>6, <2>1 DEF ForwardInv, n
<1>13. RestInv'
  <2>1. ASSUME NEW k \in Keys \ {next} PROVE Kept(origin', taped', keys'[k])
    <3>1. CASE k = key
      BY <1>8, <1>9, <3>1
    <3>2. CASE k # key
      <4>1. Kept(origin, taped, keys[k]) /\ keys[k] \in KeyType /\ keys'[k] = keys[k]
        BY <1>1, <1>9, <3>2, TypesOfKeys DEF RewindInv, RestInv
      <4> QED
        BY <1>1, <4>1, KeysGrow
    <3> QED
      BY <3>1, <3>2
  <2>2. ASSUME NEW k \in Keys \ {next} PROVE Linked(keys'[k], keys'[NextKey(k)])
    <3>1. CASE k = key
      BY <1>7, <1>8, <1>9, <3>1 DEF Linked
    <3>2. CASE k # key
      <4>1. /\ Linked(keys[k], keys[NextKey(k)]) /\ NextKey(k) \in Keys /\ keys'[k] = keys[k]
            /\ NextKey(k) # next
        BY <1>9, <3>2, Neighbours DEF RewindInv, RestInv
      <4>2. CASE NextKey(k) # key
        BY <1>9, <4>1, <4>2
      <4>3. CASE NextKey(k) = key
        BY <1>8, <1>9, <4>1, <4>3 DEF Linked, Current
      <4> QED
        BY <4>2, <4>3
    <3> QED
      BY <3>1, <3>2
  <2> QED
    BY <1>2, <1>3, <2>1, <2>2 DEF RestInv, ForwardMode
<1> QED
  BY <1>1, <1>2, <1>5, <1>11, <1>12, <1>13
  DEF RewindInv, StageInv, CatchUpInv, StoreInv, AlignInv, BackAgainInv, BackInv, BackMode, ResumeInv

-----------------------------------------------------------------------------
\* A pass over the buffer of pictures.

LEMMA SlotIs ==
    ASSUME NEW d \in {1, -1}, NEW i \in Frames
    PROVE  /\ SlotOf(d, i) \in Frames
           /\ \A j \in Frames : SlotOf(d, j) = SlotOf(d, i) => j = i
           /\ Last - i \in Frames
           /\ \A e \in {1, -1} : e # d => SlotOf(e, i) = SlotOf(d, Last - i)
           /\ i < Last => i + 1 \in Frames /\ SlotOf(d, i) + d = SlotOf(d, i + 1)
           /\ i = Last => SlotOf(d, i) + d \notin Frames
<1>1. Frames = 0 .. Last /\ Last \in Nat /\ i \in 0 .. Last
  BY Sizes
<1>2. ASSUME NEW e \in {1, -1}, e # d PROVE SlotOf(e, i) = SlotOf(d, Last - i)
  BY <1>1, <1>2 DEF SlotOf
<1>4. /\ SlotOf(d, i) \in Frames
      /\ \A j \in Frames : SlotOf(d, j) = SlotOf(d, i) => j = i
      /\ Last - i \in Frames
  BY <1>1 DEF SlotOf
<1>5. /\ i < Last => i + 1 \in Frames /\ SlotOf(d, i) + d = SlotOf(d, i + 1)
      /\ i = Last => SlotOf(d, i) + d \notin Frames
  <2>1. CASE d = 1
    BY <1>1, <2>1 DEF SlotOf
  <2>2. CASE d = -1
    <3>1. d # 1 /\ \A x \in Int : x + d = x - 1
      BY <2>2
    <3>2. Last - i \in Int
      BY <1>1
    <3> QED
      BY <1>1, <3>1, <3>2 DEF SlotOf
  <2> QED
    BY <2>1, <2>2
<1> QED
  BY <1>2, <1>4, <1>5

\* What Store does when it comes to the i-th picture of a pass.
LEMMA StoreIs ==
    ASSUME RewinderTypeOK, Store, NEW i \in Frames, slot = SlotOf(pingpong, i),
           now' \in {Nowhere} \cup States
    PROVE  /\ picture' \in [Frames -> {Nowhere} \cup States]
           /\ slot' \in Frames /\ pingpong' \in {1, -1}
           /\ i < Last => slot' = SlotOf(pingpong, i + 1) /\ pingpong' = pingpong
           /\ i = Last => pingpong' = -pingpong /\ slot' = SlotOf(pingpong', 0)
           /\ \A j \in Frames :
                 picture'[SlotOf(pingpong, j)] =
                    IF j = i THEN now' ELSE picture[SlotOf(pingpong, j)]
<1>1. /\ pingpong \in {1, -1} /\ picture \in [Frames -> {Nowhere} \cup States]
      /\ Last \in Nat /\ Frames = 0 .. Last
  BY Sizes DEF RewinderTypeOK
<1>2. /\ slot \in Frames
      /\ \A j \in Frames : SlotOf(pingpong, j) \in Frames
                           /\ (SlotOf(pingpong, j) = slot => j = i)
  <2>1. \A j \in Frames : SlotOf(pingpong, j) = SlotOf(pingpong, i) => j = i
    BY <1>1, Sizes, SMT DEF SlotOf
  <2>2. \A j \in Frames : SlotOf(pingpong, j) \in Frames
    BY <1>1, SlotIs
  <2> QED
    BY <2>1, <2>2
<1>3. picture' = [picture EXCEPT ![slot] = now']
  BY DEF Store
<1>4. \A j \in Frames :
         picture'[SlotOf(pingpong, j)] =
            IF j = i THEN now' ELSE picture[SlotOf(pingpong, j)]
  BY <1>1, <1>2, <1>3
<1>5. picture' \in [Frames -> {Nowhere} \cup States]
  BY <1>1, <1>2, <1>3
<1>6. CASE i < Last
  <2>1. slot + pingpong = SlotOf(pingpong, i + 1) /\ i + 1 \in Frames
    BY <1>1, <1>6, SlotIs, ZenonT(40)
  <2>2. SlotOf(pingpong, i + 1) \in Frames
    BY <1>1, <2>1, SlotIs
  <2>3. slot' = SlotOf(pingpong, i + 1) /\ pingpong' = pingpong
    BY <2>1, <2>2 DEF Store
  <2> QED
    BY <1>1, <1>4, <1>5, <1>6, <2>2, <2>3
<1>7. CASE i = Last
  <2>1. slot + pingpong \notin Frames
    BY <1>1, <1>7, SlotIs
  <2>2. slot' = slot /\ pingpong' = -pingpong
    BY <2>1 DEF Store
  <2>3. 0 \in Frames /\ Last - 0 = Last /\ -pingpong \in {1, -1} /\ -pingpong # pingpong
    BY <1>1
  <2>4. SlotOf(-pingpong, 0) = SlotOf(pingpong, Last)
    <3>1. SlotOf(-pingpong, 0) = SlotOf(pingpong, Last - 0)
      BY <1>1, <2>3, SlotIs, ZenonT(40)
    <3> QED
      BY <2>3, <3>1
  <2> QED
    BY <1>1, <1>2, <1>4, <1>5, <1>7, <2>2, <2>3, <2>4
<1> QED
  BY <1>1, <1>6, <1>7

AllLinked ==
    /\ \A k \in Keys \ {key} : Kept(origin, taped, keys[k])
    /\ \A k \in Keys : Linked(keys[k], keys[NextKey(k)])

\* A key is replayed, and its pictures take the place of those that were shown.
Passing == ReplayedTo(frame + 1) /\ Pictures /\ NextSlot /\ AllLinked

VideoTypes ==
    /\ picture \in [Frames -> {Nowhere} \cup States]
    /\ slot \in Frames /\ pingpong \in {1, -1}
KeyTypes ==
    /\ frame \in Frames /\ key \in Keys
    /\ keys \in [Keys -> KeyType]
    /\ \A k \in Keys : Len(keys[k].input) <= NumFrames

LEMMA BackInKeyIs ==
    ASSUME GameTypeOK, RewinderTypeOK, GameInv, Passing, NewerReady, BackInKey, taped' = taped
    PROVE  /\ frame < Last /\ frame' = frame + 1 /\ key' = key
           /\ KeyTypes' /\ VideoTypes'
           /\ origin' = origin /\ now' \in 1 .. Len(origin)
           /\ Passing' /\ NewerReady' /\ Newer' = Newer
           /\ picture[slot] = Newer.input[Last - frame]
<1>1. /\ frame \in 0 .. Last - 1 /\ frame' = frame + 1 /\ key' = key /\ origin' = origin
      /\ Last \in Nat /\ NumFrames = Last + 1 /\ Frames = 0 .. Last
      /\ key \in Keys /\ Current \in KeyType
      /\ ReplayFrom(key, keys, now) /\ Store
  BY TypesOfKeys, Sizes DEF BackInKey, ReplayFrom
<1>2. /\ At(origin, taped, Current, frame + 1) /\ now = StateAfter(Current, frame + 1)
      /\ frame + 1 \in 0 .. Last /\ taped \in Nat
  BY <1>1 DEF Passing, ReplayedTo, GameInv
<1> DEFINE q == Advance(Current)
<1>3. /\ now' = Get(Current, now) /\ keys' = [keys EXCEPT ![key] = q]
  BY <1>1 DEF ReplayFrom, Current
<1>4. /\ now' = StateAfter(Current, frame + 1 + 1) /\ now' = Current.input[frame + 1 + 1]
      /\ now' \in taped + 1 .. Len(origin)
      /\ q \in KeyType /\ At(origin, taped, q, frame + 1 + 1)
      /\ q.start = Current.start /\ q.input = Current.input
      /\ \A i : StateAfter(q, i) = StateAfter(Current, i)
  BY <1>1, <1>2, <1>3, ReplayIs
<1> HIDE DEF q
<1>5. /\ keys' \in [Keys -> KeyType] /\ keys'[key] = q
      /\ \A k \in Keys \ {key} : keys'[k] = keys[k]
      /\ Current' = q /\ Newer' = Newer
  <2>1. NextKey(key) \in Keys \ {key}
    BY <1>1, Neighbours
  <2> QED
    BY <1>1, <1>3, <1>4, <2>1, OneKey DEF RewinderTypeOK, Current, Newer
<1>6. KeyTypes'
  <2>1. frame' \in Frames
    BY <1>1
  <2>2. \A k \in Keys : Len(keys'[k].input) <= NumFrames
    BY <1>1, <1>4, <1>5 DEF RewinderTypeOK, Current
  <2> QED
    BY <1>1, <1>5, <2>1, <2>2 DEF KeyTypes
<1>7. now' \in 1 .. Len(origin) /\ now' \in {Nowhere} \cup States
  <2>1. Len(origin) \in Nat /\ Len(origin) <= MaxStates /\ MaxStates \in Nat
    BY OriginIs, Sizes DEF GameInv
  <2> QED
    BY <1>2, <1>4, <2>1 DEF States
<1> DEFINE i == frame + 1
<1>8. i \in Frames /\ slot = SlotOf(pingpong, i)
  BY <1>1 DEF Passing, NextSlot
<1>9. /\ VideoTypes'
      /\ i < Last => slot' = SlotOf(pingpong, i + 1) /\ pingpong' = pingpong
      /\ i = Last => pingpong' = -pingpong /\ slot' = SlotOf(pingpong', 0)
      /\ \A j \in Frames :
             picture'[SlotOf(pingpong, j)] =
                IF j = i THEN now' ELSE picture[SlotOf(pingpong, j)]
  BY <1>1, <1>7, <1>8, StoreIs DEF VideoTypes
<1>10. NextSlot'
  BY <1>1, <1>8, <1>9 DEF NextSlot
<1>11. ASSUME NEW j \in Frames
       PROVE  picture[SlotOf(pingpong, j)] = IF j <= frame THEN Current.input[j + 1]
                                             ELSE Newer.input[NumFrames - j]
  BY <1>1 DEF Passing, Pictures
<1>12. ASSUME NEW j \in Frames
       PROVE  picture'[SlotOf(pingpong, j)] = IF j <= i THEN q.input[j + 1]
                                              ELSE Newer.input[NumFrames - j]
  <2>1. CASE j = i
    BY <1>1, <1>4, <1>8, <1>9, <2>1
  <2>2. CASE j # i
    <3>1. j <= i <=> j <= frame
      BY <1>1, <2>2
    <3> QED
      BY <1>4, <1>9, <1>11, <2>2, <3>1
  <2> QED
    BY <2>1, <2>2
<1>13. Pictures'
  <2>1. CASE i < Last
    <3>1. ASSUME NEW j \in Frames
          PROVE  picture'[SlotOf(pingpong', j)] =
                    IF frame' < Last /\ j <= frame' THEN Current'.input[j + 1]
                    ELSE IF frame' < Last THEN Newer'.input[NumFrames - j]
                    ELSE Current'.input[NumFrames - j]
      BY <1>1, <1>5, <1>9, <1>12, <2>1
    <3> QED
      BY <3>1 DEF Pictures
  <2>2. CASE i = Last
    <3>1. ASSUME NEW j \in Frames
          PROVE  picture'[SlotOf(pingpong', j)] = q.input[NumFrames - j]
      <4>1. /\ Last - j \in Frames /\ SlotOf(-pingpong, j) = SlotOf(pingpong, Last - j)
            /\ pingpong' = -pingpong
        <5>1. /\ pingpong \in {1, -1} /\ -pingpong \in {1, -1} /\ -pingpong # pingpong
              /\ pingpong' = -pingpong
          BY <1>9, <2>2 DEF RewinderTypeOK
        <5> QED
          BY <5>1, SlotIs
      <4>2. Last - j <= i /\ Last - j + 1 = NumFrames - j
        BY <1>1, <2>2
      <4>3. picture'[SlotOf(pingpong, Last - j)] = q.input[Last - j + 1]
        BY <1>12, <4>1, <4>2
      <4> QED
        BY <4>1, <4>2, <4>3
    <3>2. ~(frame' < Last)
      BY <1>1, <2>2
    <3> QED
      BY <1>5, <3>1, <3>2 DEF Pictures
  <2> QED
    BY <1>1, <2>1, <2>2
<1>14. ReplayedTo(frame + 1)'
  BY <1>1, <1>4, <1>5 DEF ReplayedTo
<1>15. AllLinked'
  <2>1. \A k \in Keys \ {key} : Kept(origin, taped, keys'[k])
    BY <1>5 DEF Passing, AllLinked
  <2>2. CanRewind(q) /\ CanRewind(Current)
    BY <1>2, <1>4, <1>1 DEF At, CanRewind, BadPos
  <2>3. ASSUME NEW k \in Keys PROVE Linked(keys'[k], keys'[NextKey(k)])
    <3>1. Linked(keys[k], keys[NextKey(k)]) /\ NextKey(k) \in Keys /\ NextKey(k) # k
      BY Neighbours DEF Passing, AllLinked
    <3>2. CASE k = key
      BY <1>4, <1>5, <2>2, <3>1, <3>2 DEF Linked, Current
    <3>3. CASE NextKey(k) = key
      BY <1>4, <1>5, <2>2, <3>1, <3>3 DEF Linked, Current
    <3>4. CASE k # key /\ NextKey(k) # key
      BY <1>5, <3>1, <3>4
    <3> QED
      BY <3>2, <3>3, <3>4
  <2> QED
    BY <1>1, <2>1, <2>3 DEF AllLinked
<1>16. NewerReady'
  BY <1>1, <1>5 DEF NewerReady
<1>17. picture[slot] = Newer.input[Last - frame]
  <2>1. ~(i <= frame) /\ NumFrames - i = Last - frame
    BY <1>1
  <2> QED
    BY <1>8, <1>11, <2>1
<1> QED
  BY <1>1, <1>5, <1>6, <1>7, <1>9, <1>10, <1>13, <1>14, <1>15, <1>16, <1>17 DEF Passing

\* Links last as long as keys begin and lead where they did.
LEMMA LinksLast ==
    ASSUME NEW a, NEW b, NEW c, NEW d, Linked(a, b),
           StateAfter(c, NumFrames) = StateAfter(a, NumFrames), d.start = b.start,
           CanRewind(c) => CanRewind(a), CanRewind(d) => CanRewind(b)
    PROVE  Linked(c, d)
BY DEF Linked

LEMMA BackToPrevKeyIs ==
    ASSUME GameTypeOK, RewinderTypeOK, GameInv, Passing, BackToPrevKey, taped' = taped
    PROVE  /\ frame = Last /\ frame' = 0 /\ CanRewind(Older)
           /\ KeyTypes' /\ VideoTypes'
           /\ origin' = origin /\ now' \in 1 .. Len(origin)
           /\ Passing' /\ NewerReady' /\ Newer'.input = Current.input
           /\ picture[slot] = Current.input[NumFrames]
<1> DEFINE prev == PrevKey(key)
           b == BeginBackward(Older)
           e == EndBackward(Current)
           q == Advance(b)
<1>1. /\ frame = Last /\ frame' = 0 /\ key' = prev /\ origin' = origin /\ CanRewind(Older)
      /\ Last \in Nat /\ NumFrames = Last + 1 /\ Frames = 0 .. Last
      /\ key \in Keys /\ prev \in Keys /\ prev # key /\ NextKey(prev) = key
      /\ Current \in KeyType /\ Older \in KeyType /\ taped \in Nat
      /\ ReplayFrom(prev, [keys EXCEPT ![key] = e, ![prev] = b], Older.start) /\ Store
  BY TypesOfKeys, Sizes, Neighbours
  DEF BackToPrevKey, ReplayFrom, Older, Current, GameInv
<1>2. /\ At(origin, taped, Current, NumFrames) /\ now = StateAfter(Current, NumFrames)
  BY <1>1 DEF Passing, ReplayedTo
<1>3. Whole(origin, taped, Older) /\ (Older.packed => Older.pos = NumFrames)
  BY <1>1 DEF Passing, AllLinked, Kept, Older
<1>4. /\ b \in KeyType /\ At(origin, taped, b, 0) /\ b.start = Older.start
      /\ b.input = Older.input /\ \A n : StateAfter(b, n) = StateAfter(Older, n)
  BY <1>1, <1>3, BeginBackwardIs
<1>5. /\ e \in KeyType /\ At(origin, taped, e, 0) /\ e.start = Current.start
      /\ e.input = Current.input /\ \A n : StateAfter(e, n) = StateAfter(Current, n)
  BY <1>1, <1>2, EndBackwardIs DEF At
<1> HIDE DEF e
<1>6. /\ now' = Get(b, StateAfter(b, 0)) /\ keys' = [keys EXCEPT ![key] = e, ![prev] = q]
  <2>1. StateAfter(b, 0) = Older.start
    BY <1>4 DEF StateAfter
  <2> DEFINE ks == [keys EXCEPT ![key] = e, ![prev] = b]
  <2>2. ks[prev] = b /\ keys \in [Keys -> KeyType]
    BY <1>1 DEF RewinderTypeOK
  <2>3. now' = Get(ks[prev], Older.start) /\ keys' = [ks EXCEPT ![prev] = Advance(ks[prev])]
    BY <1>1 DEF ReplayFrom
  <2>4. keys' = [ks EXCEPT ![prev] = q]
    BY <2>2, <2>3
  <2> HIDE DEF q, b
  <2>5. [ks EXCEPT ![prev] = q] = [keys EXCEPT ![key] = e, ![prev] = q]
    BY <1>1, <2>2
  <2> QED
    BY <2>1, <2>2, <2>3, <2>4, <2>5
<1>7. /\ now' = StateAfter(b, 1) /\ now' = b.input[1] /\ now' \in taped + 1 .. Len(origin)
      /\ q \in KeyType /\ At(origin, taped, q, 1) /\ q.start = Older.start
      /\ q.input = Older.input /\ \A n : StateAfter(q, n) = StateAfter(Older, n)
  <2>1. 0 \in 0 .. Last /\ 0 + 1 = 1
    BY <1>1
  <2> HIDE DEF b
  <2> QED
    BY <1>1, <1>4, <1>6, <2>1, ReplayIs DEF q
<1> HIDE DEF b, q
<1>8. /\ keys' \in [Keys -> KeyType] /\ keys'[key] = e /\ keys'[prev] = q
      /\ \A k \in Keys \ {key, prev} : keys'[k] = keys[k]
      /\ Current' = q /\ Newer' = e
  BY <1>1, <1>5, <1>6, <1>7, TwoKeys DEF RewinderTypeOK, Current, Newer
<1>9. KeyTypes'
  <2>1. frame' \in Frames
    BY <1>1
  <2>2. \A k \in Keys : Len(keys'[k].input) <= NumFrames
    BY <1>1, <1>5, <1>7, <1>8 DEF RewinderTypeOK, Current, Older
  <2> QED
    BY <1>1, <1>8, <2>1, <2>2 DEF KeyTypes
<1>10. now' \in 1 .. Len(origin) /\ now' \in {Nowhere} \cup States
  <2>1. Len(origin) \in Nat /\ Len(origin) <= MaxStates /\ MaxStates \in Nat
    BY OriginIs, Sizes DEF GameInv
  <2> QED
    BY <1>1, <1>7, <2>1 DEF States
<1>11. 0 \in Frames /\ slot = SlotOf(pingpong, 0)
  BY <1>1 DEF Passing, NextSlot
<1>12. /\ VideoTypes'
       /\ 0 < Last => slot' = SlotOf(pingpong, 0 + 1) /\ pingpong' = pingpong
       /\ 0 = Last => slot' = SlotOf(pingpong', 0)
       /\ \A j \in Frames :
              picture'[SlotOf(pingpong, j)] =
                 IF j = 0 THEN now' ELSE picture[SlotOf(pingpong, j)]
  BY <1>1, <1>10, <1>11, StoreIs DEF VideoTypes
<1>13. NextSlot'
  BY <1>1, <1>12 DEF NextSlot
<1>14. \A j \in Frames : picture[SlotOf(pingpong, j)] = Current.input[NumFrames - j]
  BY <1>1 DEF Passing, Pictures
<1>15. Pictures'
  <2>1. CASE 0 < Last
    <3>1. ASSUME NEW j \in Frames
          PROVE  picture'[SlotOf(pingpong', j)] =
                    IF j <= 0 THEN q.input[j + 1] ELSE e.input[NumFrames - j]
      BY <1>1, <1>4, <1>5, <1>7, <1>12, <1>14, <2>1
    <3> QED
      BY <1>1, <1>8, <2>1, <3>1 DEF Pictures
  <2>2. CASE 0 = Last
    <3>1. SlotOf(pingpong', 0) = SlotOf(pingpong, 0)
      BY <2>2 DEF SlotOf
    <3>2. picture'[SlotOf(pingpong', 0)] = q.input[1]
      BY <1>4, <1>7, <1>11, <1>12, <3>1
    <3>3. ASSUME NEW j \in Frames
          PROVE  picture'[SlotOf(pingpong', j)] = q.input[NumFrames - j]
      <4>1. j = 0 /\ NumFrames - j = 1
        BY <1>1, <2>2
      <4> QED
        BY <3>2, <4>1
    <3>4. ~(frame' < Last)
      BY <1>1, <2>2
    <3> QED
      BY <1>8, <3>3, <3>4 DEF Pictures
  <2> QED
    BY <1>1, <2>1, <2>2
<1>16. ReplayedTo(frame + 1)'
  <2>1. frame' + 1 = 1 /\ now' = StateAfter(q, 1)
    BY <1>1, <1>4, <1>7
  <2> QED
    BY <1>1, <1>7, <1>8, <2>1 DEF ReplayedTo
<1>17. AllLinked'
  <2>1. \A k \in Keys \ {prev} : Kept(origin, taped, keys'[k])
    <3>1. Kept(origin, taped, e)
      BY <1>5 DEF Kept, At
    <3> QED
      BY <1>8, <3>1 DEF Passing, AllLinked
  <2>2. /\ \A k \in Keys : /\ StateAfter(keys'[k], NumFrames) = StateAfter(keys[k], NumFrames)
                           /\ keys'[k].start = keys[k].start
                           /\ CanRewind(keys'[k]) => CanRewind(keys[k])
    <3>1. CanRewind(Current)
      BY <1>1, <1>2 DEF At, CanRewind, BadPos
    <3> QED
      BY <1>1, <1>5, <1>7, <1>8, <3>1 DEF Current, Older
  <2>3. ASSUME NEW k \in Keys PROVE Linked(keys'[k], keys'[NextKey(k)])
    <3>1. Linked(keys[k], keys[NextKey(k)]) /\ NextKey(k) \in Keys
      BY Neighbours DEF Passing, AllLinked
    <3> QED
      BY <2>2, <3>1, LinksLast
  <2> QED
    BY <1>1, <2>1, <2>3 DEF AllLinked
<1>18. NewerReady'
  BY <1>1, <1>5, <1>8 DEF NewerReady
<1>19. picture[slot] = Current.input[NumFrames]
  BY <1>1, <1>11, <1>14
<1> QED
  BY <1>1, <1>5, <1>8, <1>9, <1>10, <1>12, <1>13, <1>15, <1>16, <1>17, <1>18, <1>19 DEF Passing

-----------------------------------------------------------------------------
\* What is kept by every step.
RewinderSound == GameTypeOK /\ RewinderTypeOK /\ GameInv /\ RewindInv

\* The rewinder has nothing, and the picture on the screen is the machine's.
LEMMA FreshIsSound ==
    ASSUME Fresh', stage' = "idle", ~rewinding', ~uturn', shown' = now', NumFrames \in Nat
    PROVE  RewindInv'
<1>1. \A k \in Keys : keys'[k] = ResetKey
  BY DEF Fresh
<1>2. \A k \in Keys : Kept(origin', taped', keys'[k])
  BY <1>1, ResetKeyIs DEF Kept
<1>3. ASSUME NEW k \in Keys PROVE Linked(keys'[k], keys'[NextKey(k)])
  BY <1>1, ResetKeyIs DEF Linked
<1>4. RestInv'
  BY <1>2, <1>3 DEF RestInv, ForwardMode
<1>5. ForwardInv'
  BY DEF ForwardInv
<1> QED
  BY <1>4, <1>5
  DEF RewindInv, StageInv, CatchUpInv, StoreInv, AlignInv, BackAgainInv, BackInv, BackMode, ResumeInv

\* It has nothing again.
LEMMA ForgetKeysIs ==
    ASSUME RewinderTypeOK, ForgetKeys, stage = "idle"
    PROVE  /\ RewinderTypeOK' /\ Fresh' /\ stage' = "idle" /\ ~rewinding' /\ ~uturn'
<1>1. /\ Last \in Frames /\ 0 \in Frames /\ NumKeys - 1 \in Keys
  BY Sizes DEF Keys
<1>2. /\ keys' = [k \in Keys |-> ResetKey] /\ frame' = Last /\ key' = NumKeys - 1
      /\ picture' = [f \in Frames |-> Nowhere] /\ slot' = 0 /\ pingpong' = 1
      /\ stage' = stage /\ todo' = todo /\ ~rewinding' /\ ~uturn'
      /\ rewinding' \in BOOLEAN /\ uturn' \in BOOLEAN
  BY DEF ForgetKeys, EndVideo, loopVars
<1>3. /\ keys' \in [Keys -> KeyType] /\ \A k \in Keys : Len(keys'[k].input) <= NumFrames
  BY <1>2, ResetKeyIs, Sizes
<1>4. picture' \in [Frames -> {Nowhere} \cup States]
  BY <1>2
<1> QED
  BY <1>1, <1>2, <1>3, <1>4 DEF RewinderTypeOK, Fresh

\* Without a rewinder nothing is left of it.
LEMMA NoRewinderIs ==
    ASSUME RewindInv, ~rewinder
    PROVE  Fresh /\ stage = "idle" /\ ~rewinding /\ ~uturn /\ shown = now
<1>1. Fresh /\ ~rewinding /\ ~uturn /\ stage = "idle"
  BY DEF RewindInv, StageInv
<1> QED
  BY <1>1 DEF RewindInv, ForwardInv, ForwardMode

-----------------------------------------------------------------------------
\* Backward.

\* When the machine is turned backward, another picture can be passed.
LEMMA PassingWhen ==
    ASSUME RewindInv, RewinderTypeOK,
           BackMode \/ stage = "align" \/ stage = "back"
    PROVE  Passing
<1>1. ReplayedTo(frame + 1) /\ Pictures /\ NextSlot
  BY DEF RewindInv, BackInv, AlignInv, BackAgainInv
<1>2. ~ForwardMode /\ stage # "catchUp"
  BY DEF BackMode, ForwardMode, RewinderTypeOK
<1>3. AllLinked
  BY <1>2 DEF RewindInv, RestInv, AllLinked, Current, Newer
<1> QED
  BY <1>1, <1>3 DEF Passing

\* One is passed.
LEMMA PassIs ==
    ASSUME GameTypeOK, RewinderTypeOK, GameInv, Passing, frame < Last => NewerReady,
           BackInKey \/ BackToPrevKey, taped' = taped
    PROVE  /\ KeyTypes' /\ VideoTypes' /\ origin' = origin /\ now' \in 1 .. Len(origin)
           /\ Passing' /\ NewerReady' /\ picture[slot] = Newer'.input[NumFrames - frame']
           /\ \/ frame < Last /\ frame' = frame + 1 /\ Newer' = Newer
              \/ frame = Last /\ frame' = 0 /\ Newer'.input = Current.input
<1>1. CASE BackInKey
  <2>1. frame < Last /\ NewerReady
    BY <1>1 DEF BackInKey
  <2>2. /\ frame' = frame + 1 /\ KeyTypes' /\ VideoTypes' /\ origin' = origin
        /\ now' \in 1 .. Len(origin)
        /\ Passing' /\ NewerReady' /\ Newer' = Newer
        /\ picture[slot] = Newer.input[Last - frame]
    BY <1>1, <2>1, BackInKeyIs
  <2>3. NumFrames - frame' = Last - frame
    BY <2>2, TypesOfKeys
  <2> QED
    BY <2>1, <2>2, <2>3
<1>2. CASE BackToPrevKey
  <2>1. /\ frame = Last /\ frame' = 0 /\ KeyTypes' /\ VideoTypes' /\ origin' = origin
        /\ now' \in 1 .. Len(origin)
        /\ Passing' /\ NewerReady' /\ Newer'.input = Current.input
        /\ picture[slot] = Current.input[NumFrames]
    BY <1>2, BackToPrevKeyIs
  <2>2. NumFrames - frame' = NumFrames
    BY <2>1, Sizes
  <2> QED
    BY <2>1, <2>2
<1> QED
  BY <1>1, <1>2

\* A state that a key's input leads to is known.
LEMMA InputIsKnown ==
    ASSUME NEW o, NEW m \in Nat, NEW k \in KeyType, NEW n, At(o, m, k, n), NEW i \in 1 .. NumFrames,
           Len(o) \in Nat
    PROVE  k.input[i] \in 1 .. Len(o)
<1>1. k.input[i] \in m + 1 .. Len(o)
  BY DEF At, Whole, Leads
<1> QED
  BY <1>1

LEMMA FromTheEnd ==
    ASSUME NEW i \in Frames
    PROVE  NumFrames - i \in 1 .. NumFrames /\ Last - i \in Frames
BY Sizes

LEMMA BackwardKeeps ==
    ASSUME TypeOK, GameInv, RewindInv, on, rewinder, ExecuteBackward,
           UNCHANGED <<trackerVars, movieVars>>
    PROVE  RewinderSound'
<1>1. /\ GameTypeOK /\ RewinderTypeOK /\ taped' = taped /\ on' = on /\ rewinder' = rewinder
      /\ rewinding /\ ~uturn /\ rewinding' = rewinding /\ uturn' = uturn
      /\ stage' = "idle" /\ todo' = todo /\ shown' = picture[slot]
      /\ BackInKey \/ BackToPrevKey
  BY DEF TypeOK, movieVars, trackerVars, ExecuteBackward, Running, RewindInv, StageInv
<1>2. BackMode \/ stage = "back"
  BY <1>1 DEF ExecuteBackward, Running, BackMode
<1>3. Passing /\ (frame < Last => NewerReady)
  BY <1>1, <1>2, PassingWhen, TypesOfKeys DEF RewindInv, BackInv, BackAgainInv
<1>4. /\ KeyTypes' /\ VideoTypes' /\ origin' = origin /\ now' \in 1 .. Len(origin)
      /\ Passing' /\ NewerReady' /\ picture[slot] = Newer'.input[NumFrames - frame']
  BY <1>1, <1>3, PassIs
<1>5. RewinderTypeOK'
  BY <1>1, <1>4 DEF RewinderTypeOK, KeyTypes, VideoTypes, Stages
<1>6. shown' \in 1 .. Len(origin)
  <2>1. NumFrames - frame' \in 1 .. NumFrames
    BY <1>4, FromTheEnd DEF KeyTypes
  <2>2. Newer' \in KeyType
    BY <1>5, Neighbours DEF RewinderTypeOK, Newer
  <2>3. At(origin, taped, Newer', 0) /\ taped \in Nat /\ Len(origin) \in Nat
    BY <1>1, <1>4, OriginIs DEF NewerReady, GameInv
  <2> QED
    BY <1>1, <1>4, <2>1, <2>2, <2>3, InputIsKnown
<1>7. GameTypeOK' /\ GameInv'
  <2>1. Len(origin) \in Nat /\ Len(origin) <= MaxStates /\ MaxStates \in Nat
    BY <1>1, OriginIs, Sizes DEF GameInv
  <2>2. now' \in States /\ shown' \in States
    BY <1>4, <1>6, <2>1 DEF States
  <2> QED
    BY <1>1, <1>4, <1>6, <2>2 DEF GameInv, GameTypeOK
<1>8. BackInv'
  BY <1>1, <1>4 DEF BackInv, Passing
<1>9. RestInv'
  <2>1. key' \in Keys
    BY <1>4 DEF KeyTypes
  <2>2. /\ \A k \in Keys \ {key'} : Kept(origin', taped', keys'[k])
        /\ \A k \in Keys : Linked(keys'[k], keys'[NextKey(k)])
    BY <1>4 DEF Passing, AllLinked
  <2> QED
    BY <2>1, <2>2 DEF RestInv, Current, Newer
<1> QED
  BY <1>1, <1>5, <1>7, <1>8, <1>9
  DEF RewinderSound, RewindInv, StageInv, ForwardInv, ForwardMode, CatchUpInv, StoreInv, AlignInv,
      BackAgainInv, ResumeInv

\* The keys run out.
LEMMA RunOutKeeps ==
    ASSUME TypeOK, GameInv, RewindInv, on, rewinder, RunOut, UNCHANGED <<trackerVars, movieVars>>
    PROVE  RewinderSound'
<1> DEFINE n == NewState
           next == NextKey(key)
           begin == Newer.start
           new == Recording(begin, n)
           ended == Invalidate(Current)
<1>1. /\ GameTypeOK /\ RewinderTypeOK /\ taped' = taped /\ on' = on /\ rewinder' = rewinder
      /\ shown' = n /\ PlayFrom(begin) /\ frame = Last /\ ~CanRewind(Older)
      /\ rewinding /\ ~uturn /\ ~rewinding' /\ rewinding' \in BOOLEAN /\ uturn' = uturn
      /\ stage' = "idle" /\ frame' = 0 /\ key' = next
      /\ keys' = [keys EXCEPT ![key] = ended, ![next] = new]
      /\ UNCHANGED <<picture, slot, pingpong, todo>>
  <2>1. keys' = [keys EXCEPT ![key] = ended, ![next] = new]
    <3>1. /\ keys' = [keys EXCEPT ![key] = Invalidate(@), ![NextKey(key)] = Recording(@.start, NewState)]
          /\ NextKey(key) # key
      BY Neighbours DEF RunOut, TypeOK, RewinderTypeOK
    <3>2. /\ [keys EXCEPT ![key] = Invalidate(keys[key])][NextKey(key)] = keys[NextKey(key)]
      BY <3>1
    <3> QED
      BY <3>1, <3>2 DEF Current, Newer
  <2> QED
    BY <2>1
    DEF TypeOK, movieVars, trackerVars, RunOut, Running, RewindInv, StageInv, Older, Newer, videoVars
<1>2. BackMode
  BY <1>1, TypesOfKeys DEF RunOut, Running, BackMode, RewindInv, BackAgainInv
<1>3. NewerReady
  BY <1>2 DEF RewindInv, BackInv
<1>4. begin \in 1 .. Len(origin)
  BY <1>3 DEF NewerReady, At, Whole, Leads
<1> HIDE DEF begin
<1>5. GameTypeOK' /\ GameInv'
  BY <1>1, <1>4, PlayGame
<1>6. /\ n \in taped + 1 .. Len(origin') /\ origin'[n] = begin /\ now' = n
      /\ Len(origin') \in Nat /\ Len(origin') <= MaxStates /\ taped \in Nat
      /\ begin \in 1 .. Len(origin')
  <2>1. n = Len(origin) + 1 /\ Len(origin') = n /\ origin'[n] = begin /\ now' = n
    BY <1>1, <1>4, PlayIs
  <2>2. Len(origin) \in Nat /\ taped \in 1 .. Len(origin) /\ Len(origin') \in 1 .. MaxStates
    BY <1>1, <1>5, OriginIs DEF GameInv
  <2> QED
    BY <1>4, <2>1, <2>2, Sizes
<1> HIDE DEF n
<1>7. /\ new \in KeyType /\ Recorded(origin', taped', new, 1) /\ StateAfter(new, 1) = n
  BY <1>1, <1>6, RecordingIs
<1> HIDE DEF new
<1>8. /\ ended \in KeyType /\ ~CanRewind(ended) /\ ended.input = Current.input
      /\ key \in Keys /\ next \in Keys /\ next # key
      /\ \A k \in Keys : NextKey(k) = next => k = key
  <2>1. /\ PrevKey(next) = key /\ key \in Keys /\ next \in Keys /\ next # key
        /\ \A k \in Keys : NextKey(k) = next => k = PrevKey(next)
    BY <1>1, Neighbours, TypesOfKeys
  <2> QED
    BY <1>1, <2>1, InvalidateIs, TypesOfKeys
<1> HIDE DEF ended, next
<1>9. /\ keys' \in [Keys -> KeyType] /\ keys'[key] = ended /\ keys'[next] = new
      /\ \A k \in Keys \ {key, next} : keys'[k] = keys[k]
  BY <1>1, <1>7, <1>8, TwoKeys DEF RewinderTypeOK
<1>10. RewinderTypeOK'
  <2>1. Len(new.input) <= NumFrames /\ Len(ended.input) <= NumFrames
    BY <1>1, <1>7, <1>8, Sizes DEF Recorded, RewinderTypeOK, Current
  <2>2. \A k \in Keys : Len(keys'[k].input) <= NumFrames
    BY <1>1, <1>9, <2>1 DEF RewinderTypeOK
  <2>3. 0 \in Frames
    BY Sizes
  <2> QED
    BY <1>1, <1>8, <1>9, <2>2, <2>3 DEF RewinderTypeOK, Stages
<1>11. ForwardInv'
  <2>1. Current' = new
    BY <1>1, <1>9 DEF Current
  <2>2. RecordedTo(frame + 1)'
    BY <1>1, <1>6, <1>7, <2>1 DEF RecordedTo
  <2> QED
    BY <1>1, <1>6, <2>2 DEF ForwardInv
<1>12. RestInv'
  <2>1. ASSUME NEW k \in Keys \ {next} PROVE Kept(origin', taped', keys'[k])
    <3>1. CASE k = key
      BY <1>8, <1>9, <3>1 DEF Kept
    <3>2. CASE k # key
      <4>1. Kept(origin, taped, keys[k]) /\ keys[k] \in KeyType /\ keys'[k] = keys[k]
        BY <1>1, <1>9, <3>2, TypesOfKeys DEF RewindInv, RestInv
      <4> QED
        BY <1>1, <1>4, <4>1, KeysGrow
    <3> QED
      BY <3>1, <3>2
  <2>2. ASSUME NEW k \in Keys \ {next} PROVE Linked(keys'[k], keys'[NextKey(k)])
    <3>1. CASE k = key
      BY <1>8, <1>9, <3>1 DEF Linked
    <3>2. CASE k # key
      <4>1. /\ Linked(keys[k], keys[NextKey(k)]) /\ NextKey(k) \in Keys /\ keys'[k] = keys[k]
            /\ NextKey(k) # next
        BY <1>8, <1>9, <3>2, Neighbours DEF RewindInv, RestInv
      <4>2. CASE NextKey(k) # key
        BY <1>9, <4>1, <4>2
      <4>3. CASE NextKey(k) = key
        BY <1>8, <1>9, <4>3 DEF Linked
      <4> QED
        BY <4>2, <4>3
    <3> QED
      BY <3>1, <3>2
  <2> QED
    BY <1>1, <2>1, <2>2 DEF RestInv, ForwardMode
<1> QED
  BY <1>1, <1>5, <1>10, <1>11, <1>12
  DEF RewinderSound, RewindInv, StageInv, CatchUpInv, StoreInv, AlignInv, BackAgainInv, BackInv,
      BackMode, ResumeInv

-----------------------------------------------------------------------------
\* Turning back.

LEMMA TurnBackKeeps ==
    ASSUME TypeOK, GameInv, RewindInv, on, rewinder, TurnBack, UNCHANGED <<trackerVars, movieVars>>
    PROVE  RewinderSound'
<1>1. /\ GameTypeOK /\ RewinderTypeOK /\ taped' = taped /\ on' = on /\ rewinder' = rewinder
      /\ stage = "idle" /\ rewinding /\ ~uturn' /\ uturn' \in BOOLEAN
      /\ stage' = "catchUp" /\ todo' = Last - frame
      /\ UNCHANGED <<rewinding, frame, key, keys, picture, slot, pingpong, now, shown, origin>>
  BY DEF TypeOK, movieVars, trackerVars, TurnBack, keyVars, videoVars, gameVars
<1>2. /\ RecordedTo(frame + 1) /\ shown = now /\ CanRewind(Older)
  BY <1>1 DEF TurnBack, RewindInv, ForwardInv, ForwardMode
<1>3. /\ frame \in 0 .. Last /\ Last \in Nat /\ NumFrames = Last + 1
  BY <1>1, TypesOfKeys
<1>4. Current' = Current /\ Older' = Older
  BY <1>1 DEF Current, Older
<1>5. RewinderTypeOK' /\ GameTypeOK' /\ GameInv'
  <2>1. todo' \in 0 .. 2 * NumFrames
    BY <1>1, <1>3
  <2> QED
    BY <1>1, <2>1 DEF RewinderTypeOK, Stages, GameTypeOK, GameInv
<1>6. CatchUpInv'
  <2>1. NumFrames - todo' = frame + 1 /\ todo' \in 0 .. Last - frame'
    BY <1>1, <1>3
  <2>2. shown = Current.input[frame + 1]
    BY <1>2, <1>3 DEF RecordedTo, StateAfter
  <2> QED
    BY <1>1, <1>2, <1>4, <2>1, <2>2 DEF CatchUpInv, RecordedTo
<1>7. RestInv'
  BY <1>1 DEF RewindInv, RestInv, ForwardMode
<1> QED
  BY <1>1, <1>5, <1>6, <1>7
  DEF RewinderSound, RewindInv, StageInv, ForwardInv, ForwardMode, StoreInv, AlignInv, BackAgainInv,
      BackInv, BackMode, ResumeInv

LEMMA CatchUpKeeps ==
    ASSUME TypeOK, GameInv, RewindInv, on, rewinder, CatchUp, UNCHANGED <<trackerVars, movieVars>>
    PROVE  RewinderSound'
<1> DEFINE n == NewState
           i == NumFrames - todo
           q == Put(Current, n)
<1>1. /\ GameTypeOK /\ RewinderTypeOK /\ taped' = taped /\ on' = on /\ rewinder' = rewinder
      /\ stage = "catchUp" /\ rewinding /\ ~uturn /\ todo > 0 /\ todo' = todo - 1
      /\ PlayFrom(now) /\ now \in 1 .. Len(origin)
      /\ keys' = [keys EXCEPT ![key] = q]
      /\ UNCHANGED <<rewinding, uturn, frame, key, picture, slot, pingpong, shown, stage>>
  BY DEF TypeOK, movieVars, trackerVars, CatchUp, videoVars, GameInv, Current, RewindInv, StageInv
<1>2. /\ RecordedTo(i) /\ shown = Current.input[frame + 1] /\ CanRewind(Older)
      /\ todo \in 0 .. Last - frame
  BY <1>1 DEF RewindInv, CatchUpInv
<1>3. /\ frame \in 0 .. Last /\ Last \in Nat /\ NumFrames = Last + 1
      /\ i \in Nat /\ frame + 1 \in 1 .. i /\ NumFrames - todo' = i + 1
      /\ todo' \in 0 .. Last - frame /\ i + 1 <= NumFrames
  <2>1. /\ frame \in 0 .. Last /\ Last \in Nat /\ NumFrames = Last + 1
    BY <1>1, TypesOfKeys
  <2> QED
    BY <1>1, <1>2, <2>1
<1> HIDE DEF i
<1>4. GameTypeOK' /\ GameInv'
  BY <1>1, PlayGame
<1>5. /\ n \in taped + 1 .. Len(origin') /\ origin'[n] = now /\ now' = n
      /\ Len(origin') \in Nat /\ Len(origin') <= MaxStates /\ taped \in Nat
  <2>1. n = Len(origin) + 1 /\ Len(origin') = n /\ origin'[n] = now /\ now' = n
    BY <1>1, PlayIs
  <2>2. Len(origin) \in Nat /\ taped \in 1 .. Len(origin) /\ Len(origin') \in 1 .. MaxStates
    BY <1>1, <1>4, OriginIs DEF GameInv
  <2> QED
    BY <2>1, <2>2, Sizes
<1>6. /\ Recorded(origin', taped', Current, i) /\ now = StateAfter(Current, i)
      /\ Current \in KeyType
  BY <1>1, <1>2, KeysGrow, TypesOfKeys DEF RecordedTo
<1>7. /\ q \in KeyType /\ Recorded(origin', taped', q, i + 1) /\ StateAfter(q, i + 1) = n
      /\ q.start = Current.start /\ \A j \in 1 .. i : q.input[j] = Current.input[j]
  BY <1>1, <1>3, <1>5, <1>6, PutIs, SMTT(30)
<1> HIDE DEF q, n
<1>8. /\ keys' \in [Keys -> KeyType] /\ keys'[key] = q /\ key \in Keys
      /\ \A k \in Keys \ {key} : keys'[k] = keys[k]
      /\ Current' = q /\ Older' = Older
  <2>1. PrevKey(key) \in Keys \ {key}
    BY <1>1, Neighbours, TypesOfKeys
  <2> QED
    BY <1>1, <1>7, <2>1, OneKey, TypesOfKeys DEF RewinderTypeOK, Current, Older
<1>9. RewinderTypeOK'
  <2>1. Len(q.input) <= NumFrames
    BY <1>3, <1>7 DEF Recorded
  <2>2. \A k \in Keys : Len(keys'[k].input) <= NumFrames
    BY <1>1, <1>8, <2>1 DEF RewinderTypeOK
  <2>3. todo' \in 0 .. 2 * NumFrames
    BY <1>3
  <2> QED
    BY <1>1, <1>8, <2>2, <2>3 DEF RewinderTypeOK
<1>10. CatchUpInv'
  <2>1. RecordedTo(NumFrames - todo)'
    BY <1>3, <1>5, <1>7, <1>8 DEF RecordedTo
  <2>2. shown' = Current'.input[frame' + 1]
    BY <1>1, <1>2, <1>3, <1>7, <1>8
  <2> QED
    BY <1>1, <1>2, <1>3, <1>8, <2>1, <2>2 DEF CatchUpInv
<1>11. RestInv'
  <2>1. \A k \in Keys \ {key} : Kept(origin', taped', keys'[k])
    BY <1>1, <1>8, KeysGrow, TypesOfKeys DEF RewindInv, RestInv
  <2>2. ASSUME NEW k \in Keys \ {key} PROVE Linked(keys'[k], keys'[NextKey(k)])
    <3>1. Linked(keys[k], keys[NextKey(k)]) /\ NextKey(k) \in Keys /\ keys'[k] = keys[k]
      BY <1>8, Neighbours DEF RewindInv, RestInv
    <3>2. CASE NextKey(k) # key
      BY <1>8, <3>1, <3>2
    <3>3. CASE NextKey(k) = key
      <4>1. keys[key].pos = 0
        BY <1>6 DEF Recorded, Current
      <4> QED
        BY <1>7, <1>8, <3>1, <3>3, <4>1 DEF Linked, CanRewind, BadPos, Current
    <3> QED
      BY <3>2, <3>3
  <2> QED
    BY <1>1, <2>1, <2>2 DEF RestInv
<1> QED
  BY <1>1, <1>4, <1>9, <1>10, <1>11
  DEF RewinderSound, RewindInv, StageInv, ForwardInv, ForwardMode, StoreInv, AlignInv, BackAgainInv,
      BackInv, BackMode, ResumeInv

LEMMA BeginStoreKeeps ==
    ASSUME TypeOK, GameInv, RewindInv, on, rewinder, BeginStore, UNCHANGED <<trackerVars, movieVars>>
    PROVE  RewinderSound'
<1> DEFINE next == NextKey(key)
           b == BeginBackward(Current)
           ended == Invalidate(Newer)
<1>1. /\ GameTypeOK /\ RewinderTypeOK /\ taped' = taped /\ on' = on /\ rewinder' = rewinder
      /\ stage = "catchUp" /\ rewinding /\ ~uturn /\ todo = 0 /\ todo' = NumFrames
      /\ stage' = "store" /\ slot' = 0 /\ pingpong' = 1
      /\ now' = Current.start /\ keys' = [keys EXCEPT ![next] = ended, ![key] = b]
      /\ UNCHANGED <<rewinding, uturn, frame, key, picture, shown, origin>>
  <2>1. keys' = [keys EXCEPT ![next] = ended, ![key] = b]
    <3>1. /\ keys' = [keys EXCEPT ![NextKey(key)] = Invalidate(@), ![key] = BeginBackward(@)]
          /\ NextKey(key) # key
      BY Neighbours DEF BeginStore, TypeOK, RewinderTypeOK
    <3>2. [keys EXCEPT ![NextKey(key)] = Invalidate(keys[NextKey(key)])][key] = keys[key]
      BY <3>1
    <3> QED
      BY <3>1, <3>2 DEF Current, Newer
  <2> QED
    BY <2>1 DEF TypeOK, movieVars, trackerVars, BeginStore, Current, RewindInv, StageInv
<1>2. /\ Recorded(origin, taped, Current, NumFrames) /\ shown = Current.input[frame + 1]
      /\ CanRewind(Older)
  <2>1. NumFrames - todo = NumFrames
    BY <1>1, Sizes
  <2> QED
    BY <1>1, <2>1 DEF RewindInv, CatchUpInv, RecordedTo
<1>3. /\ key \in Keys /\ next \in Keys /\ next # key
      /\ PrevKey(key) \in Keys \ {key, next}
      /\ Current \in KeyType /\ Newer \in KeyType
  BY <1>1, Neighbours, TypesOfKeys
<1>4. /\ b \in KeyType /\ At(origin, taped, b, 0) /\ b.start = Current.start
      /\ b.input = Current.input /\ \A n : StateAfter(b, n) = StateAfter(Current, n)
  BY <1>2, <1>3, BeginBackwardIs DEF Recorded, Whole
<1>5. ended \in KeyType /\ ~CanRewind(ended) /\ ended.input = Newer.input
  BY <1>3, InvalidateIs
<1> HIDE DEF b, ended, next
<1>6. /\ keys' \in [Keys -> KeyType] /\ keys'[key] = b /\ keys'[next] = ended
      /\ \A k \in Keys \ {key, next} : keys'[k] = keys[k]
      /\ Current' = b /\ Newer' = ended /\ Older' = Older
  <2>1. /\ keys' \in [Keys -> KeyType] /\ keys'[key] = b /\ keys'[next] = ended
        /\ \A k \in Keys \ {key, next} : keys'[k] = keys[k]
    BY <1>1, <1>3, <1>4, <1>5, TwoKeys DEF RewinderTypeOK
  <2> QED
    BY <1>1, <1>3, <2>1 DEF Current, Newer, Older, next
<1>7. RewinderTypeOK'
  <2>1. \A k \in Keys : Len(keys'[k].input) <= NumFrames
    BY <1>1, <1>3, <1>4, <1>5, <1>6 DEF RewinderTypeOK, Current, Newer, next
  <2>2. todo' \in 0 .. 2 * NumFrames /\ 0 \in Frames
    BY <1>1, Sizes
  <2> QED
    BY <1>1, <1>6, <2>1, <2>2 DEF RewinderTypeOK, Stages
<1>8. GameTypeOK' /\ GameInv'
  <2>1. now' \in 1 .. Len(origin) /\ Len(origin) \in Nat /\ Len(origin) <= MaxStates
    BY <1>1, <1>2, OriginIs DEF Recorded, Leads, GameInv
  <2>2. now' \in States
    BY <2>1, Sizes DEF States
  <2> QED
    BY <1>1, <2>1, <2>2 DEF GameTypeOK, GameInv
<1>9. StoreInv'
  <2>1. NumFrames - todo' = 0 /\ todo' # 0 /\ todo' \in 0 .. NumFrames
    BY <1>1, Sizes
  <2>2. now' = StateAfter(b, 0)
    BY <1>1, <1>4 DEF StateAfter
  <2>3. \A i \in 0 .. NumFrames - todo' - 1 : picture'[i] = Current'.input[i + 1]
    BY <2>1
  <2> QED
    BY <1>1, <1>2, <1>4, <1>5, <1>6, <2>1, <2>2, <2>3 DEF StoreInv, ReplayedTo
<1>10. RestInv'
  <2>1. ASSUME NEW k \in Keys \ {key} PROVE Kept(origin, taped, keys'[k])
    BY <1>5, <1>6 DEF RewindInv, RestInv, Kept
  <2>2. ASSUME NEW k \in Keys \ {key} PROVE Linked(keys'[k], keys'[NextKey(k)])
    <3>1. Linked(keys[k], keys[NextKey(k)]) /\ NextKey(k) \in Keys
      BY Neighbours DEF RewindInv, RestInv
    <3>2. CASE k = next
      BY <1>5, <1>6, <3>2 DEF Linked
    <3>3. CASE NextKey(k) = next
      BY <1>5, <1>6, <3>3 DEF Linked
    <3>4. CASE k # next /\ NextKey(k) # next /\ NextKey(k) # key
      BY <1>6, <3>1, <3>4
    <3>5. CASE k # next /\ NextKey(k) = key
      <4>1. CanRewind(Current)
        BY <1>2 DEF Recorded, CanRewind, BadPos
      <4> QED
        BY <1>4, <1>6, <3>1, <3>5, <4>1 DEF Linked, Current
    <3> QED
      BY <3>2, <3>3, <3>4, <3>5
  <2>3. Linked(Current', Newer')
    BY <1>5, <1>6 DEF Linked
  <2> QED
    BY <1>1, <2>1, <2>2, <2>3 DEF RestInv
<1> QED
  BY <1>1, <1>7, <1>8, <1>9, <1>10
  DEF RewinderSound, RewindInv, StageInv, ForwardInv, ForwardMode, CatchUpInv, AlignInv, BackAgainInv,
      BackInv, BackMode, ResumeInv

\* A frame of the key is replayed, and the others are left alone.
LEMMA ReplayedInKey ==
    ASSUME GameTypeOK, RewinderTypeOK, GameInv, AllLinked, NEW n \in 0 .. Last, ReplayedTo(n),
           ReplayFrom(key, keys, now), key' = key, taped' = taped
    PROVE  /\ keys' \in [Keys -> KeyType]
           /\ \A k \in Keys : Len(keys'[k].input) <= NumFrames
           /\ origin' = origin /\ now' \in 1 .. Len(origin) /\ now' \in States
           /\ now' = Current.input[n + 1]
           /\ AllLinked' /\ ReplayedTo(n + 1)'
           /\ Current'.input = Current.input /\ Newer' = Newer /\ Older' = Older
<1> DEFINE q == Advance(Current)
<1>1. /\ key \in Keys /\ Current \in KeyType /\ taped \in Nat /\ origin' = origin
      /\ now' = Get(Current, now) /\ keys' = [keys EXCEPT ![key] = q]
      /\ At(origin, taped, Current, n) /\ now = StateAfter(Current, n)
  BY TypesOfKeys DEF ReplayFrom, Current, GameInv, ReplayedTo
<1>2. /\ now' = StateAfter(Current, n + 1) /\ now' = Current.input[n + 1]
      /\ now' \in taped + 1 .. Len(origin)
      /\ q \in KeyType /\ At(origin, taped, q, n + 1)
      /\ q.start = Current.start /\ q.input = Current.input
      /\ \A i : StateAfter(q, i) = StateAfter(Current, i)
  BY <1>1, ReplayIs
<1> HIDE DEF q
<1>3. /\ keys' \in [Keys -> KeyType] /\ keys'[key] = q
      /\ \A k \in Keys \ {key} : keys'[k] = keys[k]
      /\ Current' = q /\ Newer' = Newer /\ Older' = Older
  <2>1. NextKey(key) \in Keys \ {key} /\ PrevKey(key) \in Keys \ {key}
    BY <1>1, Neighbours
  <2> QED
    BY <1>1, <1>2, <2>1, OneKey DEF RewinderTypeOK, Current, Newer, Older
<1>4. \A k \in Keys : Len(keys'[k].input) <= NumFrames
  BY <1>1, <1>2, <1>3 DEF RewinderTypeOK, Current
<1>5. now' \in 1 .. Len(origin) /\ now' \in States
  <2>1. Len(origin) \in Nat /\ Len(origin) <= MaxStates /\ MaxStates \in Nat
    BY OriginIs, Sizes DEF GameInv
  <2> QED
    BY <1>1, <1>2, <2>1 DEF States
<1>6. ReplayedTo(n + 1)'
  BY <1>1, <1>2, <1>3 DEF ReplayedTo
<1>7. AllLinked'
  <2>1. \A k \in Keys \ {key} : Kept(origin, taped, keys'[k])
    BY <1>3 DEF AllLinked
  <2>2. /\ \A k \in Keys : /\ StateAfter(keys'[k], NumFrames) = StateAfter(keys[k], NumFrames)
                           /\ keys'[k].start = keys[k].start
                           /\ CanRewind(keys'[k]) => CanRewind(keys[k])
    <3>1. CanRewind(Current)
      BY <1>1 DEF At, CanRewind, BadPos
    <3> QED
      BY <1>1, <1>2, <1>3, <3>1 DEF Current
  <2>3. ASSUME NEW k \in Keys PROVE Linked(keys'[k], keys'[NextKey(k)])
    <3>1. Linked(keys[k], keys[NextKey(k)]) /\ NextKey(k) \in Keys
      BY Neighbours DEF AllLinked
    <3> QED
      BY <2>2, <3>1, LinksLast
  <2> QED
    BY <1>1, <2>1, <2>3 DEF AllLinked
<1> QED
  BY <1>1, <1>2, <1>3, <1>4, <1>5, <1>6, <1>7

\* What is known of the keys while the machine is turned.
LEMMA AllLinkedWhen ==
    ASSUME RewindInv, RewinderTypeOK, ~ForwardMode, stage # "catchUp"
    PROVE  AllLinked
BY DEF RewindInv, RestInv, AllLinked, Current, Newer

LEMMA AllLinkedRests ==
    ASSUME AllLinked', key' \in Keys
    PROVE  RestInv'
BY DEF RestInv, AllLinked, Current, Newer

LEMMA StoreKeyKeeps ==
    ASSUME TypeOK, GameInv, RewindInv, on, rewinder, StoreKey, UNCHANGED <<trackerVars, movieVars>>
    PROVE  RewinderSound'
<1>1. /\ GameTypeOK /\ RewinderTypeOK /\ taped' = taped /\ on' = on /\ rewinder' = rewinder
      /\ stage = "store" /\ rewinding /\ ~uturn /\ todo > 0 /\ todo' = todo - 1
      /\ ReplayFrom(key, keys, now) /\ Store /\ key \in Keys
      /\ UNCHANGED <<rewinding, uturn, frame, key, shown, stage>>
  BY DEF TypeOK, movieVars, trackerVars, StoreKey, RewindInv, StageInv, RewinderTypeOK
<1> PICK n \in 0 .. Last : n = NumFrames - todo
  BY <1>1, Sizes DEF RewindInv, StoreInv
<1>2. /\ ReplayedTo(n) /\ todo \in 0 .. NumFrames
      /\ shown = Current.input[frame + 1] /\ CanRewind(Older) /\ ~CanRewind(Newer)
      /\ \A i \in 0 .. n - 1 : picture[i] = Current.input[i + 1]
      /\ todo # 0 => pingpong = 1 /\ slot = n
  BY <1>1 DEF RewindInv, StoreInv
<1>3. /\ Last \in Nat /\ NumFrames = Last + 1 /\ Frames = 0 .. Last
      /\ NumFrames - todo' = n + 1 /\ NumFrames - todo' - 1 = n /\ todo' \in 0 .. NumFrames
      /\ pingpong = 1 /\ slot = n /\ (todo' = 0 <=> n = Last) /\ (todo' # 0 => n < Last)
  BY <1>1, <1>2, Sizes
<1>4. AllLinked
  BY <1>1, AllLinkedWhen DEF ForwardMode
<1>5. /\ keys' \in [Keys -> KeyType]
      /\ \A k \in Keys : Len(keys'[k].input) <= NumFrames
      /\ origin' = origin /\ now' \in 1 .. Len(origin) /\ now' \in States
      /\ now' = Current.input[n + 1]
      /\ AllLinked' /\ ReplayedTo(n + 1)'
      /\ Current'.input = Current.input /\ Newer' = Newer /\ Older' = Older
  BY <1>1, <1>2, <1>3, <1>4, ReplayedInKey
<1>6. \A j \in Frames : SlotOf(pingpong, j) = j
  BY <1>3 DEF SlotOf
<1>7. /\ picture' \in [Frames -> {Nowhere} \cup States] /\ slot' \in Frames /\ pingpong' \in {1, -1}
      /\ n < Last => slot' = n + 1 /\ pingpong' = 1
      /\ n = Last => pingpong' = -1 /\ slot' = Last
      /\ \A j \in Frames : picture'[j] = IF j = n THEN now' ELSE picture[j]
  <2>1. /\ picture' \in [Frames -> {Nowhere} \cup States] /\ slot' \in Frames /\ pingpong' \in {1, -1}
        /\ n < Last => slot' = SlotOf(pingpong, n + 1) /\ pingpong' = pingpong
        /\ n = Last => pingpong' = -pingpong /\ slot' = SlotOf(pingpong', 0)
        /\ \A j \in Frames : picture'[SlotOf(pingpong, j)] =
                                IF j = n THEN now' ELSE picture[SlotOf(pingpong, j)]
    BY <1>1, <1>3, <1>5, <1>6, StoreIs
  <2>2. n < Last => SlotOf(pingpong, n + 1) = n + 1
    BY <1>3, <1>6
  <2>3. n = Last => pingpong' = -1 /\ slot' = Last
    BY <1>3, <2>1 DEF SlotOf
  <2> QED
    BY <1>3, <1>6, <2>1, <2>2, <2>3
<1>8. RewinderTypeOK'
  <2>1. todo' \in 0 .. 2 * NumFrames
    BY <1>3
  <2> QED
    BY <1>1, <1>5, <1>7, <2>1 DEF RewinderTypeOK
<1>9. GameTypeOK' /\ GameInv'
  BY <1>1, <1>5 DEF GameTypeOK, GameInv
<1>10. StoreInv'
  <2>1. ASSUME NEW i \in 0 .. n PROVE picture'[i] = Current'.input[i + 1]
    <3>1. i \in Frames
      BY <1>3
    <3>2. CASE i = n
      BY <1>5, <1>7, <3>1, <3>2
    <3>3. CASE i # n
      <4>1. i \in 0 .. n - 1
        BY <1>3, <3>1, <3>3
      <4> QED
        BY <1>2, <1>5, <1>7, <3>1, <3>3, <4>1
    <3> QED
      BY <3>2, <3>3
  <2>2. IF todo' = 0 THEN pingpong' = -1 /\ slot' = Last
                     ELSE pingpong' = 1 /\ slot' = NumFrames - todo'
    <3>1. CASE todo' = 0
      BY <1>3, <1>7, <3>1
    <3>2. CASE todo' # 0
      <4>1. slot' = n + 1 /\ pingpong' = 1
        BY <1>3, <1>7, <3>2
      <4> QED
        BY <1>3, <3>2, <4>1
    <3> QED
      BY <3>1, <3>2
  <2>3. \A i \in 0 .. NumFrames - todo' - 1 : picture'[i] = Current'.input[i + 1]
    BY <1>3, <2>1
  <2> QED
    BY <1>1, <1>2, <1>3, <1>5, <2>2, <2>3 DEF StoreInv
<1>11. RestInv'
  BY <1>1, <1>5, AllLinkedRests
<1> QED
  BY <1>1, <1>8, <1>9, <1>10, <1>11
  DEF RewinderSound, RewindInv, StageInv, ForwardInv, ForwardMode, CatchUpInv, AlignInv, BackAgainInv,
      BackInv, BackMode, ResumeInv

LEMMA BeginAlignKeeps ==
    ASSUME TypeOK, GameInv, RewindInv, on, rewinder, BeginAlign, UNCHANGED <<trackerVars, movieVars>>
    PROVE  RewinderSound'
<1>1. /\ GameTypeOK /\ RewinderTypeOK /\ taped' = taped /\ on' = on /\ rewinder' = rewinder
      /\ stage = "store" /\ stage' = "align" /\ rewinding /\ ~uturn /\ todo = 0
      /\ todo' = Last - frame /\ frame' = Last /\ key \in Keys
      /\ UNCHANGED <<rewinding, uturn, key, keys, picture, slot, pingpong, now, shown, origin>>
      /\ frame \in 0 .. Last /\ Last \in Nat /\ NumFrames = Last + 1 /\ Frames = 0 .. Last
  BY TypesOfKeys, Sizes
  DEF TypeOK, movieVars, trackerVars, BeginAlign, RewindInv, StageInv, videoVars, gameVars
<1>2. /\ NumFrames - todo = NumFrames /\ Last + 1 = NumFrames /\ todo' \in 0 .. Last
      /\ NumFrames - todo' = frame + 1 /\ NumFrames - 1 = Last
  BY <1>1
<1>3. /\ ReplayedTo(NumFrames) /\ shown = Current.input[frame + 1] /\ CanRewind(Older)
      /\ \A i \in 0 .. Last : picture[i] = Current.input[i + 1]
      /\ pingpong = -1 /\ slot = Last
  BY <1>1, <1>2 DEF RewindInv, StoreInv
<1>4. Current' = Current /\ Newer' = Newer /\ Older' = Older
  BY <1>1 DEF Current, Newer, Older
<1>5. Pictures' /\ NextSlot'
  <2>1. ASSUME NEW i \in Frames PROVE picture[SlotOf(pingpong, i)] = Current.input[NumFrames - i]
    <3>1. /\ SlotOf(pingpong, i) = Last - i /\ Last - i \in 0 .. Last
          /\ Last - i + 1 = NumFrames - i
      BY <1>1, <1>3 DEF SlotOf
    <3> QED
      BY <1>3, <3>1
  <2>2. ~(frame' < Last) /\ SlotOf(pingpong, 0) = Last
    BY <1>1, <1>3 DEF SlotOf
  <2> QED
    BY <1>1, <1>3, <1>4, <2>1, <2>2 DEF Pictures, NextSlot
<1>6. RewinderTypeOK' /\ GameTypeOK' /\ GameInv'
  <2>1. todo' \in 0 .. 2 * NumFrames /\ frame' \in Frames
    BY <1>1
  <2> QED
    BY <1>1, <2>1 DEF RewinderTypeOK, Stages, GameTypeOK, GameInv
<1>7. AlignInv'
  BY <1>1, <1>2, <1>3, <1>4, <1>5 DEF AlignInv, ReplayedTo
<1>8. RestInv'
  BY <1>1 DEF RewindInv, RestInv, ForwardMode, Current, Newer
<1> QED
  BY <1>1, <1>6, <1>7, <1>8
  DEF RewinderSound, RewindInv, StageInv, ForwardInv, ForwardMode, CatchUpInv, StoreInv, BackAgainInv,
      BackInv, BackMode, ResumeInv

LEMMA AlignKeeps ==
    ASSUME TypeOK, GameInv, RewindInv, on, rewinder, Align, UNCHANGED <<trackerVars, movieVars>>
    PROVE  RewinderSound'
<1>1. /\ GameTypeOK /\ RewinderTypeOK /\ taped' = taped /\ on' = on /\ rewinder' = rewinder
      /\ stage = "align" /\ rewinding /\ ~uturn /\ todo > 0 /\ todo' = todo - 1
      /\ BackInKey \/ BackToPrevKey
      /\ UNCHANGED <<rewinding, uturn, shown, stage>>
      /\ frame \in 0 .. Last /\ Last \in Nat /\ NumFrames = Last + 1
  BY TypesOfKeys DEF TypeOK, movieVars, trackerVars, Align, RewindInv, StageInv
<1>2. /\ todo \in 0 .. Last
      /\ \/ frame = Last /\ shown = Current.input[NumFrames - todo]
         \/ frame + todo < Last /\ NewerReady /\ shown = Newer.input[Last - frame - todo]
  BY <1>1 DEF RewindInv, AlignInv
<1>3. Passing /\ (frame < Last => NewerReady)
  <2>1. Passing
    BY <1>1, PassingWhen
  <2>2. frame < Last => NewerReady
    BY <1>1, <1>2
  <2> QED
    BY <2>1, <2>2
<1>4. /\ KeyTypes' /\ VideoTypes' /\ origin' = origin /\ now' \in 1 .. Len(origin)
      /\ Passing' /\ NewerReady'
      /\ \/ frame < Last /\ frame' = frame + 1 /\ Newer' = Newer
         \/ frame = Last /\ frame' = 0 /\ Newer'.input = Current.input
  BY <1>1, <1>3, PassIs
<1>5. todo' \in 0 .. Last /\ todo' \in 0 .. 2 * NumFrames
  BY <1>1, <1>2
<1>6. RewinderTypeOK'
  BY <1>1, <1>4, <1>5 DEF RewinderTypeOK, KeyTypes, VideoTypes
<1>7. GameTypeOK' /\ GameInv'
  <2>1. Len(origin) \in Nat /\ Len(origin) <= MaxStates /\ MaxStates \in Nat
    BY <1>1, OriginIs, Sizes DEF GameInv
  <2>2. now' \in States
    BY <1>4, <2>1 DEF States
  <2> QED
    BY <1>1, <1>4, <2>2 DEF GameInv, GameTypeOK
<1>8. frame' + todo' < Last /\ shown = Newer'.input[Last - frame' - todo']
  <2>1. CASE frame < Last
    <3>1. frame' = frame + 1 /\ Newer' = Newer /\ frame + todo < Last
          /\ shown = Newer.input[Last - frame - todo]
      BY <1>2, <1>4, <1>1, <2>1
    <3>2. todo \in Int /\ frame \in Int /\ Last \in Int
      BY <1>1, <1>2
    <3>3. /\ (frame + 1) + (todo - 1) = frame + todo
          /\ Last - (frame + 1) - (todo - 1) = Last - frame - todo
      BY <3>2
    <3> QED
      BY <1>1, <3>1, <3>3
  <2>2. CASE frame = Last
    <3>1. frame' = 0 /\ Newer'.input = Current.input
      BY <1>1, <1>4, <2>2
    <3>2. shown = Current.input[NumFrames - todo]
      BY <1>1, <1>2, <2>2
    <3>3. 0 + (todo - 1) < Last /\ Last - 0 - (todo - 1) = NumFrames - todo
      BY <1>1, <1>2
    <3> QED
      BY <1>1, <3>1, <3>2, <3>3
  <2> QED
    BY <1>1, <2>1, <2>2
<1>9. AlignInv'
  BY <1>1, <1>4, <1>5, <1>8 DEF AlignInv, Passing
<1>10. RestInv'
  BY <1>4, AllLinkedRests DEF Passing, KeyTypes
<1> QED
  BY <1>1, <1>6, <1>7, <1>9, <1>10
  DEF RewinderSound, RewindInv, StageInv, ForwardInv, ForwardMode, CatchUpInv, StoreInv, BackAgainInv,
      BackInv, BackMode, ResumeInv

LEMMA AlignedKeeps ==
    ASSUME TypeOK, GameInv, RewindInv, on, rewinder, Aligned, UNCHANGED <<trackerVars, movieVars>>
    PROVE  RewinderSound'
<1>1. /\ GameTypeOK /\ RewinderTypeOK /\ taped' = taped /\ on' = on /\ rewinder' = rewinder
      /\ stage = "align" /\ stage' = "back" /\ rewinding /\ ~uturn /\ todo = 0 /\ key \in Keys
      /\ UNCHANGED <<rewinding, uturn, frame, key, keys, picture, slot, pingpong, now, shown,
                     origin, todo>>
      /\ frame \in 0 .. Last /\ Last \in Nat /\ NumFrames = Last + 1 /\ Frames = 0 .. Last
  BY TypesOfKeys, Sizes
  DEF TypeOK, movieVars, trackerVars, Aligned, RewindInv, StageInv, videoVars, keyVars, gameVars
<1>2. /\ ReplayedTo(frame + 1) /\ Pictures /\ NextSlot
      /\ \/ frame = Last /\ CanRewind(Older) /\ shown = Current.input[NumFrames - todo]
         \/ frame + todo < Last /\ NewerReady /\ shown = Newer.input[Last - frame - todo]
  BY <1>1 DEF RewindInv, AlignInv
<1>3. /\ shown = picture[slot]
      /\ (frame = Last /\ CanRewind(Older)) \/ (frame < Last /\ NewerReady)
  <2>1. CASE frame = Last
    <3>1. CanRewind(Older) /\ shown = Current.input[NumFrames]
      BY <1>1, <1>2, <2>1
    <3>2. slot = SlotOf(pingpong, 0) /\ 0 \in Frames /\ NumFrames - 0 = NumFrames
      BY <1>1, <1>2, <2>1 DEF NextSlot
    <3>3. picture[SlotOf(pingpong, 0)] = Current.input[NumFrames - 0]
      BY <1>1, <1>2, <2>1, <3>2 DEF Pictures
    <3> QED
      BY <2>1, <3>1, <3>2, <3>3
  <2>2. CASE frame # Last
    <3>1. frame < Last /\ NewerReady /\ shown = Newer.input[Last - frame]
      BY <1>1, <1>2, <2>2
    <3>2. slot = SlotOf(pingpong, frame + 1) /\ frame + 1 \in Frames /\ ~(frame + 1 <= frame)
          /\ NumFrames - (frame + 1) = Last - frame
      BY <1>1, <1>2, <3>1 DEF NextSlot
    <3>3. picture[SlotOf(pingpong, frame + 1)] = Newer.input[NumFrames - (frame + 1)]
      BY <1>2, <3>1, <3>2 DEF Pictures
    <3> QED
      BY <3>1, <3>2, <3>3
  <2> QED
    BY <2>1, <2>2
<1>4. Current' = Current /\ Newer' = Newer /\ Older' = Older
  BY <1>1 DEF Current, Newer, Older
<1>5. RewinderTypeOK' /\ GameTypeOK' /\ GameInv'
  BY <1>1 DEF RewinderTypeOK, Stages, GameTypeOK, GameInv
<1>6. BackAgainInv'
  BY <1>1, <1>2, <1>3, <1>4 DEF BackAgainInv, ReplayedTo, Pictures, NextSlot, NewerReady
<1>7. RestInv'
  BY <1>1 DEF RewindInv, RestInv, ForwardMode, Current, Newer
<1> QED
  BY <1>1, <1>5, <1>6, <1>7
  DEF RewinderSound, RewindInv, StageInv, ForwardInv, ForwardMode, CatchUpInv, StoreInv, AlignInv,
      BackInv, BackMode, ResumeInv

-----------------------------------------------------------------------------
\* Turning forward.

LEMMA TurnForwardKeeps ==
    ASSUME TypeOK, GameInv, RewindInv, on, rewinder, TurnForward, UNCHANGED <<trackerVars, movieVars>>
    PROVE  RewinderSound'
<1>1. /\ GameTypeOK /\ RewinderTypeOK /\ taped' = taped /\ on' = on /\ rewinder' = rewinder
      /\ stage = "idle" /\ stage' = "forward" /\ ~rewinding /\ uturn /\ ~uturn' /\ uturn' \in BOOLEAN
      /\ todo' = NumFrames + Last - frame * 2 /\ key \in Keys
      /\ UNCHANGED <<rewinding, frame, key, keys, picture, slot, pingpong, now, shown, origin>>
      /\ frame \in 0 .. Last /\ Last \in Nat /\ NumFrames = Last + 1
  BY TypesOfKeys
  DEF TypeOK, movieVars, trackerVars, TurnForward, FramesToResume, videoVars, keyVars, gameVars
<1>2. ReplayedTo(frame + 1) /\ NewerReady /\ shown = Newer.input[NumFrames - frame]
  BY <1>1 DEF RewindInv, BackInv, BackMode
<1>3. /\ frame + todo' - Last = NumFrames - frame /\ NumFrames - frame \in 1 .. NumFrames
      /\ todo' \in 0 .. 2 * NumFrames
  BY <1>1
<1>4. Current' = Current /\ Newer' = Newer
  BY <1>1 DEF Current, Newer
<1>5. RewinderTypeOK' /\ GameTypeOK' /\ GameInv'
  BY <1>1, <1>3 DEF RewinderTypeOK, Stages, GameTypeOK, GameInv
<1>6. ResumeInv'
  <2>1. ReplayedTo(frame + 1)' /\ NewerReady'
    BY <1>1, <1>2, <1>4 DEF ReplayedTo, NewerReady
  <2>2. frame' + todo' - Last \in 1 .. NumFrames /\ shown' = Newer'.input[frame' + todo' - Last]
    BY <1>1, <1>2, <1>3, <1>4
  <2> QED
    BY <2>1, <2>2 DEF ResumeInv
<1>7. RestInv'
  BY <1>1 DEF RewindInv, RestInv, ForwardMode, Current, Newer
<1> QED
  BY <1>1, <1>5, <1>6, <1>7
  DEF RewinderSound, RewindInv, StageInv, ForwardInv, ForwardMode, CatchUpInv, StoreInv, AlignInv,
      BackAgainInv, BackInv, BackMode

\* The first frame of the newer key is replayed.
LEMMA ReplayedInNextKey ==
    ASSUME GameTypeOK, RewinderTypeOK, GameInv, AllLinked, ReplayedTo(NumFrames), NewerReady,
           ReplayFrom(NextKey(key), keys, Newer.start), key' = NextKey(key), taped' = taped
    PROVE  /\ keys' \in [Keys -> KeyType] /\ key' \in Keys
           /\ \A k \in Keys : Len(keys'[k].input) <= NumFrames
           /\ origin' = origin /\ now' \in 1 .. Len(origin) /\ now' \in States
           /\ now' = Newer.input[1]
           /\ AllLinked' /\ ReplayedTo(1)' /\ Current'.input = Newer.input
<1> DEFINE next == NextKey(key)
           q == Advance(Newer)
<1>1. /\ key \in Keys /\ Newer \in KeyType /\ Current \in KeyType /\ taped \in Nat /\ origin' = origin
      /\ next \in Keys /\ next # key
      /\ now' = Get(Newer, Newer.start) /\ keys' = [keys EXCEPT ![next] = q]
      /\ At(origin, taped, Newer, 0) /\ At(origin, taped, Current, NumFrames)
  BY TypesOfKeys, Neighbours DEF ReplayFrom, Newer, Current, GameInv, ReplayedTo, NewerReady
<1>2. /\ now' = StateAfter(Newer, 1) /\ now' = Newer.input[1]
      /\ now' \in taped + 1 .. Len(origin)
      /\ q \in KeyType /\ At(origin, taped, q, 1)
      /\ q.start = Newer.start /\ q.input = Newer.input
      /\ \A i : StateAfter(q, i) = StateAfter(Newer, i)
  <2>1. 0 \in 0 .. Last /\ 0 + 1 = 1 /\ StateAfter(Newer, 0) = Newer.start
    BY Sizes DEF StateAfter
  <2> QED
    BY <1>1, <2>1, ReplayIs
<1> HIDE DEF q
<1>3. /\ keys' \in [Keys -> KeyType] /\ keys'[next] = q
      /\ \A k \in Keys \ {next} : keys'[k] = keys[k]
      /\ Current' = q /\ key' \in Keys
  BY <1>1, <1>2, OneKey DEF RewinderTypeOK, Current
<1>4. \A k \in Keys : Len(keys'[k].input) <= NumFrames
  BY <1>1, <1>2, <1>3 DEF RewinderTypeOK, Newer
<1>5. now' \in 1 .. Len(origin) /\ now' \in States
  <2>1. Len(origin) \in Nat /\ Len(origin) <= MaxStates /\ MaxStates \in Nat
    BY OriginIs, Sizes DEF GameInv
  <2> QED
    BY <1>1, <1>2, <2>1 DEF States
<1>6. ReplayedTo(1)'
  <2>1. now' = StateAfter(q, 1)
    BY <1>2
  <2> QED
    BY <1>1, <1>2, <1>3, <2>1 DEF ReplayedTo
<1>7. AllLinked'
  <2>1. Kept(origin, taped, Current)
    BY <1>1 DEF Kept, At
  <2>2. \A k \in Keys \ {next} : Kept(origin, taped, keys'[k])
    BY <1>3, <2>1 DEF AllLinked, Current
  <2>3. /\ \A k \in Keys : /\ StateAfter(keys'[k], NumFrames) = StateAfter(keys[k], NumFrames)
                           /\ keys'[k].start = keys[k].start
                           /\ CanRewind(keys'[k]) => CanRewind(keys[k])
    <3>1. CanRewind(Newer)
      BY <1>1 DEF At, CanRewind, BadPos
    <3> QED
      BY <1>1, <1>2, <1>3, <3>1 DEF Newer
  <2>4. ASSUME NEW k \in Keys PROVE Linked(keys'[k], keys'[NextKey(k)])
    <3>1. Linked(keys[k], keys[NextKey(k)]) /\ NextKey(k) \in Keys
      BY Neighbours DEF AllLinked
    <3> QED
      BY <2>3, <3>1, LinksLast
  <2> QED
    BY <1>1, <2>2, <2>4 DEF AllLinked
<1> QED
  BY <1>1, <1>2, <1>3, <1>4, <1>5, <1>6, <1>7

LEMMA ReplayForwardKeeps ==
    ASSUME TypeOK, GameInv, RewindInv, on, rewinder, ReplayForward, UNCHANGED <<trackerVars, movieVars>>
    PROVE  RewinderSound'
<1>1. /\ GameTypeOK /\ RewinderTypeOK /\ taped' = taped /\ on' = on /\ rewinder' = rewinder
      /\ stage = "forward" /\ ~rewinding /\ ~uturn /\ todo > 0 /\ todo' = todo - 1 /\ key \in Keys
      /\ UNCHANGED <<rewinding, uturn, picture, slot, pingpong, shown, stage>>
      /\ frame \in 0 .. Last /\ Last \in Nat /\ NumFrames = Last + 1 /\ Frames = 0 .. Last
      /\ todo \in 0 .. 2 * NumFrames
  BY TypesOfKeys, Sizes
  DEF TypeOK, movieVars, trackerVars, ReplayForward, videoVars, RewindInv, StageInv, RewinderTypeOK
<1>2. /\ ReplayedTo(frame + 1)
      /\ \/ frame + todo <= Last /\ shown = Current.input[frame + 1 + todo]
         \/ /\ frame + todo - Last \in 1 .. NumFrames
            /\ NewerReady /\ shown = Newer.input[frame + todo - Last]
  BY <1>1 DEF RewindInv, ResumeInv
<1>3. AllLinked
  BY <1>1, AllLinkedWhen DEF ForwardMode
<1>4. CASE frame < Last
  <2> PICK n \in 0 .. Last : n = frame + 1
    BY <1>1, <1>4
  <2>1. /\ frame' = frame + 1 /\ key' = key /\ ReplayFrom(key, keys, now)
        /\ frame' \in Frames /\ n + 1 = frame' + 1 /\ todo' \in 0 .. 2 * NumFrames
    BY <1>1, <1>4 DEF ReplayForward
  <2>2. /\ keys' \in [Keys -> KeyType]
        /\ \A k \in Keys : Len(keys'[k].input) <= NumFrames
        /\ origin' = origin /\ now' \in 1 .. Len(origin) /\ now' \in States
        /\ AllLinked' /\ ReplayedTo(n + 1)'
        /\ Current'.input = Current.input /\ Newer' = Newer /\ Older' = Older
    BY <1>1, <1>2, <1>3, <2>1, ReplayedInKey
  <2>3. RewinderTypeOK' /\ GameTypeOK' /\ GameInv'
    BY <1>1, <2>1, <2>2 DEF RewinderTypeOK, Stages, GameTypeOK, GameInv
  <2>4. ResumeInv'
    <3>1. /\ frame' + todo' = frame + todo /\ frame' + 1 + todo' = frame + 1 + todo
          /\ frame' + todo' - Last = frame + todo - Last
      BY <1>1, <2>1
    <3>2. ReplayedTo(frame + 1)'
      BY <2>1, <2>2
    <3>3. NewerReady => NewerReady'
      BY <1>1, <2>2 DEF NewerReady
    <3>4. CASE frame + todo <= Last /\ shown = Current.input[frame + 1 + todo]
      <4>1. frame' + todo' <= Last /\ shown' = Current'.input[frame' + 1 + todo']
        BY <1>1, <2>2, <3>1, <3>4
      <4> QED
        BY <3>2, <4>1 DEF ResumeInv
    <3>5. CASE /\ frame + todo - Last \in 1 .. NumFrames
               /\ NewerReady /\ shown = Newer.input[frame + todo - Last]
      <4>1. /\ frame' + todo' - Last \in 1 .. NumFrames
            /\ NewerReady' /\ shown' = Newer'.input[frame' + todo' - Last]
        BY <1>1, <2>2, <3>1, <3>3, <3>5
      <4> QED
        BY <3>2, <4>1 DEF ResumeInv
    <3> QED
      BY <1>2, <3>4, <3>5
  <2>5. RestInv'
    BY <1>1, <2>1, <2>2, AllLinkedRests
  <2> QED
    BY <1>1, <2>3, <2>4, <2>5
    DEF RewinderSound, RewindInv, StageInv, ForwardInv, ForwardMode, CatchUpInv, StoreInv, AlignInv,
        BackAgainInv, BackInv, BackMode
<1>5. CASE frame = Last
  <2>1. /\ frame' = 0 /\ key' = NextKey(key) /\ ReplayFrom(NextKey(key), keys, Newer.start)
        /\ 0 \in Frames /\ todo' \in 0 .. 2 * NumFrames
    BY <1>1, <1>5 DEF ReplayForward, Newer
  <2>2. /\ ReplayedTo(NumFrames) /\ NewerReady /\ shown = Newer.input[todo] /\ todo <= NumFrames
    <3>1. frame + 1 = NumFrames /\ ~(frame + todo <= Last) /\ frame + todo - Last = todo
      BY <1>1, <1>5
    <3>2. frame + todo - Last \in 1 .. NumFrames /\ NewerReady
          /\ shown = Newer.input[frame + todo - Last]
      BY <1>2, <3>1
    <3> QED
      BY <1>1, <1>2, <3>1, <3>2
  <2>3. /\ keys' \in [Keys -> KeyType] /\ key' \in Keys
        /\ \A k \in Keys : Len(keys'[k].input) <= NumFrames
        /\ origin' = origin /\ now' \in 1 .. Len(origin) /\ now' \in States
        /\ AllLinked' /\ ReplayedTo(1)' /\ Current'.input = Newer.input
    BY <1>1, <1>3, <2>1, <2>2, ReplayedInNextKey
  <2>4. RewinderTypeOK' /\ GameTypeOK' /\ GameInv'
    BY <1>1, <2>1, <2>3 DEF RewinderTypeOK, Stages, GameTypeOK, GameInv
  <2>5. ResumeInv'
    <3>1. frame' + 1 = 1 /\ frame' + todo' <= Last /\ frame' + 1 + todo' = todo
      <4>1. todo \in Int
        BY <1>1
      <4>2. 0 + (todo - 1) <= Last /\ 0 + 1 + (todo - 1) = todo
        BY <1>1, <2>2, <4>1
      <4> QED
        BY <1>1, <2>1, <4>2
    <3>2. ReplayedTo(frame + 1)'
      BY <2>3, <3>1 DEF ReplayedTo
    <3> QED
      BY <1>1, <2>2, <2>3, <3>1, <3>2 DEF ResumeInv
  <2>6. RestInv'
    BY <2>3, AllLinkedRests
  <2> QED
    BY <1>1, <2>4, <2>5, <2>6
    DEF RewinderSound, RewindInv, StageInv, ForwardInv, ForwardMode, CatchUpInv, StoreInv, AlignInv,
        BackAgainInv, BackInv, BackMode
<1> QED
  BY <1>1, <1>4, <1>5

LEMMA ResumeKeeps ==
    ASSUME TypeOK, GameInv, RewindInv, on, rewinder, Resume, UNCHANGED <<trackerVars, movieVars>>
    PROVE  RewinderSound'
<1> DEFINE q == ResumeForward(Current)
<1>1. /\ GameTypeOK /\ RewinderTypeOK /\ taped' = taped /\ on' = on /\ rewinder' = rewinder
      /\ stage = "forward" /\ stage' = "resume" /\ ~rewinding /\ ~uturn /\ todo = 0 /\ key \in Keys
      /\ keys' = [keys EXCEPT ![key] = q] /\ EndVideo
      /\ UNCHANGED <<rewinding, uturn, frame, key, now, shown, origin, todo>>
      /\ frame \in 0 .. Last /\ Last \in Nat /\ NumFrames = Last + 1 /\ Current \in KeyType
      /\ taped \in Nat
  <2>1. GameTypeOK /\ RewinderTypeOK /\ taped' = taped /\ on' = on /\ rewinder' = rewinder
    BY DEF TypeOK, movieVars, trackerVars
  <2>2. /\ stage = "forward" /\ stage' = "resume" /\ todo = 0
        /\ keys' = [keys EXCEPT ![key] = q] /\ EndVideo
        /\ UNCHANGED <<rewinding, uturn, frame, key, now, shown, origin, todo>>
    BY DEF Resume, gameVars, Current
  <2>3. ~rewinding /\ ~uturn
    BY <2>2 DEF RewindInv, StageInv
  <2>4. /\ frame \in 0 .. Last /\ Last \in Nat /\ NumFrames = Last + 1 /\ Current \in KeyType
        /\ taped \in Nat /\ key \in Keys
    BY <2>1, TypesOfKeys DEF GameInv
  <2> QED
    BY <2>1, <2>2, <2>3, <2>4
<1>2. /\ ReplayedTo(frame + 1) /\ shown = now
  <2>1. /\ ReplayedTo(frame + 1)
        /\ \/ frame + todo <= Last /\ shown = Current.input[frame + 1 + todo]
           \/ frame + todo - Last \in 1 .. NumFrames
    BY <1>1 DEF RewindInv, ResumeInv
  <2>2. ~(frame + todo - Last \in 1 .. NumFrames) /\ frame + 1 + todo = frame + 1 /\ frame + 1 # 0
    BY <1>1
  <2> QED
    BY <2>1, <2>2 DEF ReplayedTo, StateAfter
<1>3. frame + 1 \in 1 .. NumFrames
  BY <1>1
<1>4. /\ q \in KeyType /\ Recorded(origin, taped, q, frame + 1)
      /\ StateAfter(q, frame + 1) = StateAfter(Current, frame + 1) /\ q.start = Current.start
  BY <1>1, <1>2, <1>3, ResumeForwardIs DEF ReplayedTo
<1> HIDE DEF q
<1>5. /\ keys' \in [Keys -> KeyType] /\ keys'[key] = q
      /\ \A k \in Keys \ {key} : keys'[k] = keys[k]
      /\ Current' = q
  BY <1>1, <1>4, OneKey DEF RewinderTypeOK, Current
<1>6. RewinderTypeOK' /\ GameTypeOK' /\ GameInv'
  <2>1. Len(q.input) <= NumFrames
    BY <1>1, <1>4 DEF Recorded
  <2>2. \A k \in Keys : Len(keys'[k].input) <= NumFrames
    BY <1>1, <1>5, <2>1 DEF RewinderTypeOK
  <2>3. picture' \in [Frames -> {Nowhere} \cup States] /\ slot' \in Frames /\ pingpong' \in {1, -1}
    BY <1>1, Sizes DEF EndVideo
  <2> QED
    BY <1>1, <1>5, <2>2, <2>3 DEF RewinderTypeOK, Stages, GameTypeOK, GameInv
<1>7. ForwardInv'
  BY <1>1, <1>2, <1>4, <1>5 DEF ForwardInv, RecordedTo, ReplayedTo
<1>8. RestInv'
  <2>1. ASSUME NEW k \in Keys \ {key} PROVE Kept(origin, taped, keys'[k])
    BY <1>5 DEF RewindInv, RestInv
  <2>2. ASSUME NEW k \in Keys \ {key} PROVE Linked(keys'[k], keys'[NextKey(k)])
    <3>1. Linked(keys[k], keys[NextKey(k)]) /\ NextKey(k) \in Keys /\ keys'[k] = keys[k]
      BY <1>5, Neighbours DEF RewindInv, RestInv
    <3>2. CASE NextKey(k) # key
      BY <1>5, <3>1, <3>2
    <3>3. CASE NextKey(k) = key
      <4>1. CanRewind(Current)
        BY <1>1, <1>2 DEF ReplayedTo, At, CanRewind, BadPos
      <4> QED
        BY <1>4, <1>5, <3>1, <3>3, <4>1 DEF Linked, Current
    <3> QED
      BY <3>2, <3>3
  <2> QED
    BY <1>1, <2>1, <2>2 DEF RestInv, ForwardMode
<1> QED
  BY <1>1, <1>6, <1>7, <1>8
  DEF RewinderSound, RewindInv, StageInv, CatchUpInv, StoreInv, AlignInv, BackAgainInv, BackInv,
      BackMode, ResumeInv

-----------------------------------------------------------------------------
\* The user.

LEMMA StartKeeps ==
    ASSUME TypeOK, GameInv, RewindInv, StartRewinding
    PROVE  RewinderSound'
<1>1. /\ GameTypeOK /\ RewinderTypeOK /\ on /\ rewinder /\ taped' = taped /\ on' = on /\ rewinder' = rewinder
      /\ stage = "idle" /\ ~rewinding /\ ~uturn /\ CanRewind(Older)
      /\ uturn' /\ rewinding' /\ uturn' \in BOOLEAN /\ rewinding' \in BOOLEAN
      /\ UNCHANGED <<frame, key, keys, picture, slot, pingpong, stage, todo, now, shown, origin>>
      /\ Older = keys[PrevKey(key)] /\ PrevKey(key) \in Keys
  BY Neighbours
  DEF TypeOK, StartRewinding, Start, movieVars, trackerVars, keyVars, videoVars, loopVars, gameVars,
      Older, RewinderTypeOK
<1>2. ~Fresh
  BY <1>1, ResetKeyIs DEF Fresh
<1>3. shown = now /\ RecordedTo(frame + 1)
  BY <1>1, <1>2 DEF RewindInv, ForwardInv, ForwardMode
<1>4. RewinderTypeOK' /\ GameTypeOK' /\ GameInv'
  BY <1>1 DEF RewinderTypeOK, GameTypeOK, GameInv
<1>5. ForwardInv'
  BY <1>1, <1>3 DEF ForwardInv, RecordedTo, Current, Older
<1>6. RestInv'
  BY <1>1 DEF RewindInv, RestInv, ForwardMode
<1> QED
  BY <1>1, <1>4, <1>5, <1>6
  DEF RewinderSound, RewindInv, StageInv, CatchUpInv, StoreInv, AlignInv, BackAgainInv, BackInv,
      BackMode, ResumeInv

LEMMA StopKeeps ==
    ASSUME TypeOK, GameInv, RewindInv, StopRewinding
    PROVE  RewinderSound'
<1>1. /\ GameTypeOK /\ RewinderTypeOK /\ on /\ rewinder /\ taped' = taped /\ on' = on /\ rewinder' = rewinder
      /\ stage = "idle" /\ rewinding /\ ~uturn
      /\ uturn' /\ ~rewinding' /\ uturn' \in BOOLEAN /\ rewinding' \in BOOLEAN
      /\ UNCHANGED <<frame, key, keys, picture, slot, pingpong, stage, todo, now, shown, origin>>
  BY DEF TypeOK, StopRewinding, Stop, movieVars, trackerVars, keyVars, videoVars, loopVars, gameVars
<1>2. /\ ReplayedTo(frame + 1) /\ Pictures /\ NextSlot
      /\ NewerReady /\ shown = Newer.input[NumFrames - frame]
  BY <1>1 DEF RewindInv, BackInv, BackMode
<1>3. Current' = Current /\ Newer' = Newer
  BY <1>1 DEF Current, Newer
<1>4. RewinderTypeOK' /\ GameTypeOK' /\ GameInv'
  BY <1>1 DEF RewinderTypeOK, GameTypeOK, GameInv
<1>5. BackInv'
  BY <1>1, <1>2, <1>3 DEF BackInv, ReplayedTo, Pictures, NextSlot, NewerReady
<1>6. RestInv'
  BY <1>1, <1>3 DEF RewindInv, RestInv, ForwardMode
<1> QED
  BY <1>1, <1>4, <1>5, <1>6
  DEF RewinderSound, RewindInv, StageInv, ForwardInv, ForwardMode, CatchUpInv, StoreInv, AlignInv,
      BackAgainInv, ResumeInv

-----------------------------------------------------------------------------
\* The movie.

\* State t, of those up to m, is what the frame played from state s leads to.
IsNext(o, m, s, t) ==
    /\ t \in 1 .. m /\ o[t] = s
    /\ Reads(s) = {} => \A u \in 1 .. Len(o) : o[u] = s => t <= u

\* A turn of the player: from its state pl and state s of the machine.
Begun(ks, pl) ==
    IF pl.frame > 0 THEN [pl EXCEPT !.frame = @ - 1]
    ELSE [next |-> pl.next + 1, frame |-> ks[pl.next].len,
          input |-> ks[pl.next].input, pos |-> [p \in Ports |-> 0]]

From(ks, pl, s) ==
    IF pl.frame > 0 \/ ks[pl.next].sav = Nowhere THEN s ELSE ks[pl.next].sav

Turned(pl, s) ==
    [pl EXCEPT !.pos = [p \in Ports |-> IF p \in Reads(s) THEN @[p] + 1 ELSE @[p]]]

\* The j-th turn, by which the player comes from pl to ql with the first n keys
\* ks of a file, and the machine to the j-th of the states T.
Turn(o, m, ks, n, T, pl, ql, j) ==
    LET s == From(ks, pl, T[j - 1])
    IN  /\ pl.frame > 0 \/ pl.next \in 1 .. n
        /\ pl.frame > 0 \/ ks[pl.next].sav = Nowhere => j > 1
        /\ IsNext(o, m, s, T[j])
        /\ \A p \in Reads(s) : Byte(Begun(ks, pl), p) = T[j]
        /\ ql = Turned(Begun(ks, pl), s)

\* The player goes through the first n keys, and the machine through the first d
\* of the states T.
Runs(o, m, ks, n, T, d, run) ==
    /\ run[0] = IdlePlayer
    /\ \A j \in 1 .. d : Turn(o, m, ks, n, T, run[j - 1], run[j], j)
    /\ run[d].frame = 0 /\ run[d].next = n + 1

Held(o, m, ks, n, T, d) == \E run : Runs(o, m, ks, n, T, d, run)

\* The i-th of the n frames of a key, which lead to the last n of the states T.
\* After i frames, c[i] bytes of the ports were read.
KeyTurn(o, m, sav, input, n, T, c, i) ==
    LET d == Len(T) - n
        s == IF i = 1 /\ sav # Nowhere THEN sav ELSE T[d + i - 1]
    IN  /\ i = 1 /\ sav = Nowhere => d > 0
        /\ IsNext(o, m, s, T[d + i])
        /\ \A p \in Ports :
               IF p \in Reads(s)
               THEN /\ c[i][p] = c[i - 1][p] + 1 /\ c[i][p] <= Len(input[p])
                    /\ input[p][c[i][p]] = T[d + i]
               ELSE c[i][p] = c[i - 1][p]

KeyTurns(o, m, sav, input, n, T, c) ==
    /\ c \in [0 .. n -> [Ports -> Nat]]
    /\ c[0] = [p \in Ports |-> 0]
    /\ \A i \in 1 .. n : KeyTurn(o, m, sav, input, n, T, c, i)
    /\ \A p \in Ports : c[n][p] = Len(input[p])

Keyed(o, m, sav, input, n, T) == \E c : KeyTurns(o, m, sav, input, n, T, c)

LEMMA NextLasts ==
    ASSUME NEW o, NEW p, NEW m \in Nat, NEW l \in Nat, m <= l, NEW s, NEW t,
           Len(o) \in Nat, Len(p) \in Nat, Grows(o, p, m), IsNext(o, m, s, t)
    PROVE  IsNext(p, l, s, t)
<1>1. t \in 1 .. m /\ o[t] = s /\ Len(o) >= m /\ \A u \in 1 .. m : p[u] = o[u]
  BY DEF IsNext, Grows
<1>2. t \in 1 .. l /\ p[t] = s
  BY <1>1
<1>3. ASSUME Reads(s) = {}, NEW u \in 1 .. Len(p), p[u] = s PROVE t <= u
  <2>1. CASE u <= m
    <3>1. u \in 1 .. m /\ u \in 1 .. Len(o)
      BY <1>1, <2>1
    <3>2. o[u] = s
      BY <1>1, <1>3, <3>1
    <3> QED
      BY <1>3, <3>1, <3>2 DEF IsNext
  <2>2. CASE ~(u <= m)
    BY <1>1, <2>2
  <2> QED
    BY <2>1, <2>2
<1> QED
  BY <1>2, <1>3 DEF IsNext

\* A turn stays what it is when states, keys and frames are added.
LEMMA TurnLasts ==
    ASSUME NEW o, NEW p, NEW m \in Nat, NEW l \in Nat, m <= l,
           Len(o) \in Nat, Len(p) \in Nat, Grows(o, p, m),
           NEW ks, NEW ls, NEW n \in Nat, NEW k \in Nat, n <= k, \A i \in 1 .. n : ls[i] = ks[i],
           NEW T, NEW U, NEW j \in Nat \ {0}, \A i \in 1 .. j : U[i] = T[i],
           NEW pl, NEW ql, Turn(o, m, ks, n, T, pl, ql, j)
    PROVE  Turn(p, l, ls, k, U, pl, ql, j)
<1> DEFINE s == From(ks, pl, T[j - 1])
<1>1. /\ pl.frame > 0 \/ pl.next \in 1 .. n
      /\ pl.frame > 0 \/ ks[pl.next].sav = Nowhere => j > 1
      /\ IsNext(o, m, s, T[j])
      /\ \A q \in Reads(s) : Byte(Begun(ks, pl), q) = T[j]
      /\ ql = Turned(Begun(ks, pl), s)
  BY DEF Turn
<1>2. pl.frame > 0 \/ ls[pl.next] = ks[pl.next]
  BY <1>1
<1>3. Begun(ls, pl) = Begun(ks, pl)
  BY <1>2 DEF Begun
<1>4. From(ls, pl, U[j - 1]) = s
  <2>1. CASE j > 1
    <3>1. U[j - 1] = T[j - 1]
      BY <2>1
    <3> QED
      BY <1>2, <3>1 DEF From
  <2>2. CASE ~(j > 1)
    BY <1>1, <1>2, <2>2 DEF From
  <2> QED
    BY <2>1, <2>2
<1>5. IsNext(p, l, s, T[j]) /\ U[j] = T[j]
  BY <1>1, NextLasts
<1> HIDE DEF s
<1>6. pl.next \in 1 .. n => pl.next \in 1 .. k
  OBVIOUS
<1>7. pl.frame > 0 \/ ls[pl.next].sav = Nowhere => j > 1
  BY <1>1, <1>2
<1> QED
  BY <1>1, <1>3, <1>4, <1>5, <1>6, <1>7 DEF Turn

LEMMA HeldLasts ==
    ASSUME NEW o, NEW p, NEW m \in Nat, NEW l \in Nat, m <= l,
           Len(o) \in Nat, Len(p) \in Nat, Grows(o, p, m),
           NEW ks, NEW ls, NEW n \in Nat, \A i \in 1 .. n : ls[i] = ks[i],
           NEW T, NEW U, NEW d \in Nat, \A i \in 1 .. d : U[i] = T[i],
           NEW run, Runs(o, m, ks, n, T, d, run)
    PROVE  Runs(p, l, ls, n, U, d, run) /\ Held(p, l, ls, n, U, d)
<1>1. ASSUME NEW j \in 1 .. d PROVE Turn(p, l, ls, n, U, run[j - 1], run[j], j)
  <2>1. Turn(o, m, ks, n, T, run[j - 1], run[j], j)
    BY DEF Runs
  <2>2. j \in Nat \ {0} /\ (\A i \in 1 .. j : U[i] = T[i]) /\ n <= n
    OBVIOUS
  <2> DEFINE pl == run[j - 1]
             ql == run[j]
  <2>3. Turn(o, m, ks, n, T, pl, ql, j)
    BY <2>1
  <2> HIDE DEF pl, ql
  <2>4. Turn(p, l, ls, n, U, pl, ql, j)
    BY <2>2, <2>3, TurnLasts
  <2> QED
    BY <2>4 DEF pl, ql
<1>2. Runs(p, l, ls, n, U, d, run)
  BY <1>1 DEF Runs
<1> QED
  BY <1>2 DEF Held

\* Nothing is held by no key.
LEMMA NothingHeld ==
    ASSUME NEW o, NEW m, NEW ks, NEW T
    PROVE  Held(o, m, ks, 0, T, 0)
<1> DEFINE run == [j \in {0} |-> IdlePlayer]
<1>1. run[0] = IdlePlayer /\ IdlePlayer.frame = 0 /\ IdlePlayer.next = 0 + 1
  BY DEF IdlePlayer
<1>2. Runs(o, m, ks, 0, T, 0, run)
  BY <1>1 DEF Runs
<1> QED
  BY <1>2 DEF Held

LEMMA NothingKeyed ==
    ASSUME NEW o, NEW m, NEW sav, NEW T
    PROVE  Keyed(o, m, sav, NoInput, 0, T)
<1> DEFINE c == [i \in {0} |-> [p \in Ports |-> 0]]
<1>1. /\ c \in [0 .. 0 -> [Ports -> Nat]] /\ c[0] = [p \in Ports |-> 0]
      /\ \A p \in Ports : c[0][p] = Len(NoInput[p])
  <2>1. 0 .. 0 = {0} /\ Len(<< >>) = 0
    BY EmptySeq
  <2> QED
    BY <2>1 DEF NoInput
<1>2. KeyTurns(o, m, sav, NoInput, 0, T, c)
  BY <1>1 DEF KeyTurns
<1> QED
  BY <1>2 DEF Keyed

LEMMA WithFrame ==
    ASSUME NEW n, NEW f, NEW in, NEW c, NEW g, NEW pl,
           pl = [next |-> n, frame |-> f, input |-> in, pos |-> c]
    PROVE  [pl EXCEPT !.frame = g] = [next |-> n, frame |-> g, input |-> in, pos |-> c]
OBVIOUS

\* The key that was recorded is written: the file holds its frames, too.
LEMMA KeyIsHeld ==
    ASSUME NEW o, NEW m \in Nat, Len(o) \in Nat, m <= Len(o),
           NEW ks \in Seq(KeyOfFile), NEW sav, NEW input \in InputType, NEW n \in Nat \ {0},
           NEW T, Len(T) \in Nat, NEW d \in Nat, d = Len(T) - n,
           Held(o, m, ks, Len(ks), T, d), Keyed(o, m, sav, input, n, T),
           NEW k \in KeyOfFile, k.sav = sav, k.len = n - 1, k.input = input
    PROVE  Held(o, m, Append(ks, k), Len(ks) + 1, T, Len(T))
<1> DEFINE ls == Append(ks, k)
           e  == Len(ks) + 1
<1>1. PICK run : Runs(o, m, ks, Len(ks), T, d, run)
  BY DEF Held
<1>2. PICK c : KeyTurns(o, m, sav, input, n, T, c)
  BY DEF Keyed
<1>3. /\ Len(ks) \in Nat /\ e \in Nat /\ (\A i \in 1 .. Len(ks) : ls[i] = ks[i]) /\ ls[e] = k
  BY LenProperties, AppendProperties
<1>4. /\ Len(T) = d + n /\ n \in Nat /\ n >= 1
  OBVIOUS
<1> DEFINE In(i) == [next |-> e + 1, frame |-> n - i, input |-> input, pos |-> c[i]]
           U == [j \in 0 .. Len(T) |-> IF j <= d THEN run[j] ELSE In(j - d)]
<1>5. /\ \A j \in 0 .. d : U[j] = run[j]
      /\ \A i \in 1 .. n : U[d + i] = In(i)
  <2>1. ASSUME NEW j \in 0 .. d PROVE U[j] = run[j]
    BY <1>4
  <2>2. ASSUME NEW i \in 1 .. n PROVE U[d + i] = In(i)
    <3>1. d + i \in 0 .. Len(T) /\ ~(d + i <= d) /\ d + i - d = i
      BY <1>4
    <3> QED
      BY <3>1
  <2> QED
    BY <2>1, <2>2
<1> HIDE DEF ls, e, In, U
<1>6. Grows(o, o, m)
  BY DEF Grows
<1>7. ASSUME NEW j \in 1 .. d PROVE Turn(o, m, ls, e, T, U[j - 1], U[j], j)
  <2>1. U[j - 1] = run[j - 1] /\ U[j] = run[j]
    <3>1. j - 1 \in 0 .. d /\ j \in 0 .. d
      OBVIOUS
    <3> QED
      BY <1>5, <3>1
  <2> DEFINE pl == run[j - 1]
             ql == run[j]
  <2>2. Turn(o, m, ks, Len(ks), T, pl, ql, j)
    BY <1>1 DEF Runs
  <2> HIDE DEF pl, ql
  <2>3. Len(ks) <= e /\ m <= m /\ j \in Nat \ {0} /\ \A i \in 1 .. j : T[i] = T[i]
    BY <1>3 DEF e
  <2>4. Turn(o, m, ls, e, T, pl, ql, j)
    BY <1>3, <1>6, <2>2, <2>3, TurnLasts
  <2> QED
    BY <2>1, <2>4 DEF pl, ql
<1>8. ASSUME NEW i \in 1 .. n PROVE Turn(o, m, ls, e, T, U[d + i - 1], U[d + i], d + i)
  <2>1. KeyTurn(o, m, sav, input, n, T, c, i)
    BY <1>2 DEF KeyTurns
  <2> DEFINE s == IF i = 1 /\ sav # Nowhere THEN sav ELSE T[d + i - 1]
             pl == U[d + i - 1]
             b  == [next |-> e + 1, frame |-> n - i, input |-> input, pos |-> c[i - 1]]
  <2>2. /\ i = 1 /\ sav = Nowhere => d > 0
        /\ IsNext(o, m, s, T[d + i])
        /\ \A p \in Ports :
               IF p \in Reads(s)
               THEN /\ c[i][p] = c[i - 1][p] + 1 /\ c[i][p] <= Len(input[p])
                    /\ input[p][c[i][p]] = T[d + i]
               ELSE c[i][p] = c[i - 1][p]
    BY <1>4, <2>1 DEF KeyTurn
  <2>3. /\ c[i] \in [Ports -> Nat] /\ c[i - 1] \in [Ports -> Nat]
        /\ c[0] = [p \in Ports |-> 0]
    <3>1. i \in 0 .. n /\ i - 1 \in 0 .. n
      OBVIOUS
    <3> QED
      BY <1>2, <3>1 DEF KeyTurns
  <2>4. /\ pl.frame > 0 \/ pl.next \in 1 .. e
        /\ pl.frame > 0 \/ ls[pl.next].sav = Nowhere => d + i > 1
        /\ From(ls, pl, T[d + i - 1]) = s
        /\ Begun(ls, pl) = b
    <3>1. CASE i = 1
      <4>1. pl = run[d] /\ pl.frame = 0 /\ pl.next = e
        <5>1. d + i - 1 = d /\ d \in 0 .. d
          BY <3>1
        <5> QED
          BY <1>1, <1>5, <5>1 DEF Runs, e
      <4>2. ls[pl.next] = k /\ i - 1 = 0
        BY <1>3, <3>1, <4>1
      <4>3. Begun(ls, pl) = b
        BY <2>3, <3>1, <4>1, <4>2 DEF Begun
      <4>4. From(ls, pl, T[d + i - 1]) = s
        BY <3>1, <4>1, <4>2 DEF From
      <4>5. sav = Nowhere => d + i > 1
        BY <2>2, <3>1
      <4>6. e \in 1 .. e
        BY <1>3 DEF e
      <4>7. ls[pl.next].sav = Nowhere => d + i > 1
        BY <4>2, <4>5
      <4> QED
        BY <4>1, <4>3, <4>4, <4>6, <4>7
    <3>2. CASE i # 1
      <4>1. pl = In(i - 1)
        <5>1. i - 1 \in 1 .. n /\ d + i - 1 = d + (i - 1)
          BY <3>2
        <5> QED
          BY <1>5, <5>1
      <4>2. /\ pl = [next |-> e + 1, frame |-> n - (i - 1), input |-> input, pos |-> c[i - 1]]
            /\ pl.frame = n - (i - 1) /\ n - (i - 1) > 0 /\ n - (i - 1) - 1 = n - i
        <5>1. n - (i - 1) > 0 /\ n - (i - 1) - 1 = n - i
          BY <1>4
        <5>2. pl = [next |-> e + 1, frame |-> n - (i - 1), input |-> input, pos |-> c[i - 1]]
          BY <4>1 DEF In
        <5> QED
          BY <5>1, <5>2
      <4>3. Begun(ls, pl) = b
        <5>1. Begun(ls, pl) = [pl EXCEPT !.frame = pl.frame - 1]
          BY <4>2 DEF Begun
        <5>2. pl.frame - 1 = n - i
          BY <4>2
        <5>3. Begun(ls, pl) = [pl EXCEPT !.frame = n - i]
          BY <5>1, <5>2
        <5> QED
          BY <4>2, <5>3, WithFrame
      <4>4. From(ls, pl, T[d + i - 1]) = s /\ d + i > 1
        BY <3>2, <4>2 DEF From
      <4> QED
        BY <4>2, <4>3, <4>4
    <3> QED
      BY <3>1, <3>2
  <2> HIDE DEF s, pl
  <2>5. \A p \in Reads(s) : Byte(b, p) = T[d + i]
    <3>1. ASSUME NEW p \in Reads(s) PROVE Byte(b, p) = T[d + i]
      <4>1. p \in Ports
        BY DEF Reads
      <4>2. /\ c[i][p] = c[i - 1][p] + 1 /\ c[i][p] <= Len(input[p])
            /\ input[p][c[i][p]] = T[d + i]
        BY <2>2, <4>1
      <4>3. c[i - 1][p] \in Nat /\ Len(input[p]) \in Nat
        BY <2>3, <4>1, LenProperties DEF InputType
      <4>4. c[i - 1][p] < Len(input[p]) /\ input[p][c[i - 1][p] + 1] = T[d + i]
        BY <4>2, <4>3, SMTT(30)
      <4> QED
        BY <4>4 DEF Byte
    <3> QED
      BY <3>1
  <2>6. U[d + i] = Turned(b, s)
    <3>1. c[i] = [p \in Ports |-> IF p \in Reads(s) THEN c[i - 1][p] + 1 ELSE c[i - 1][p]]
      BY <2>2, <2>3
    <3>2. U[d + i] = [next |-> e + 1, frame |-> n - i, input |-> input, pos |-> c[i]]
      BY <1>5 DEF In
    <3> QED
      BY <3>1, <3>2, SMTT(30) DEF Turned
  <2> HIDE DEF b
  <2> QED
    BY <2>2, <2>4, <2>5, <2>6 DEF Turn, pl
<1>9. U[Len(T)].frame = 0 /\ U[Len(T)].next = e + 1
  <2>1. n \in 1 .. n /\ n - n = 0
    BY <1>4
  <2>2. U[d + n] = In(n)
    BY <1>5, <2>1
  <2> QED
    BY <1>4, <2>1, <2>2 DEF In
<1>10. U[0] = IdlePlayer
  <2>1. 0 \in 0 .. d
    OBVIOUS
  <2> QED
    BY <1>1, <1>5, <2>1 DEF Runs
<1>11. ASSUME NEW j \in 1 .. Len(T) PROVE Turn(o, m, ls, e, T, U[j - 1], U[j], j)
  <2>1. CASE j <= d
    <3>1. j \in 1 .. d
      BY <2>1
    <3> QED
      BY <1>7, <3>1
  <2>2. CASE ~(j <= d)
    <3>1. j - d \in 1 .. n /\ d + (j - d) = j /\ d + (j - d) - 1 = j - 1
      BY <1>4, <2>2
    <3> QED
      BY <1>8, <3>1
  <2> QED
    BY <2>1, <2>2
<1>12. Runs(o, m, ls, e, T, Len(T), U)
  BY <1>9, <1>10, <1>11 DEF Runs
<1> QED
  BY <1>12 DEF Held, ls, e

\* A frame of a key stays what it is when states and frames are added.
LEMMA KeyTurnLasts ==
    ASSUME NEW o, NEW p, NEW m \in Nat, NEW l \in Nat, m <= l,
           Len(o) \in Nat, Len(p) \in Nat, Grows(o, p, m),
           NEW sav, NEW in \in InputType, NEW out \in InputType,
           \A q \in Ports : /\ Len(out[q]) >= Len(in[q])
                            /\ \A x \in 1 .. Len(in[q]) : out[q][x] = in[q][x],
           NEW T, NEW U, NEW n \in Nat, NEW k \in Nat, Len(T) \in Nat, Len(U) \in Nat,
           n <= Len(T), Len(U) - k = Len(T) - n, \A x \in 1 .. Len(T) : U[x] = T[x],
           NEW c, NEW b, NEW i \in 1 .. n, c[i] \in [Ports -> Nat], c[i - 1] \in [Ports -> Nat],
           b[i] = c[i], b[i - 1] = c[i - 1],
           KeyTurn(o, m, sav, in, n, T, c, i)
    PROVE  KeyTurn(p, l, sav, out, k, U, b, i)
<1> DEFINE d == Len(T) - n
           s == IF i = 1 /\ sav # Nowhere THEN sav ELSE T[d + i - 1]
           r == IF i = 1 /\ sav # Nowhere THEN sav ELSE U[d + i - 1]
<1>1. /\ i = 1 /\ sav = Nowhere => d > 0
      /\ IsNext(o, m, s, T[d + i])
      /\ \A q \in Ports :
             IF q \in Reads(s)
             THEN /\ c[i][q] = c[i - 1][q] + 1 /\ c[i][q] <= Len(in[q])
                  /\ in[q][c[i][q]] = T[d + i]
             ELSE c[i][q] = c[i - 1][q]
  BY DEF KeyTurn
<1>2. U[d + i] = T[d + i]
  <2>1. d + i \in 1 .. Len(T)
    OBVIOUS
  <2> QED
    BY <2>1
<1>3. r = s
  <2>1. CASE i = 1 /\ sav # Nowhere
    BY <2>1
  <2>2. CASE ~(i = 1 /\ sav # Nowhere)
    <3>1. d + i - 1 \in 1 .. Len(T)
      BY <1>1, <2>2
    <3> QED
      BY <2>2, <3>1
  <2> QED
    BY <2>1, <2>2
<1>4. IsNext(p, l, s, T[d + i])
  BY <1>1, NextLasts
<1> HIDE DEF s
<1>5. ASSUME NEW q \in Ports
      PROVE  IF q \in Reads(s)
             THEN /\ b[i][q] = b[i - 1][q] + 1 /\ b[i][q] <= Len(out[q])
                  /\ out[q][b[i][q]] = T[d + i]
             ELSE b[i][q] = b[i - 1][q]
  <2>1. CASE q \in Reads(s)
    <3>1. /\ c[i][q] = c[i - 1][q] + 1 /\ c[i][q] <= Len(in[q])
          /\ in[q][c[i][q]] = T[d + i]
      BY <1>1, <2>1
    <3>2. /\ c[i - 1][q] \in Nat /\ Len(in[q]) \in Nat /\ Len(out[q]) \in Nat
          /\ Len(out[q]) >= Len(in[q])
      BY LenProperties DEF InputType
    <3>3. c[i][q] \in 1 .. Len(in[q])
      BY <3>1, <3>2, SMTT(30)
    <3>4. out[q][c[i][q]] = in[q][c[i][q]]
      BY <3>3
    <3>5. c[i][q] <= Len(out[q])
      BY <3>2, <3>3, SMTT(30)
    <3> QED
      BY <2>1, <3>1, <3>4, <3>5
  <2>2. CASE q \notin Reads(s)
    BY <1>1, <2>2
  <2> QED
    BY <2>1, <2>2
<1> HIDE DEF d, r
<1>6. Len(U) - k = d
  BY DEF d
<1> QED
  BY <1>1, <1>2, <1>3, <1>4, <1>5, <1>6 DEF KeyTurn, r

LEMMA KeyedLasts ==
    ASSUME NEW o, NEW p, NEW m \in Nat, NEW l \in Nat, m <= l,
           Len(o) \in Nat, Len(p) \in Nat, Grows(o, p, m),
           NEW sav, NEW in \in InputType, NEW T, NEW n \in Nat, Len(T) \in Nat, n <= Len(T),
           Keyed(o, m, sav, in, n, T)
    PROVE  Keyed(p, l, sav, in, n, T)
<1>1. PICK c : KeyTurns(o, m, sav, in, n, T, c)
  BY DEF Keyed
<1>2. ASSUME NEW i \in 1 .. n PROVE KeyTurn(p, l, sav, in, n, T, c, i)
  <2>1. i \in 0 .. n /\ i - 1 \in 0 .. n
    OBVIOUS
  <2>2. c[i] \in [Ports -> Nat] /\ c[i - 1] \in [Ports -> Nat]
    BY <1>1, <2>1 DEF KeyTurns
  <2>3. \A q \in Ports : Len(in[q]) >= Len(in[q])
    BY LenProperties DEF InputType
  <2>4. KeyTurn(o, m, sav, in, n, T, c, i)
    BY <1>1 DEF KeyTurns
  <2> QED
    BY <2>2, <2>3, <2>4, KeyTurnLasts
<1>3. KeyTurns(p, l, sav, in, n, T, c)
  BY <1>1, <1>2 DEF KeyTurns
<1> QED
  BY <1>3 DEF Keyed

\* What is read in a frame is kept.
WithRead(in, s, t) == [p \in Ports |-> IF p \in Reads(s) THEN Append(in[p], t) ELSE in[p]]

LEMMA WithReadIs ==
    ASSUME NEW in \in InputType, NEW s, NEW t \in States
    PROVE  /\ WithRead(in, s, t) \in InputType
           /\ \A p \in Ports :
                  /\ Len(in[p]) \in Nat
                  /\ Len(WithRead(in, s, t)[p]) = IF p \in Reads(s) THEN Len(in[p]) + 1 ELSE Len(in[p])
                  /\ p \in Reads(s) => WithRead(in, s, t)[p][Len(in[p]) + 1] = t
                  /\ \A x \in 1 .. Len(in[p]) : WithRead(in, s, t)[p][x] = in[p][x]
<1> DEFINE out == WithRead(in, s, t)
<1>1. ASSUME NEW p \in Ports
      PROVE  /\ out[p] \in Seq(States) /\ Len(in[p]) \in Nat
             /\ Len(out[p]) = IF p \in Reads(s) THEN Len(in[p]) + 1 ELSE Len(in[p])
             /\ p \in Reads(s) => out[p][Len(in[p]) + 1] = t
             /\ \A x \in 1 .. Len(in[p]) : out[p][x] = in[p][x]
  <2>1. in[p] \in Seq(States) /\ Len(in[p]) \in Nat
    BY LenProperties DEF InputType
  <2>2. CASE p \in Reads(s)
    <3>1. out[p] = Append(in[p], t)
      BY <2>2 DEF WithRead
    <3> HIDE DEF out
    <3> QED
      BY <2>1, <2>2, <3>1, AppendProperties
  <2>3. CASE p \notin Reads(s)
    <3>1. out[p] = in[p]
      BY <2>3 DEF WithRead
    <3> HIDE DEF out
    <3> QED
      BY <2>1, <2>3, <3>1
  <2> QED
    BY <2>2, <2>3
<1>2. out \in InputType
  <2>1. out = [p \in Ports |-> out[p]]
    BY DEF WithRead
  <2> HIDE DEF out
  <2> QED
    BY <1>1, <2>1 DEF InputType
<1> QED
  BY <1>1, <1>2

\* A key is begun with a frame.
LEMMA KeyBegins ==
    ASSUME NEW o, NEW m \in Nat, Len(o) \in Nat,
           NEW sav \in {Nowhere} \cup States, NEW T \in Seq(States), NEW s, NEW t \in States,
           s = (IF sav # Nowhere THEN sav ELSE T[Len(T)]),
           sav = Nowhere => Len(T) > 0,
           IsNext(o, m, s, t)
    PROVE  Keyed(o, m, sav, WithRead(NoInput, s, t), 1, Append(T, t))
<1> DEFINE in == WithRead(NoInput, s, t)
           U == Append(T, t)
           c == [i \in 0 .. 1 |-> [p \in Ports |-> IF i = 1 /\ p \in Reads(s) THEN 1 ELSE 0]]
<1>1. /\ Len(T) \in Nat /\ Len(U) = Len(T) + 1 /\ U[Len(T) + 1] = t
      /\ \A x \in 1 .. Len(T) : U[x] = T[x]
  BY LenProperties, AppendProperties
<1>2. NoInput \in InputType /\ \A p \in Ports : Len(NoInput[p]) = 0
  <2>1. << >> \in Seq(States) /\ Len(<< >>) = 0
    BY EmptySeq
  <2> QED
    BY <2>1 DEF NoInput, InputType
<1>3. \A p \in Ports : /\ Len(in[p]) = IF p \in Reads(s) THEN 1 ELSE 0
                       /\ p \in Reads(s) => in[p][1] = t
  <2>1. \A p \in Ports :
           /\ Len(in[p]) = IF p \in Reads(s) THEN Len(NoInput[p]) + 1 ELSE Len(NoInput[p])
           /\ p \in Reads(s) => in[p][Len(NoInput[p]) + 1] = t
    BY <1>2, WithReadIs
  <2> HIDE DEF in
  <2> QED
    BY <1>2, <2>1
<1> HIDE DEF in, U
<1>4. /\ c \in [0 .. 1 -> [Ports -> Nat]] /\ c[0] = [p \in Ports |-> 0]
      /\ \A p \in Ports : c[0][p] = 0 /\ c[1][p] = IF p \in Reads(s) THEN 1 ELSE 0
  OBVIOUS
<1> HIDE DEF c
<1>5. KeyTurn(o, m, sav, in, 1, U, c, 1)
  <2>1. Len(U) - 1 = Len(T) /\ Len(T) + 1 - 1 = Len(T) /\ 1 - 1 = 0
    BY <1>1
  <2>2. (IF sav # Nowhere THEN sav ELSE U[Len(T)]) = s
    <3>1. sav = Nowhere => U[Len(T)] = T[Len(T)]
      BY <1>1
    <3> QED
      BY <3>1
  <2>3. ASSUME NEW p \in Ports
        PROVE  IF p \in Reads(s)
               THEN c[1][p] = c[0][p] + 1 /\ c[1][p] <= Len(in[p]) /\ in[p][c[1][p]] = t
               ELSE c[1][p] = c[0][p]
    BY <1>3, <1>4
  <2> QED
    BY <1>1, <2>1, <2>2, <2>3 DEF KeyTurn
<1>6. \A i \in 1 .. 1 : KeyTurn(o, m, sav, in, 1, U, c, i)
  BY <1>5
<1>7. \A p \in Ports : c[1][p] = Len(in[p])
  BY <1>3, <1>4
<1>8. KeyTurns(o, m, sav, in, 1, U, c)
  BY <1>4, <1>6, <1>7 DEF KeyTurns
<1> QED
  BY <1>8 DEF Keyed, in, U

\* A frame is added to it.
LEMMA KeyGoesOn ==
    ASSUME NEW o, NEW p, NEW m \in Nat, NEW l \in Nat, m <= l,
           Len(o) \in Nat, Len(p) \in Nat, Grows(o, p, m),
           NEW sav, NEW in \in InputType, NEW T \in Seq(States), NEW n \in Nat \ {0}, n <= Len(T),
           Keyed(o, m, sav, in, n, T), NEW t \in States, IsNext(p, l, T[Len(T)], t)
    PROVE  Keyed(p, l, sav, WithRead(in, T[Len(T)], t), n + 1, Append(T, t))
<1> DEFINE s == T[Len(T)]
           out == WithRead(in, s, t)
           U == Append(T, t)
<1>1. /\ Len(T) \in Nat /\ Len(U) = Len(T) + 1 /\ U[Len(T) + 1] = t
      /\ \A x \in 1 .. Len(T) : U[x] = T[x]
  BY LenProperties, AppendProperties
<1>2. /\ out \in InputType
      /\ \A q \in Ports :
             /\ Len(in[q]) \in Nat
             /\ Len(out[q]) = IF q \in Reads(s) THEN Len(in[q]) + 1 ELSE Len(in[q])
             /\ q \in Reads(s) => out[q][Len(in[q]) + 1] = t
             /\ \A x \in 1 .. Len(in[q]) : out[q][x] = in[q][x]
  BY WithReadIs
<1> HIDE DEF s, out, U
<1>3. PICK c : KeyTurns(o, m, sav, in, n, T, c)
  BY DEF Keyed
<1> DEFINE b == [i \in 0 .. n + 1 |-> IF i <= n THEN c[i] ELSE [q \in Ports |-> Len(out[q])]]
<1>4. /\ b \in [0 .. n + 1 -> [Ports -> Nat]]
      /\ \A i \in 0 .. n : b[i] = c[i] /\ c[i] \in [Ports -> Nat]
      /\ b[n + 1] = [q \in Ports |-> Len(out[q])]
      /\ c[0] = [q \in Ports |-> 0]
      /\ \A q \in Ports : c[n][q] = Len(in[q])
  <2>1. /\ \A i \in 0 .. n : c[i] \in [Ports -> Nat]
        /\ c[0] = [q \in Ports |-> 0]
        /\ \A q \in Ports : c[n][q] = Len(in[q])
    BY <1>3 DEF KeyTurns
  <2>2. [q \in Ports |-> Len(out[q])] \in [Ports -> Nat]
    BY <1>2
  <2>3. ~(n + 1 <= n) /\ n + 1 \in 0 .. n + 1
    OBVIOUS
  <2>4. \A i \in 0 .. n + 1 : b[i] \in [Ports -> Nat]
    <3>1. \A i \in 0 .. n + 1 : i <= n => i \in 0 .. n
      OBVIOUS
    <3> QED
      BY <2>1, <2>2, <3>1
  <2>5. b \in [0 .. n + 1 -> [Ports -> Nat]]
    BY <2>4
  <2>6. \A i \in 0 .. n : b[i] = c[i]
    OBVIOUS
  <2>7. b[n + 1] = [q \in Ports |-> Len(out[q])]
    BY <2>3
  <2> QED
    BY <2>1, <2>5, <2>6, <2>7
<1> HIDE DEF b
<1>5. Len(U) - (n + 1) = Len(T) - n
  BY <1>1
<1>6. ASSUME NEW i \in 1 .. n PROVE KeyTurn(p, l, sav, out, n + 1, U, b, i)
  <2>1. i \in 0 .. n /\ i - 1 \in 0 .. n
    OBVIOUS
  <2>2. /\ b[i] = c[i] /\ b[i - 1] = c[i - 1]
        /\ c[i] \in [Ports -> Nat] /\ c[i - 1] \in [Ports -> Nat]
    BY <1>4, <2>1
  <2>3. KeyTurn(o, m, sav, in, n, T, c, i)
    BY <1>3 DEF KeyTurns
  <2>4. \A q \in Ports : /\ Len(out[q]) >= Len(in[q])
                         /\ \A x \in 1 .. Len(in[q]) : out[q][x] = in[q][x]
    <3>1. ASSUME NEW q \in Ports PROVE Len(out[q]) >= Len(in[q])
      <4>1. Len(in[q]) \in Nat
        BY <1>2
      <4>2. Len(out[q]) = Len(in[q]) + 1 \/ Len(out[q]) = Len(in[q])
        BY <1>2
      <4> QED
        BY <4>1, <4>2
    <3>2. \A q \in Ports : \A x \in 1 .. Len(in[q]) : out[q][x] = in[q][x]
      BY <1>2
    <3> QED
      BY <3>1, <3>2
  <2>5. n + 1 \in Nat /\ Len(U) \in Nat
    BY <1>1
  <2>6. PICK k \in Nat : k = n + 1
    BY <2>5
  <2>7. Len(U) - k = Len(T) - n
    BY <1>5, <2>6
  <2>8. KeyTurn(p, l, sav, out, k, U, b, i)
    BY <1>1, <1>2, <2>2, <2>3, <2>4, <2>5, <2>7, KeyTurnLasts, ZenonT(40)
  <2> QED
    BY <2>6, <2>8
<1>7. KeyTurn(p, l, sav, out, n + 1, U, b, n + 1)
  <2> DEFINE d == Len(T) - n
  <2>1. /\ d + (n + 1) = Len(T) + 1 /\ d + (n + 1) - 1 = Len(T) /\ n + 1 # 1 /\ n + 1 - 1 = n
        /\ n \in 0 .. n /\ Len(T) \in 1 .. Len(T)
    BY <1>1
  <2>2. U[d + (n + 1) - 1] = s /\ U[d + (n + 1)] = t
    BY <1>1, <2>1 DEF s
  <2>3. ASSUME NEW q \in Ports
        PROVE  IF q \in Reads(s)
               THEN /\ b[n + 1][q] = b[n][q] + 1 /\ b[n + 1][q] <= Len(out[q])
                    /\ out[q][b[n + 1][q]] = t
               ELSE b[n + 1][q] = b[n][q]
    <3>1. b[n][q] = Len(in[q]) /\ b[n + 1][q] = Len(out[q])
      BY <1>4, <2>1
    <3>2. Len(out[q]) = (IF q \in Reads(s) THEN Len(in[q]) + 1 ELSE Len(in[q])) /\ Len(in[q]) \in Nat
      BY <1>2
    <3>3. q \in Reads(s) => out[q][Len(in[q]) + 1] = t
      BY <1>2
    <3> QED
      BY <3>1, <3>2, <3>3
  <2>4. IsNext(p, l, s, t)
    BY DEF s
  <2> HIDE DEF d
  <2>5. Len(U) - (n + 1) = d
    BY <1>5 DEF d
  <2> QED
    BY <2>1, <2>2, <2>3, <2>4, <2>5 DEF KeyTurn
<1>8. ASSUME NEW i \in 1 .. n + 1 PROVE KeyTurn(p, l, sav, out, n + 1, U, b, i)
  <2>1. i \in 1 .. n \/ i = n + 1
    OBVIOUS
  <2> QED
    BY <1>6, <1>7, <2>1
<1>9. /\ b[0] = [q \in Ports |-> 0] /\ \A q \in Ports : b[n + 1][q] = Len(out[q])
  <2>1. 0 \in 0 .. n
    OBVIOUS
  <2> QED
    BY <1>4, <2>1
<1>10. KeyTurns(p, l, sav, out, n + 1, U, b)
  BY <1>4, <1>8, <1>9 DEF KeyTurns
<1> QED
  BY <1>10 DEF Keyed, out, U, s

\* The file holds what was recorded and stopped.
TapeInv ==
    IF file.length = Unclosed THEN tape = << >>
    ELSE /\ file.length \in 0 .. Len(file.keys)
         /\ Held(origin, taped, file.keys, file.length, tape, Len(tape))

Reel == tape \o session

\* The keys that were written and the one that is recorded hold the rest.
RecInv ==
    movie = "recording" /\ recorder.frame # BadFrame =>
        /\ recorder.frame \in 0 .. Len(Reel)
        /\ recorder.frame = 0 => recorder.resync
        /\ ~recorder.resync => Len(Reel) > 0 /\ now = Reel[Len(Reel)]
        /\ recorder.inside =>
              /\ Held(origin, taped, file.keys, Len(file.keys), Reel, Len(Reel) - recorder.frame)
              /\ Keyed(origin, taped, recorder.sav, recorder.input, recorder.frame, Reel)

\* The player has come as far as the tape.
PlayInv ==
    /\ movie # "playing" => played = 0
    /\ movie = "playing" =>
          /\ played \in 0 .. Len(tape)
          /\ IF file.length = Unclosed THEN player = IdlePlayer
             ELSE \E run : /\ Runs(origin, taped, file.keys, file.length, tape, Len(tape), run)
                           /\ player = run[played]
          /\ played > 0 => on /\ now = tape[played] /\ shown = now

MovieInv == TapeInv /\ RecInv /\ PlayInv

LEMMA MovieTypes ==
    ASSUME MovieTypeOK
    PROVE  /\ file.keys \in Seq(KeyOfFile) /\ Len(file.keys) \in Nat
           /\ file.length \in {Unclosed} \cup Nat /\ file.header \in BOOLEAN
           /\ recorder.frame \in {BadFrame} \cup Nat /\ recorder.input \in InputType
           /\ recorder.sav \in {Nowhere} \cup States /\ recorder.resync \in BOOLEAN
           /\ recorder.inside \in BOOLEAN
           /\ Reel \in Seq(States) /\ Len(Reel) = Len(tape) + Len(session)
           /\ Len(tape) \in Nat /\ Len(session) \in Nat /\ Len(Reel) \in Nat
           /\ \A i \in 1 .. Len(tape) : Reel[i] = tape[i]
<1>1. /\ file \in [header : BOOLEAN, length : {Unclosed} \cup Nat, keys : Seq(KeyOfFile)]
      /\ recorder \in [resync : BOOLEAN, frame : {BadFrame} \cup Nat, input : InputType,
                       sav : {Nowhere} \cup States, inside : BOOLEAN]
      /\ tape \in Seq(States) /\ session \in Seq(States)
  BY DEF MovieTypeOK
<1>2. /\ file.keys \in Seq(KeyOfFile) /\ file.length \in {Unclosed} \cup Nat /\ file.header \in BOOLEAN
  BY <1>1
<1>3. /\ recorder.frame \in {BadFrame} \cup Nat /\ recorder.input \in InputType
      /\ recorder.sav \in {Nowhere} \cup States /\ recorder.resync \in BOOLEAN
      /\ recorder.inside \in BOOLEAN
  BY <1>1
<1>4. /\ Reel \in Seq(States) /\ Len(Reel) = Len(tape) + Len(session)
      /\ Len(tape) \in Nat /\ Len(session) \in Nat
      /\ \A i \in 1 .. Len(tape) : Reel[i] = tape[i]
  BY <1>1, ConcatProperties, LenProperties DEF Reel
<1> QED
  BY <1>2, <1>3, <1>4, LenProperties

\* What the recorder makes the machine do is what it would do again.
LEMMA RecordedFrameIs ==
    ASSUME GameTypeOK, GameInv, RecordedFrame, taped' = Len(origin')
    PROVE  /\ GameTypeOK' /\ GameInv' /\ shown' = now' /\ now' \in States
           /\ Grows(origin, origin', Len(origin)) /\ Len(origin') >= Len(origin)
           /\ IsNext(origin', taped', now, now')
<1> DEFINE next == IF Reads(now) = {} /\ Following(now) # {}
                   THEN CHOOSE t \in Following(now) : \A u \in Following(now) : t <= u
                   ELSE NewState
<1>1. /\ next \in States /\ now' = next /\ shown' = next
      /\ origin' = IF next = NewState THEN Append(origin, now) ELSE origin
  BY DEF RecordedFrame
<1>2. /\ Len(origin) \in Nat /\ now \in 1 .. Len(origin) /\ NewState = Len(origin) + 1
      /\ Len(origin) \in 1 .. MaxStates /\ MaxStates \in Nat /\ GameTypeOK
      /\ \A t \in Following(now) : t \in 1 .. Len(origin) /\ origin[t] = now
      /\ \A t \in 1 .. Len(origin) : origin[t] = now => t \in Following(now)
  BY OriginIs, Sizes DEF GameInv, NewState, Following
<1>3. CASE Reads(now) = {} /\ Following(now) # {}
  <2>1. \E t \in Following(now) : \A u \in Following(now) : t <= u
    <3>1. Following(now) \subseteq Nat
      BY <1>2
    <3> QED
      BY <1>3, <3>1, LeastOf
  <2>2. next \in Following(now) /\ \A u \in Following(now) : next <= u
    BY <1>3, <2>1
  <2> HIDE DEF next
  <2>3. origin' = origin /\ next \in 1 .. Len(origin) /\ origin[next] = now
    BY <1>1, <1>2, <2>2
  <2>4. \A u \in 1 .. Len(origin) : origin[u] = now => next <= u
    BY <1>2, <2>2
  <2>5. IsNext(origin, Len(origin), now, next)
    BY <2>3, <2>4 DEF IsNext
  <2>6. Grows(origin, origin, Len(origin))
    BY <1>2 DEF Grows
  <2>7. GameTypeOK' /\ GameInv'
    BY <1>1, <1>2, <2>3 DEF GameTypeOK, GameInv
  <2> QED
    BY <1>1, <1>2, <2>3, <2>5, <2>6, <2>7
<1>4. CASE ~(Reads(now) = {} /\ Following(now) # {})
  <2>1. next = NewState
    BY <1>4
  <2> HIDE DEF next
  <2>2. PlayFrom(now)
    BY <1>1, <2>1 DEF PlayFrom
  <2>3. /\ now' = NewState /\ shown' = NewState /\ NewState \in States
        /\ Len(origin') = NewState /\ origin' \in Seq({Nowhere} \cup States)
        /\ origin'[NewState] = now
        /\ Grows(origin, origin', Len(origin))
        /\ \A t \in 1 .. Len(origin') : origin'[t] \in 0 .. t - 1
    BY <1>1, <1>2, <2>1, <2>2, PlayIs
  <2>4. GameTypeOK' /\ GameInv'
    <3>1. Len(origin') \in 1 .. MaxStates
      BY <2>3 DEF States
    <3>2. now' \in 1 .. Len(origin') /\ shown' \in 1 .. Len(origin') /\ taped' \in 1 .. Len(origin')
      BY <1>2, <2>3
    <3> QED
      BY <2>3, <3>1, <3>2 DEF GameTypeOK, GameInv
  <2>5. ASSUME Reads(now) = {}, NEW u \in 1 .. Len(origin'), origin'[u] = now PROVE NewState <= u
    <3>1. CASE u <= Len(origin)
      <4>1. u \in 1 .. Len(origin) /\ origin[u] = now
        BY <1>2, <2>3, <2>5, <3>1 DEF Grows
      <4> QED
        BY <1>2, <1>4, <2>5, <4>1
    <3>2. CASE ~(u <= Len(origin))
      BY <1>2, <2>3, <3>2
    <3> QED
      BY <3>1, <3>2
  <2>6. IsNext(origin', taped', now, now')
    <3>1. NewState \in 1 .. taped'
      BY <1>2, <2>3
    <3> QED
      BY <2>3, <2>5, <3>1 DEF IsNext
  <2>7. now' \in States /\ shown' = now' /\ Len(origin') >= Len(origin)
    BY <1>2, <2>3
  <2> QED
    BY <2>3, <2>4, <2>6, <2>7
<1> QED
  BY <1>3, <1>4

\* The file holds it as long as the states up to taped stay what they are.
LEMMA TapeLasts ==
    ASSUME MovieTypeOK, GameTypeOK, GameInv, TapeInv,
           Grows(origin, origin', taped), Len(origin') \in Nat, taped' \in Nat, taped' >= taped,
           file'.length = file.length, tape' = tape, Len(file'.keys) \in Nat,
           file.length # Unclosed =>
               /\ file.length <= Len(file'.keys)
               /\ \A i \in 1 .. file.length : file'.keys[i] = file.keys[i]
    PROVE  TapeInv'
<1>1. CASE file.length = Unclosed
  BY <1>1 DEF TapeInv
<1>2. CASE file.length # Unclosed
  <2>1. /\ file.length \in 0 .. Len(file.keys) /\ Len(file.keys) \in Nat /\ Len(tape) \in Nat
        /\ Held(origin, taped, file.keys, file.length, tape, Len(tape))
    BY <1>2, MovieTypes DEF TapeInv
  <2>2. PICK run : Runs(origin, taped, file.keys, file.length, tape, Len(tape), run)
    BY <2>1 DEF Held
  <2>3. Len(origin) \in Nat /\ taped \in Nat /\ file.length \in Nat
        /\ \A i \in 1 .. Len(tape) : tape[i] = tape[i]
    BY <2>1, OriginIs DEF GameInv
  <2>4. Held(origin', taped', file'.keys, file.length, tape, Len(tape))
    BY <1>2, <2>1, <2>2, <2>3, HeldLasts
  <2>5. file'.length \in 0 .. Len(file'.keys)
    BY <1>2, <2>3
  <2> QED
    BY <1>2, <2>4, <2>5 DEF TapeInv
<1> QED
  BY <1>1, <1>2

\* It goes on as it was, perhaps from a new state.
LEMMA MovieStays ==
    ASSUME MovieTypeOK, GameTypeOK, GameInv, MovieInv,
           Grows(origin, origin', taped), Len(origin') \in Nat,
           UNCHANGED <<taped, movie, player, file, tape, session, played, faults>>,
           recorder' = recorder \/ recorder' = [recorder EXCEPT !.resync = TRUE],
           movie = "recording" => recorder'.resync \/ now' = now,
           movie = "playing" /\ played > 0 => on' /\ now' = now /\ shown' = shown
    PROVE  MovieTypeOK' /\ MovieInv'
<1>1. /\ Len(origin) \in Nat /\ taped \in Nat /\ taped' = taped /\ taped <= taped
      /\ file' = file /\ tape' = tape /\ session' = session /\ Reel' = Reel
  BY OriginIs DEF GameInv, Reel
<1>2. /\ Len(file.keys) \in Nat /\ Len(Reel) \in Nat /\ Len(tape) \in Nat
      /\ recorder.input \in InputType /\ file.length \in {Unclosed} \cup Nat
      /\ recorder.frame \in {BadFrame} \cup Nat /\ recorder.resync \in BOOLEAN
  BY MovieTypes
<1>3. /\ recorder'.frame = recorder.frame /\ recorder'.sav = recorder.sav
      /\ recorder'.input = recorder.input /\ recorder'.inside = recorder.inside
      /\ recorder'.resync \in BOOLEAN /\ (recorder.resync => recorder'.resync)
      /\ recorder' \in [resync : BOOLEAN, frame : {BadFrame} \cup Nat, input : InputType,
                        sav : {Nowhere} \cup States, inside : BOOLEAN]
  BY DEF MovieTypeOK
<1>4. MovieTypeOK'
  BY <1>1, <1>3 DEF MovieTypeOK
<1>5. TapeInv'
  <2>1. file.length # Unclosed => file.length <= Len(file.keys)
    BY <1>2 DEF MovieInv, TapeInv
  <2> QED
    BY <1>1, <1>2, <2>1, TapeLasts DEF MovieInv
<1>6. RecInv'
  <2> SUFFICES ASSUME movie = "recording", recorder.frame # BadFrame PROVE RecInv'
    BY <1>3 DEF RecInv
  <2>1. /\ recorder.frame \in 0 .. Len(Reel)
        /\ recorder.frame = 0 => recorder.resync
        /\ ~recorder.resync => Len(Reel) > 0 /\ now = Reel[Len(Reel)]
        /\ recorder.inside =>
              /\ Held(origin, taped, file.keys, Len(file.keys), Reel, Len(Reel) - recorder.frame)
              /\ Keyed(origin, taped, recorder.sav, recorder.input, recorder.frame, Reel)
    BY DEF MovieInv, RecInv
  <2>2. ~recorder'.resync => Len(Reel) > 0 /\ now' = Reel[Len(Reel)]
    BY <1>3, <2>1
  <2>3. ASSUME recorder.inside
        PROVE  /\ Held(origin', taped, file.keys, Len(file.keys), Reel, Len(Reel) - recorder.frame)
               /\ Keyed(origin', taped, recorder.sav, recorder.input, recorder.frame, Reel)
    <3> DEFINE d == Len(Reel) - recorder.frame
    <3>1. d \in Nat /\ recorder.frame \in Nat /\ recorder.frame <= Len(Reel)
      BY <1>2, <2>1
    <3>2. PICK run : Runs(origin, taped, file.keys, Len(file.keys), Reel, d, run)
      BY <2>1, <2>3 DEF Held
    <3>3. \A i \in 1 .. d : Reel[i] = Reel[i]
      OBVIOUS
    <3> HIDE DEF d
    <3>4. Held(origin', taped, file.keys, Len(file.keys), Reel, d)
      BY <1>1, <1>2, <3>1, <3>2, <3>3, HeldLasts
    <3>5. Keyed(origin', taped, recorder.sav, recorder.input, recorder.frame, Reel)
      BY <1>1, <1>2, <2>1, <2>3, <3>1, KeyedLasts
    <3> QED
      BY <3>4, <3>5 DEF d
  <2> QED
    BY <1>1, <1>3, <2>1, <2>2, <2>3 DEF RecInv
<1>7. PlayInv'
  <2>1. movie' # "playing" => played' = 0
    BY DEF MovieInv, PlayInv
  <2>2. ASSUME movie = "playing"
        PROVE /\ played \in 0 .. Len(tape)
              /\ IF file.length = Unclosed THEN player = IdlePlayer
                 ELSE \E run : /\ Runs(origin', taped, file.keys, file.length, tape, Len(tape), run)
                               /\ player = run[played]
              /\ played > 0 => on' /\ now' = tape[played] /\ shown' = now'
    <3>1. /\ played \in 0 .. Len(tape)
          /\ file.length = Unclosed => player = IdlePlayer
          /\ file.length # Unclosed =>
               \E run : /\ Runs(origin, taped, file.keys, file.length, tape, Len(tape), run)
                        /\ player = run[played]
          /\ played > 0 => on /\ now = tape[played] /\ shown = now
      BY <2>2 DEF MovieInv, PlayInv
    <3>2. ASSUME file.length # Unclosed
          PROVE  \E run : /\ Runs(origin', taped, file.keys, file.length, tape, Len(tape), run)
                          /\ player = run[played]
      <4>1. PICK run : /\ Runs(origin, taped, file.keys, file.length, tape, Len(tape), run)
                       /\ player = run[played]
        BY <3>1, <3>2
      <4>2. file.length \in Nat /\ \A i \in 1 .. Len(tape) : tape[i] = tape[i]
        BY <1>2, <3>2
      <4>3. Runs(origin', taped, file.keys, file.length, tape, Len(tape), run)
        BY <1>1, <1>2, <4>1, <4>2, HeldLasts
      <4> QED
        BY <4>1, <4>3
    <3>3. played > 0 => on' /\ now' = tape[played] /\ shown' = now'
      BY <2>2, <3>1
    <3> QED
      BY <3>1, <3>2, <3>3
  <2> QED
    BY <1>1, <2>1, <2>2 DEF PlayInv
<1> QED
  BY <1>4, <1>5, <1>6, <1>7 DEF MovieInv

LEMMA IdleTypes ==
    /\ IdleRecorder \in [resync : BOOLEAN, frame : {BadFrame} \cup Nat, input : InputType,
                         sav : {Nowhere} \cup States, inside : BOOLEAN]
    /\ IdlePlayer \in [next : Nat, frame : Nat, input : InputType, pos : [Ports -> Nat]]
    /\ NoInput \in InputType
<1>1. NoInput \in InputType
  <2>1. << >> \in Seq(States)
    BY EmptySeq
  <2> QED
    BY <2>1 DEF NoInput, InputType
<1> QED
  BY <1>1 DEF IdleRecorder, IdlePlayer

\* There is none any longer.
LEMMA IdleKeeps ==
    ASSUME MovieTypeOK, GameTypeOK, GameInv, TapeInv, Idle,
           Grows(origin, origin', taped), Len(origin') \in Nat,
           UNCHANGED <<taped, file, tape>>, faults' \in 0 .. MaxFaults
    PROVE  MovieTypeOK' /\ MovieInv'
<1>1. /\ movie' = "none" /\ recorder' = IdleRecorder /\ player' = IdlePlayer
      /\ session' = << >> /\ played' = 0
  BY DEF Idle
<1>2. << >> \in Seq(States)
  BY EmptySeq
<1>3. MovieTypeOK'
  BY <1>1, <1>2, IdleTypes DEF MovieTypeOK
<1>4. TapeInv'
  <2>1. /\ file.length # Unclosed => file.length <= Len(file.keys)
        /\ Len(file.keys) \in Nat /\ taped \in Nat /\ taped >= taped
    BY MovieTypes DEF TapeInv, GameInv
  <2> QED
    BY <2>1, TapeLasts
<1>5. RecInv' /\ PlayInv'
  BY <1>1 DEF RecInv, PlayInv
<1> QED
  BY <1>3, <1>4, <1>5 DEF MovieInv

\* The key that is recorded is ended.
LEMMA EndKeyIs ==
    ASSUME MovieTypeOK, GameTypeOK, GameInv, RecInv,
           movie = "recording", recorder.frame # BadFrame
    PROVE  /\ EndKey(recorder) \in Seq(KeyOfFile)
           /\ Len(EndKey(recorder)) \in Nat /\ Len(EndKey(recorder)) >= Len(file.keys)
           /\ \A i \in 1 .. Len(file.keys) : EndKey(recorder)[i] = file.keys[i]
           /\ recorder.inside =>
                 Held(origin, taped, EndKey(recorder), Len(EndKey(recorder)), Reel, Len(Reel))
<1>1. /\ file.keys \in Seq(KeyOfFile) /\ Len(file.keys) \in Nat
      /\ recorder.input \in InputType /\ recorder.sav \in {Nowhere} \cup States
      /\ Len(Reel) \in Nat /\ recorder.frame \in Nat
      /\ Len(origin) \in Nat /\ taped \in Nat /\ taped <= Len(origin)
  BY MovieTypes, OriginIs DEF GameInv
<1>2. /\ recorder.frame \in 0 .. Len(Reel)
      /\ recorder.inside =>
            /\ Held(origin, taped, file.keys, Len(file.keys), Reel, Len(Reel) - recorder.frame)
            /\ Keyed(origin, taped, recorder.sav, recorder.input, recorder.frame, Reel)
  BY DEF RecInv
<1>3. CASE recorder.frame = 0
  <2>1. EndKey(recorder) = file.keys /\ Len(Reel) - recorder.frame = Len(Reel)
    BY <1>1, <1>3 DEF EndKey
  <2> QED
    BY <1>1, <1>2, <2>1
<1>4. CASE recorder.frame # 0
  <2> DEFINE k == KeyOf(recorder)
             n == recorder.frame
             d == Len(Reel) - n
  <2>1. EndKey(recorder) = Append(file.keys, k)
    BY <1>1, <1>4 DEF EndKey
  <2>2. /\ k \in KeyOfFile /\ k.sav = recorder.sav /\ k.len = n - 1 /\ k.input = recorder.input
    <3>1. n - 1 \in Nat
      BY <1>1, <1>4
    <3> QED
      BY <1>1, <3>1 DEF KeyOf, KeyOfFile
  <2>3. n \in Nat \ {0} /\ d \in Nat /\ n <= Len(Reel)
    BY <1>1, <1>2, <1>4
  <2>4. d = Len(Reel) - n
    OBVIOUS
  <2> HIDE DEF k, d
  <2>5. /\ Append(file.keys, k) \in Seq(KeyOfFile) /\ Len(Append(file.keys, k)) = Len(file.keys) + 1
        /\ \A i \in 1 .. Len(file.keys) : Append(file.keys, k)[i] = file.keys[i]
    BY <1>1, <2>2, AppendProperties
  <2>6. recorder.inside =>
          Held(origin, taped, Append(file.keys, k), Len(file.keys) + 1, Reel, Len(Reel))
    <3> SUFFICES ASSUME recorder.inside
                 PROVE  Held(origin, taped, Append(file.keys, k), Len(file.keys) + 1, Reel, Len(Reel))
      OBVIOUS
    <3>1. /\ Held(origin, taped, file.keys, Len(file.keys), Reel, d)
          /\ Keyed(origin, taped, recorder.sav, recorder.input, n, Reel)
      BY <1>2 DEF d
    <3> QED
      BY <1>1, <2>2, <2>3, <2>4, <3>1, KeyIsHeld
  <2> QED
    BY <1>1, <2>1, <2>5, <2>6
<1> QED
  BY <1>3, <1>4

\* It is stopped.
LEMMA EndMovieKeeps ==
    ASSUME MovieTypeOK, GameTypeOK, GameInv, MovieInv, EndMovie,
           Grows(origin, origin', taped), Len(origin') \in Nat
    PROVE  MovieTypeOK' /\ MovieInv'
<1>1. /\ CloseFile /\ Idle /\ taped' = taped /\ faults' = faults
      /\ movie' = "none" /\ recorder' = IdleRecorder /\ player' = IdlePlayer
      /\ session' = << >> /\ played' = 0
  BY DEF EndMovie, Idle
<1>2. CASE movie = "recording" /\ recorder.frame # BadFrame /\ recorder.inside
  <2> DEFINE ks == EndKey(recorder)
  <2>1. /\ file' = [file EXCEPT !.keys = ks, !.length = Len(ks)]
        /\ tape' = Reel
    BY <1>1, <1>2 DEF CloseFile, Reel
  <2>2. /\ ks \in Seq(KeyOfFile) /\ Len(ks) \in Nat
        /\ Held(origin, taped, ks, Len(ks), Reel, Len(Reel))
    BY <1>2, EndKeyIs DEF MovieInv
  <2> HIDE DEF ks
  <2>3. /\ file'.keys = ks /\ file'.length = Len(ks)
        /\ file' \in [header : BOOLEAN, length : {Unclosed} \cup Nat, keys : Seq(KeyOfFile)]
    BY <2>1, <2>2 DEF MovieTypeOK
  <2>4. << >> \in Seq(States) /\ Reel \in Seq(States) /\ Len(Reel) \in Nat
    BY EmptySeq, MovieTypes
  <2>5. MovieTypeOK'
    BY <1>1, <2>1, <2>3, <2>4, IdleTypes DEF MovieTypeOK
  <2>6. TapeInv'
    <3>1. PICK run : Runs(origin, taped, ks, Len(ks), Reel, Len(Reel), run)
      BY <2>2 DEF Held
    <3>2. /\ Len(origin) \in Nat /\ taped \in Nat /\ taped <= taped
          /\ \A i \in 1 .. Len(Reel) : Reel[i] = Reel[i]
          /\ \A i \in 1 .. Len(ks) : ks[i] = ks[i]
      BY OriginIs DEF GameInv
    <3>3. Held(origin', taped, ks, Len(ks), Reel, Len(Reel))
      BY <2>2, <2>4, <3>1, <3>2, HeldLasts
    <3>4. Len(ks) # Unclosed /\ Len(ks) \in 0 .. Len(ks)
      BY <2>2 DEF Unclosed
    <3> QED
      BY <1>1, <2>1, <2>3, <3>3, <3>4 DEF TapeInv
  <2>7. RecInv' /\ PlayInv'
    BY <1>1 DEF RecInv, PlayInv
  <2> QED
    BY <2>5, <2>6, <2>7 DEF MovieInv
<1>3. CASE ~(movie = "recording" /\ recorder.frame # BadFrame /\ recorder.inside)
  <2>1. file' = file /\ tape' = tape
    BY <1>1, <1>3 DEF CloseFile, fileVars
  <2>2. faults' \in 0 .. MaxFaults
    BY <1>1 DEF MovieTypeOK
  <2> QED
    BY <1>1, <2>1, <2>2, IdleKeeps DEF MovieInv
<1> QED
  BY <1>2, <1>3

LEMMA WithInside ==
    ASSUME NEW a, NEW f, NEW in, NEW s, NEW i, NEW b, NEW x, NEW r,
           r = [resync |-> a, frame |-> f, input |-> in, sav |-> s, inside |-> i]
    PROVE  [r EXCEPT !.resync = x, !.inside = b]
               = [resync |-> x, frame |-> f, input |-> in, sav |-> s, inside |-> b]
<1> DEFINE q == [r EXCEPT !.resync = x]
<1>1. q = [resync |-> x, frame |-> f, input |-> in, sav |-> s, inside |-> i]
  OBVIOUS
<1>2. [r EXCEPT !.resync = x, !.inside = b] = [q EXCEPT !.inside = b]
  OBVIOUS
<1> HIDE DEF q
<1>3. [q EXCEPT !.inside = b]
          = [resync |-> x, frame |-> f, input |-> in, sav |-> s, inside |-> b]
  BY <1>1
<1> QED
  BY <1>2, <1>3

LEMMA NewRecorderIs ==
    ASSUME NEW append \in BOOLEAN
    PROVE  /\ NewRecorder(append) \in [resync : BOOLEAN, frame : {BadFrame} \cup Nat, input : InputType,
                                       sav : {Nowhere} \cup States, inside : BOOLEAN]
           /\ NewRecorder(append).resync /\ NewRecorder(append).frame = 0
           /\ NewRecorder(append).input = NoInput /\ NewRecorder(append).sav = Nowhere
           /\ NewRecorder(append).inside = (append => file.length # Unclosed)
<1> DEFINE b == append => file.length # Unclosed
<1>1. b \in BOOLEAN
  OBVIOUS
<1>2. NewRecorder(append) = [IdleRecorder EXCEPT !.resync = TRUE, !.inside = b]
  BY DEF NewRecorder
<1>3. IdleRecorder = [resync |-> FALSE, frame |-> 0, input |-> NoInput, sav |-> Nowhere, inside |-> TRUE]
  BY Zenon DEF IdleRecorder
<1> HIDE DEF b
<1>4. NewRecorder(append) = [resync |-> TRUE, frame |-> 0, input |-> NoInput, sav |-> Nowhere, inside |-> b]
  BY <1>2, <1>3, WithInside
<1>5. /\ NewRecorder(append) \in [resync : BOOLEAN, frame : {BadFrame} \cup Nat, input : InputType,
                                  sav : {Nowhere} \cup States, inside : BOOLEAN]
      /\ NewRecorder(append).resync /\ NewRecorder(append).frame = 0
      /\ NewRecorder(append).input = NoInput /\ NewRecorder(append).sav = Nowhere
      /\ NewRecorder(append).inside = b
  BY <1>1, <1>4, IdleTypes
<1> QED
  BY <1>5 DEF b

\* It begins to be recorded.
LEMMA BeginRecordingKeeps ==
    ASSUME MovieTypeOK, GameTypeOK, GameInv, MovieInv, NEW append \in BOOLEAN,
           movie # "playing", BeginRecording(append),
           append => Grows(origin, origin', taped), Len(origin') \in Nat, append => Len(origin') >= taped,
           taped' \in States
    PROVE  MovieTypeOK' /\ MovieInv'
<1>1. /\ movie' = "recording" /\ recorder' = NewRecorder(append) /\ file' = OpenFile(append)
      /\ tape' = (IF append THEN tape ELSE << >>) /\ session' = << >>
      /\ taped' = Len(origin') /\ UNCHANGED <<player, played, faults>>
  BY DEF BeginRecording
<1>2. /\ recorder' \in [resync : BOOLEAN, frame : {BadFrame} \cup Nat, input : InputType,
                        sav : {Nowhere} \cup States, inside : BOOLEAN]
      /\ recorder'.resync /\ recorder'.frame = 0 /\ recorder'.input = NoInput
      /\ recorder'.sav = Nowhere /\ recorder'.inside = (append => file.length # Unclosed)
  BY <1>1, NewRecorderIs
<1>3. /\ file.keys \in Seq(KeyOfFile) /\ Len(file.keys) \in Nat /\ file.length \in {Unclosed} \cup Nat
      /\ file \in [header : BOOLEAN, length : {Unclosed} \cup Nat, keys : Seq(KeyOfFile)]
      /\ tape \in Seq(States) /\ << >> \in Seq(States) /\ << >> \in Seq(KeyOfFile) /\ Len(<< >>) = 0
      /\ Len(tape) \in Nat /\ taped \in Nat
  BY MovieTypes, EmptySeq, SMTT(30) DEF MovieTypeOK, GameInv
<1>4. PlayInv'
  BY <1>1 DEF PlayInv, MovieInv
<1>5. CASE append
  <2> DEFINE ks == IF file.length = Unclosed THEN << >> ELSE SubSeq(file.keys, 1, file.length)
  <2>1. file' = [file EXCEPT !.keys = ks]
    BY <1>1, <1>5 DEF OpenFile
  <2>2. /\ ks \in Seq(KeyOfFile) /\ Len(ks) \in Nat
        /\ file.length # Unclosed => Len(ks) = file.length /\ \A i \in 1 .. file.length : ks[i] = file.keys[i]
    <3>1. CASE file.length = Unclosed
      BY <1>3, <3>1
    <3>2. CASE file.length # Unclosed
      <4>1. /\ file.length \in 0 .. Len(file.keys) /\ file.length \in Nat
        BY <1>3, <3>2 DEF MovieInv, TapeInv
      <4>2. \A i \in 1 .. file.length : file.keys[i] \in KeyOfFile
        BY <1>3, <4>1, ElementOfSeq
      <4>3. /\ SubSeq(file.keys, 1, file.length) \in Seq(KeyOfFile)
            /\ Len(SubSeq(file.keys, 1, file.length)) = IF 1 <= file.length THEN file.length - 1 + 1 ELSE 0
            /\ \A i \in 1 .. file.length - 1 + 1 : SubSeq(file.keys, 1, file.length)[i] = file.keys[1 + i - 1]
        BY <1>3, <4>1, <4>2, SubSeqProperties
      <4>4. /\ (IF 1 <= file.length THEN file.length - 1 + 1 ELSE 0) = file.length
            /\ file.length - 1 + 1 = file.length
            /\ \A i \in 1 .. file.length : 1 + i - 1 = i
        BY <4>1
      <4>5. ks = SubSeq(file.keys, 1, file.length)
        BY <3>2
      <4> HIDE DEF ks
      <4> QED
        BY <4>1, <4>3, <4>4, <4>5
    <3> QED
      BY <3>1, <3>2
  <2> HIDE DEF ks
  <2>3. /\ file'.keys = ks /\ file'.length = file.length
        /\ file' \in [header : BOOLEAN, length : {Unclosed} \cup Nat, keys : Seq(KeyOfFile)]
    BY <1>3, <2>1, <2>2
  <2>4. MovieTypeOK'
    BY <1>1, <1>2, <1>3, <1>5, <2>3 DEF MovieTypeOK
  <2>5. TapeInv'
    <3>1. file.length # Unclosed => file.length <= Len(file'.keys)
      BY <1>3, <2>2, <2>3
    <3>2. taped' \in Nat /\ taped' >= taped /\ tape' = tape
      BY <1>1, <1>5
    <3> QED
      BY <1>5, <2>2, <2>3, <3>1, <3>2, TapeLasts DEF MovieInv
  <2>6. Reel' = tape /\ tape' = tape
    <3>1. tape \o << >> = tape
      BY <1>3, ConcatEmptySeq
    <3> QED
      BY <1>1, <1>5, <3>1 DEF Reel
  <2>7. RecInv'
    <3>1. Len(tape) - 0 = Len(tape) /\ 0 \in 0 .. Len(tape)
      BY <1>3
    <3>2. recorder'.inside => Held(origin', taped', ks, Len(ks), tape, Len(tape))
      BY <1>2, <1>5, <2>2, <2>3, <2>5, <2>6 DEF TapeInv
    <3>3. Keyed(origin', taped', Nowhere, NoInput, 0, tape)
      BY NothingKeyed
    <3> QED
      BY <1>2, <2>3, <2>6, <3>1, <3>2, <3>3 DEF RecInv
  <2> QED
    BY <1>4, <2>4, <2>5, <2>7 DEF MovieInv
<1>6. CASE ~append
  <2>1. /\ file' = CleanFile /\ file'.length = Unclosed /\ file'.keys = << >> /\ tape' = << >>
        /\ file' \in [header : BOOLEAN, length : {Unclosed} \cup Nat, keys : Seq(KeyOfFile)]
    BY <1>1, <1>3, <1>6 DEF OpenFile, CleanFile
  <2>2. MovieTypeOK'
    BY <1>1, <1>2, <1>3, <2>1 DEF MovieTypeOK
  <2>3. TapeInv'
    BY <2>1 DEF TapeInv
  <2>4. Reel' = << >>
    <3>1. << >> \o << >> = << >>
      BY <1>3, ConcatEmptySeq
    <3> QED
      BY <1>1, <2>1, <3>1 DEF Reel
  <2>5. RecInv'
    <3>1. 0 - 0 = 0 /\ 0 \in 0 .. 0 /\ Len(<< >>) = 0
      BY <1>3
    <3>2. Held(origin', taped', << >>, 0, << >>, 0) /\ Keyed(origin', taped', Nowhere, NoInput, 0, << >>)
      BY NothingHeld, NothingKeyed
    <3> QED
      BY <1>2, <2>1, <2>4, <3>1, <3>2 DEF RecInv
  <2> QED
    BY <1>4, <2>2, <2>3, <2>5 DEF MovieInv
<1> QED
  BY <1>5, <1>6

\* It begins to be played.
LEMMA BeginPlayingKeeps ==
    ASSUME MovieTypeOK, GameTypeOK, GameInv, MovieInv, BeginPlaying,
           Grows(origin, origin', taped), Len(origin') \in Nat
    PROVE  MovieTypeOK' /\ MovieInv'
<1>1. /\ movie = "none" /\ movie' = "playing" /\ player' = IdlePlayer
      /\ UNCHANGED <<recorder, file, tape, session, played, taped, faults>>
  BY DEF BeginPlaying, fileVars
<1>2. /\ Len(tape) \in Nat /\ Len(file.keys) \in Nat /\ taped \in Nat /\ taped <= taped
      /\ file.length \in {Unclosed} \cup Nat
  BY MovieTypes DEF GameInv
<1>3. MovieTypeOK'
  BY <1>1, IdleTypes DEF MovieTypeOK
<1>4. TapeInv'
  <2>1. file.length # Unclosed => file.length <= Len(file.keys)
    BY <1>2 DEF MovieInv, TapeInv
  <2> QED
    BY <1>1, <1>2, <2>1, TapeLasts DEF MovieInv
<1>5. played' = 0
  BY <1>1 DEF MovieInv, PlayInv
<1>6. PlayInv'
  <2>1. ASSUME file'.length # Unclosed
        PROVE  \E run : /\ Runs(origin', taped', file'.keys, file'.length, tape', Len(tape'), run)
                        /\ player' = run[played']
    <3>1. Held(origin', taped', file'.keys, file'.length, tape', Len(tape'))
      BY <1>4, <2>1 DEF TapeInv
    <3>2. PICK run : Runs(origin', taped', file'.keys, file'.length, tape', Len(tape'), run)
      BY <3>1 DEF Held
    <3>3. run[0] = IdlePlayer
      BY <3>2 DEF Runs
    <3> QED
      BY <1>1, <1>5, <3>2, <3>3
  <2>2. played' \in 0 .. Len(tape')
    BY <1>1, <1>2, <1>5
  <2>3. ~(played' > 0)
    BY <1>5
  <2> QED
    BY <1>1, <2>1, <2>2, <2>3 DEF PlayInv
<1>7. RecInv'
  BY <1>1 DEF RecInv
<1> QED
  BY <1>3, <1>4, <1>6, <1>7 DEF MovieInv

RecorderType ==
    [resync : BOOLEAN, frame : {BadFrame} \cup Nat, input : InputType,
     sav : {Nowhere} \cup States, inside : BOOLEAN]

\* What is read is added to the key that is recorded.
LEMMA WithInput ==
    ASSUME NEW r \in RecorderType, NEW s, NEW t \in States, NEW q,
           q = [r EXCEPT !.input = WithRead(r.input, s, t)]
    PROVE  /\ q \in RecorderType /\ q.input = WithRead(r.input, s, t)
           /\ q.resync = r.resync /\ q.frame = r.frame /\ q.sav = r.sav /\ q.inside = r.inside
<1> DEFINE out == WithRead(r.input, s, t)
<1>1. q = [r EXCEPT !.input = out]
  OBVIOUS
<1>3. r.input \in InputType
  BY DEF RecorderType
<1>4. out \in InputType
  BY <1>3, WithReadIs
<1> HIDE DEF out
<1>5. q \in RecorderType
  BY <1>1, <1>4 DEF RecorderType
<1>6. q.input = out /\ q.resync = r.resync /\ q.frame = r.frame /\ q.sav = r.sav /\ q.inside = r.inside
  BY <1>1, <1>3 DEF RecorderType
<1> QED
  BY <1>5, <1>6 DEF out

\* The key is begun, or goes on.
LEMMA KeyIsBegun ==
    ASSUME NEW r \in RecorderType, now \in States
    PROVE  /\ BeginKey(r) \in RecorderType /\ BeginKey(r).frame = 1 /\ BeginKey(r).input = NoInput
           /\ ~BeginKey(r).resync /\ BeginKey(r).inside = r.inside
           /\ BeginKey(r).sav = IF r.resync THEN now ELSE Nowhere
<1> DEFINE v == IF r.resync THEN now ELSE Nowhere
<1>1. BeginKey(r) = [r EXCEPT !.sav = v, !.frame = 1, !.input = NoInput, !.resync = FALSE]
  BY DEF BeginKey
<1>2. v \in {Nowhere} \cup States
  OBVIOUS
<1> HIDE DEF v
<1>3. NoInput \in InputType
  BY IdleTypes
<1> DEFINE k == BeginKey(r)
           q == [r EXCEPT !.sav = v, !.frame = 1, !.input = NoInput]
<1>4. k = [q EXCEPT !.resync = FALSE]
  BY <1>1
<1>5. /\ q \in RecorderType /\ q.sav = v /\ q.frame = 1 /\ q.input = NoInput
      /\ q.inside = r.inside
  BY <1>2, <1>3 DEF RecorderType
<1> HIDE DEF q, k
<1>6. k \in RecorderType
  BY <1>4, <1>5 DEF RecorderType
<1>7. k.sav = q.sav /\ k.frame = q.frame /\ k.input = q.input /\ k.inside = q.inside /\ ~k.resync
  BY <1>4, <1>5 DEF RecorderType
<1> QED
  BY <1>5, <1>6, <1>7 DEF k, v

LEMMA KeyHasOneMore ==
    ASSUME NEW r \in RecorderType, r.frame # BadFrame
    PROVE  /\ r.frame + 1 \in Nat /\ [r EXCEPT !.frame = r.frame + 1] \in RecorderType
           /\ [r EXCEPT !.frame = r.frame + 1].frame = r.frame + 1
           /\ [r EXCEPT !.frame = r.frame + 1].input = r.input
           /\ [r EXCEPT !.frame = r.frame + 1].resync = r.resync
           /\ [r EXCEPT !.frame = r.frame + 1].inside = r.inside
           /\ [r EXCEPT !.frame = r.frame + 1].sav = r.sav
<1>1. r.frame \in Nat /\ r.frame + 1 \in Nat
  BY DEF RecorderType
<1> DEFINE n == r.frame + 1
<1> HIDE DEF n
<1>2. n \in Nat => /\ [r EXCEPT !.frame = n] \in RecorderType /\ [r EXCEPT !.frame = n].frame = n
                   /\ [r EXCEPT !.frame = n].input = r.input /\ [r EXCEPT !.frame = n].resync = r.resync
                   /\ [r EXCEPT !.frame = n].inside = r.inside /\ [r EXCEPT !.frame = n].sav = r.sav
  BY DEF RecorderType
<1> QED
  BY <1>1, <1>2 DEF n

LEMMA WithKeys ==
    ASSUME MovieTypeOK, NEW ks \in Seq(KeyOfFile), NEW b,
           file' = [file EXCEPT !.keys = ks, !.header = @ /\ b]
    PROVE  /\ file' \in [header : BOOLEAN, length : {Unclosed} \cup Nat, keys : Seq(KeyOfFile)]
           /\ file'.keys = ks /\ file'.length = file.length
<1> DEFINE h == file.header /\ b
<1>1. h \in BOOLEAN
  OBVIOUS
<1>2. file' = [file EXCEPT !.keys = ks, !.header = h]
  OBVIOUS
<1> HIDE DEF h
<1>3. file \in [header : BOOLEAN, length : {Unclosed} \cup Nat, keys : Seq(KeyOfFile)]
  BY DEF MovieTypeOK
<1> QED
  BY <1>1, <1>2, <1>3

\* A frame is recorded.
LEMMA RecordKeeps ==
    ASSUME MovieTypeOK, GameTypeOK, GameInv, MovieInv, Record
    PROVE  /\ GameTypeOK' /\ GameInv' /\ MovieTypeOK' /\ MovieInv'
           /\ shown' = now'
<1> DEFINE over  == KeyIsOver(recorder)
           begun == IF over THEN BeginKey(recorder) ELSE [recorder EXCEPT !.frame = @ + 1]
           kept  == [begun EXCEPT !.input =
                        [p \in Ports |-> IF p \in Reads(now) THEN Append(@[p], now') ELSE @[p]]]
<1>1. /\ movie = "recording" /\ recorder.frame # BadFrame /\ RecordedFrame
      /\ file' = IF over THEN [file EXCEPT !.keys = EndKey(recorder), !.header = @ /\ recorder.inside]
                 ELSE file
      /\ \/ recorder' = kept /\ faults' = faults
         \/ /\ faults > 0 /\ faults' = faults - 1
            /\ recorder' = [begun EXCEPT !.frame = BadFrame]
      /\ session' = Append(session, now') /\ taped' = Len(origin')
      /\ movie' = movie /\ player' = player /\ tape' = tape /\ played' = played
  BY DEF Record
<1>2. /\ GameTypeOK' /\ GameInv' /\ shown' = now' /\ now' \in States
      /\ Grows(origin, origin', Len(origin)) /\ Len(origin') >= Len(origin)
      /\ IsNext(origin', taped', now, now')
  BY <1>1, RecordedFrameIs
<1>3. /\ Len(origin) \in Nat /\ Len(origin') \in Nat /\ taped \in Nat /\ taped' \in Nat
      /\ taped <= Len(origin) /\ taped' = Len(origin') /\ taped' >= taped /\ taped' \in States
      /\ now \in States /\ now # Nowhere
      /\ Grows(origin, origin', taped)
  <2>1. /\ Len(origin) \in 1 .. MaxStates /\ Len(origin') \in 1 .. MaxStates /\ MaxStates \in Nat
        /\ now \in 1 .. Len(origin) /\ taped \in 1 .. Len(origin)
    BY <1>2, Sizes DEF GameInv
  <2>2. Grows(origin, origin', taped)
    BY <1>2, <2>1 DEF Grows
  <2> QED
    BY <1>1, <1>2, <2>1, <2>2 DEF States, Nowhere
<1>4. /\ recorder \in RecorderType /\ Reel \in Seq(States) /\ Len(Reel) \in Nat
      /\ file.keys \in Seq(KeyOfFile) /\ Len(file.keys) \in Nat /\ file.length \in {Unclosed} \cup Nat
      /\ tape \in Seq(States) /\ session \in Seq(States) /\ recorder.input \in InputType
      /\ recorder.sav \in {Nowhere} \cup States
      /\ file \in [header : BOOLEAN, length : {Unclosed} \cup Nat, keys : Seq(KeyOfFile)]
  BY MovieTypes DEF MovieTypeOK, RecorderType
<1>5. /\ recorder.frame \in 0 .. Len(Reel) /\ recorder.frame \in Nat
      /\ recorder.frame = 0 => recorder.resync
      /\ ~recorder.resync => Len(Reel) > 0 /\ now = Reel[Len(Reel)]
      /\ recorder.inside =>
            /\ Held(origin, taped, file.keys, Len(file.keys), Reel, Len(Reel) - recorder.frame)
            /\ Keyed(origin, taped, recorder.sav, recorder.input, recorder.frame, Reel)
  BY <1>1 DEF MovieInv, RecInv
<1>6. /\ begun \in RecorderType /\ begun.inside = recorder.inside
      /\ over => /\ begun.frame = 1 /\ begun.input = NoInput /\ ~begun.resync
                 /\ begun.sav = IF recorder.resync THEN now ELSE Nowhere
      /\ ~over => /\ begun.frame = recorder.frame + 1 /\ begun.input = recorder.input
                  /\ begun.sav = recorder.sav /\ ~begun.resync /\ ~recorder.resync
  <2>1. CASE over
    <3>1. begun = BeginKey(recorder)
      BY <2>1
    <3> HIDE DEF over, begun
    <3> QED
      BY <1>3, <1>4, <2>1, <3>1, KeyIsBegun
  <2>2. CASE ~over
    <3>1. begun = [recorder EXCEPT !.frame = recorder.frame + 1] /\ ~recorder.resync
      BY <2>2 DEF KeyIsOver
    <3> HIDE DEF over, begun
    <3> QED
      BY <1>1, <1>4, <2>2, <3>1, KeyHasOneMore
  <2> QED
    BY <2>1, <2>2
<1> HIDE DEF over, begun
<1>7. /\ kept \in RecorderType /\ kept.input = WithRead(begun.input, now, now')
      /\ kept.resync = begun.resync /\ kept.frame = begun.frame /\ kept.sav = begun.sav
      /\ kept.inside = begun.inside
  <2>1. PICK t \in States : t = now'
    BY <1>2
  <2>2. PICK r \in RecorderType : r = begun
    BY <1>6
  <2>3. PICK q : q = kept
    OBVIOUS
  <2>4. q = [r EXCEPT !.input = WithRead(r.input, now, t)]
    BY <2>1, <2>2, <2>3 DEF WithRead
  <2> HIDE DEF kept
  <2>5. /\ q \in RecorderType /\ q.input = WithRead(r.input, now, t)
        /\ q.resync = r.resync /\ q.frame = r.frame /\ q.sav = r.sav /\ q.inside = r.inside
    BY <2>4, WithInput
  <2> QED
    BY <2>1, <2>2, <2>3, <2>5
<1> HIDE DEF kept
<1>8. /\ file' \in [header : BOOLEAN, length : {Unclosed} \cup Nat, keys : Seq(KeyOfFile)]
      /\ file'.keys = (IF over THEN EndKey(recorder) ELSE file.keys)
      /\ file'.length = file.length
      /\ Len(file'.keys) \in Nat /\ Len(file'.keys) >= Len(file.keys)
      /\ \A i \in 1 .. Len(file.keys) : file'.keys[i] = file.keys[i]
  <2>1. CASE over
    <3>1. /\ EndKey(recorder) \in Seq(KeyOfFile)
          /\ Len(EndKey(recorder)) \in Nat /\ Len(EndKey(recorder)) >= Len(file.keys)
          /\ \A i \in 1 .. Len(file.keys) : EndKey(recorder)[i] = file.keys[i]
      BY <1>1, EndKeyIs DEF MovieInv
    <3>2. PICK ks : ks = EndKey(recorder)
      OBVIOUS
    <3>3. PICK b : b = recorder.inside
      OBVIOUS
    <3>4. file' = [file EXCEPT !.keys = ks, !.header = @ /\ b]
      BY <1>1, <2>1, <3>2, <3>3
    <3>5. /\ file' \in [header : BOOLEAN, length : {Unclosed} \cup Nat, keys : Seq(KeyOfFile)]
          /\ file'.keys = ks /\ file'.length = file.length
      BY <3>1, <3>2, <3>4, WithKeys
    <3> QED
      BY <2>1, <3>1, <3>2, <3>5
  <2>2. CASE ~over
    BY <1>1, <1>4, <2>2
  <2> QED
    BY <2>1, <2>2
<1>9. /\ session' \in Seq(States) /\ Reel' = Append(Reel, now')
      /\ Reel' \in Seq(States) /\ Len(Reel') = Len(Reel) + 1 /\ Reel'[Len(Reel) + 1] = now'
      /\ \A i \in 1 .. Len(Reel) : Reel'[i] = Reel[i]
  <2>1. <<now'>> \in Seq(States) /\ session' \in Seq(States)
    BY <1>1, <1>2, <1>4, AppendProperties
  <2>2. session' = session \o <<now'>>
    BY <1>1, <1>2, <1>4, AppendIsConcat
  <2>3. tape \o (session \o <<now'>>) = Reel \o <<now'>>
    BY <1>4, <2>1, ConcatAssociative DEF Reel
  <2>4. Reel' = Append(Reel, now')
    <3>1. Append(Reel, now') = Reel \o <<now'>>
      BY <1>2, <1>4, AppendIsConcat
    <3> QED
      BY <1>1, <2>2, <2>3, <3>1 DEF Reel
  <2> QED
    BY <1>2, <1>4, <2>1, <2>4, AppendProperties
<1>10. MovieTypeOK'
  <2>1. recorder' \in RecorderType /\ faults' \in 0 .. MaxFaults
    <3>1. CASE recorder' = kept /\ faults' = faults
      BY <1>7, <3>1 DEF MovieTypeOK
    <3>2. CASE /\ faults > 0 /\ faults' = faults - 1
               /\ recorder' = [begun EXCEPT !.frame = BadFrame]
      <4>1. faults \in 0 .. MaxFaults /\ MaxFaults \in Nat
        BY MovieAssumption DEF MovieTypeOK
      <4>2. recorder' \in RecorderType
        BY <1>6, <3>2 DEF RecorderType
      <4> QED
        BY <3>2, <4>1, <4>2
    <3> QED
      BY <1>1, <3>1, <3>2
  <2> QED
    BY <1>1, <1>3, <1>8, <1>9, <2>1 DEF MovieTypeOK, RecorderType
<1>11. TapeInv'
  <2>1. file.length # Unclosed => file.length \in 0 .. Len(file.keys)
    BY DEF MovieInv, TapeInv
  <2>2. file.length # Unclosed =>
           /\ file.length <= Len(file'.keys)
           /\ \A i \in 1 .. file.length : file'.keys[i] = file.keys[i]
    BY <1>4, <1>8, <2>1
  <2> QED
    BY <1>1, <1>3, <1>8, <2>2, TapeLasts DEF MovieInv
<1>12. PlayInv'
  BY <1>1 DEF MovieInv, PlayInv
<1>13. RecInv'
  <2> SUFFICES ASSUME recorder'.frame # BadFrame PROVE RecInv'
    BY DEF RecInv
  <2>1. recorder' = kept
    BY <1>1, <1>6 DEF RecorderType
  <2>2. /\ recorder'.frame = begun.frame /\ ~recorder'.resync /\ recorder'.sav = begun.sav
        /\ recorder'.inside = recorder.inside
        /\ recorder'.input = WithRead(begun.input, now, now')
    BY <1>6, <1>7, <2>1
  <2>3. CASE over
    <3>1. Len(Reel') - 1 = Len(Reel) /\ recorder'.frame = 1
      BY <1>4, <1>6, <1>9, <2>2, <2>3
    <3>2. ASSUME recorder.inside
          PROVE  /\ Held(origin', taped', file'.keys, Len(file'.keys), Reel', Len(Reel))
                 /\ Keyed(origin', taped', begun.sav, WithRead(NoInput, now, now'), 1, Reel')
      <4>1. Held(origin, taped, EndKey(recorder), Len(EndKey(recorder)), Reel, Len(Reel))
        BY <1>1, <3>2, EndKeyIs DEF MovieInv
      <4> DEFINE d == Len(Reel)
      <4>2. Held(origin, taped, file'.keys, Len(file'.keys), Reel, d)
        BY <1>8, <2>3, <4>1
      <4>3. /\ \A i \in 1 .. Len(file'.keys) : file'.keys[i] = file'.keys[i]
            /\ \A i \in 1 .. d : Reel'[i] = Reel[i]
            /\ d \in Nat
        BY <1>4, <1>9
      <4> HIDE DEF d
      <4>4. PICK run : Runs(origin, taped, file'.keys, Len(file'.keys), Reel, d, run)
        BY <4>2 DEF Held
      <4>5. Held(origin', taped', file'.keys, Len(file'.keys), Reel', d)
        BY <1>3, <1>8, <4>3, <4>4, HeldLasts
      <4>6. /\ begun.sav \in {Nowhere} \cup States
            /\ now = (IF begun.sav # Nowhere THEN begun.sav ELSE Reel[Len(Reel)])
            /\ begun.sav = Nowhere => Len(Reel) > 0
        BY <1>3, <1>5, <1>6, <2>3
      <4>7. Keyed(origin', taped', begun.sav, WithRead(NoInput, now, now'), 1, Append(Reel, now'))
        BY <1>2, <1>3, <1>4, <4>6, KeyBegins
      <4> QED
        BY <1>9, <4>5, <4>7 DEF d
    <3> QED
      BY <1>4, <1>6, <1>9, <2>2, <2>3, <3>1, <3>2 DEF RecInv
  <2>4. CASE ~over
    <3>1. /\ recorder.frame \in Nat \ {0} /\ recorder.frame <= Len(Reel) /\ Len(Reel) > 0
          /\ now = Reel[Len(Reel)] /\ recorder'.frame = recorder.frame + 1
          /\ Len(Reel') - (recorder.frame + 1) = Len(Reel) - recorder.frame
          /\ recorder.frame + 1 \in 0 .. Len(Reel')
      <4>1. /\ recorder.frame # 0 /\ Len(Reel) > 0 /\ now = Reel[Len(Reel)]
            /\ recorder'.frame = recorder.frame + 1 /\ Len(Reel') = Len(Reel) + 1
        BY <1>5, <1>6, <1>9, <2>2, <2>4
      <4> DEFINE f == recorder.frame
                 l == Len(Reel)
                 e == Len(Reel')
      <4>2. f \in Nat /\ f \in 0 .. l /\ l \in Nat /\ e = l + 1 /\ f # 0
        BY <1>4, <1>5, <4>1
      <4> HIDE DEF f, l, e
      <4>3. f \in Nat \ {0} /\ f <= l /\ e - (f + 1) = l - f /\ f + 1 \in 0 .. e
        BY <4>2
      <4> QED
        BY <4>1, <4>3 DEF f, l, e
    <3>2. ASSUME recorder.inside
          PROVE  /\ Held(origin', taped', file'.keys, Len(file'.keys), Reel', Len(Reel) - recorder.frame)
                 /\ Keyed(origin', taped', recorder.sav, WithRead(recorder.input, now, now'),
                          recorder.frame + 1, Reel')
      <4> DEFINE d == Len(Reel) - recorder.frame
      <4>1. d \in Nat /\ d <= Len(Reel)
        BY <1>4, <3>1
      <4>2. Held(origin, taped, file'.keys, Len(file'.keys), Reel, d)
        BY <1>5, <1>8, <2>4, <3>2
      <4> HIDE DEF d
      <4>3. PICK run : Runs(origin, taped, file'.keys, Len(file'.keys), Reel, d, run)
        BY <4>2 DEF Held
      <4>4. /\ \A i \in 1 .. Len(file'.keys) : file'.keys[i] = file'.keys[i]
            /\ \A i \in 1 .. d : Reel'[i] = Reel[i]
        BY <1>4, <1>9, <4>1
      <4>5. Held(origin', taped', file'.keys, Len(file'.keys), Reel', d)
        BY <1>3, <1>8, <4>1, <4>3, <4>4, HeldLasts
      <4>6. Keyed(origin, taped, recorder.sav, recorder.input, recorder.frame, Reel)
        BY <1>5, <3>2
      <4>7. Keyed(origin', taped', recorder.sav, WithRead(recorder.input, Reel[Len(Reel)], now'),
                  recorder.frame + 1, Append(Reel, now'))
        BY <1>2, <1>3, <1>4, <3>1, <4>6, KeyGoesOn
      <4> QED
        BY <1>9, <3>1, <4>5, <4>7 DEF d
    <3> QED
      BY <1>4, <1>6, <1>9, <2>2, <2>4, <3>1, <3>2 DEF RecInv
  <2> QED
    BY <2>3, <2>4
<1> QED
  BY <1>2, <1>10, <1>11, <1>12, <1>13 DEF MovieInv

\* Another turn of the player is one still.
LEMMA TurnedIs ==
    ASSUME NEW pl \in [next : Nat, frame : Nat, input : InputType, pos : [Ports -> Nat]], NEW s
    PROVE  Turned(pl, s) \in [next : Nat, frame : Nat, input : InputType, pos : [Ports -> Nat]]
<1> DEFINE c == [p \in Ports |-> IF p \in Reads(s) THEN pl.pos[p] + 1 ELSE pl.pos[p]]
<1>1. pl.pos \in [Ports -> Nat]
  OBVIOUS
<1>2. c \in [Ports -> Nat]
  BY <1>1
<1>3. Turned(pl, s) = [pl EXCEPT !.pos = c]
  BY DEF Turned
<1> HIDE DEF c
<1> QED
  BY <1>2, <1>3

LEMMA BegunIs ==
    ASSUME NEW pl \in [next : Nat, frame : Nat, input : InputType, pos : [Ports -> Nat]],
           NEW ks, pl.frame > 0 \/ ks[pl.next] \in KeyOfFile
    PROVE  Begun(ks, pl) \in [next : Nat, frame : Nat, input : InputType, pos : [Ports -> Nat]]
<1>1. CASE pl.frame > 0
  <2> DEFINE n == pl.frame - 1
  <2>1. n \in Nat
    BY <1>1
  <2>2. Begun(ks, pl) = [pl EXCEPT !.frame = n]
    BY <1>1 DEF Begun
  <2> HIDE DEF n
  <2> QED
    BY <2>1, <2>2
<1>2. CASE ~(pl.frame > 0)
  <2> DEFINE n == pl.next + 1
             k == ks[pl.next]
  <2>1. n \in Nat /\ k \in KeyOfFile
    BY <1>2
  <2>2. Begun(ks, pl) = [next |-> n, frame |-> k.len, input |-> k.input, pos |-> [p \in Ports |-> 0]]
    BY <1>2 DEF Begun
  <2> HIDE DEF n, k
  <2> QED
    BY <2>1, <2>2 DEF KeyOfFile
<1> QED
  BY <1>1, <1>2

\* A frame is played: it is the one that was recorded.
LEMMA PlayKeeps ==
    ASSUME MovieTypeOK, GameTypeOK, GameInv, MovieInv, Play, on'
    PROVE  /\ GameTypeOK' /\ GameInv' /\ MovieTypeOK' /\ MovieInv'
           /\ shown' = now'
<1> DEFINE k     == file.keys[player.next]
           begun == Begun(file.keys, player)
           from  == IF player.frame > 0 THEN now ELSE LoadedFrom(k)
           next  == Played(begun, from)
<1>1. /\ movie = "playing" /\ ~NothingLeft
      /\ now' = IF next = {} THEN Nowhere ELSE CHOOSE t \in next : \A u \in next : t <= u
      /\ player' = Turned(begun, from)
      /\ shown' = now' /\ played' = played + 1
      /\ UNCHANGED <<origin, movie, recorder, file, tape, session, taped, faults>>
  BY DEF Play, Begun, Turned, fileVars
<1>2. /\ player \in [next : Nat, frame : Nat, input : InputType, pos : [Ports -> Nat]]
      /\ file.keys \in Seq(KeyOfFile) /\ Len(file.keys) \in Nat
      /\ file.length \in {Unclosed} \cup Nat /\ Len(tape) \in Nat /\ tape \in Seq(States)
      /\ Len(origin) \in 1 .. MaxStates /\ MaxStates \in Nat /\ taped \in 1 .. Len(origin)
  BY MovieTypes, Sizes DEF MovieTypeOK, GameInv
<1>3. /\ played \in 0 .. Len(tape)
      /\ file.length = Unclosed => player = IdlePlayer
      /\ file.length # Unclosed =>
           \E run : /\ Runs(origin, taped, file.keys, file.length, tape, Len(tape), run)
                    /\ player = run[played]
      /\ played > 0 => on /\ now = tape[played] /\ shown = now
  BY <1>1 DEF MovieInv, PlayInv
<1>4. file.length # Unclosed
  <2> SUFFICES ASSUME file.length = Unclosed PROVE FALSE
    OBVIOUS
  <2>1. player.frame = 0 /\ player.next = 1
    BY <1>3 DEF IdlePlayer
  <2> QED
    BY <1>1, <2>1 DEF NothingLeft, Unclosed
<1>5. PICK run : /\ Runs(origin, taped, file.keys, file.length, tape, Len(tape), run)
                 /\ player = run[played]
  BY <1>3, <1>4
<1>6. /\ file.length \in Nat /\ file.length \in 0 .. Len(file.keys)
  BY <1>2, <1>4 DEF MovieInv, TapeInv
<1>7. played # Len(tape)
  <2> SUFFICES ASSUME played = Len(tape) PROVE FALSE
    OBVIOUS
  <2>1. player.frame = 0 /\ player.next = file.length + 1
    BY <1>5 DEF Runs
  <2> QED
    BY <1>1, <1>6, <2>1 DEF NothingLeft
<1> DEFINE j == played + 1
           s == From(file.keys, player, tape[j - 1])
<1>8. j \in 1 .. Len(tape) /\ j - 1 = played /\ played \in Nat /\ (j > 1 => played > 0)
  BY <1>2, <1>3, <1>7
<1>9. Turn(origin, taped, file.keys, file.length, tape, player, run[j], j)
  BY <1>5, <1>8 DEF Runs
<1>10. /\ player.frame > 0 \/ player.next \in 1 .. file.length
       /\ player.frame > 0 \/ file.keys[player.next].sav = Nowhere => j > 1
       /\ IsNext(origin, taped, s, tape[j])
       /\ \A p \in Reads(s) : Byte(begun, p) = tape[j]
       /\ run[j] = Turned(begun, s)
  BY <1>9 DEF Turn
<1> HIDE DEF j, begun
<1>11. from = s
  <2>1. CASE player.frame > 0 \/ k.sav = Nowhere
    BY <1>3, <1>8, <1>10, <2>1 DEF From, LoadedFrom
  <2>2. CASE ~(player.frame > 0 \/ k.sav = Nowhere)
    BY <2>2 DEF From, LoadedFrom
  <2> QED
    BY <2>1, <2>2
<1> HIDE DEF s, from
<1> DEFINE t == tape[j]
<1>12. /\ t \in 1 .. taped /\ origin[t] = s /\ t \in 1 .. Len(origin)
       /\ Reads(s) = {} => \A u \in 1 .. Len(origin) : origin[u] = s => t <= u
  BY <1>2, <1>10 DEF IsNext
<1>13. t \in next /\ \A u \in next : u \in Nat /\ t <= u
  <2>1. t \in next
    BY <1>10, <1>11, <1>12 DEF Played, Following
  <2>2. ASSUME NEW u \in next PROVE u \in Nat /\ t <= u
    <3>1. u \in 1 .. Len(origin) /\ origin[u] = s /\ \A p \in Reads(s) : Byte(begun, p) = u
      BY <1>11, <2>2 DEF Played, Following
    <3>2. CASE Reads(s) = {}
      BY <1>2, <1>12, <3>1, <3>2
    <3>3. CASE Reads(s) # {}
      <4>1. u = t
        BY <1>10, <3>1, <3>3
      <4> QED
        BY <1>2, <3>1, <4>1
    <3> QED
      BY <3>2, <3>3
  <2> QED
    BY <2>1, <2>2
<1> HIDE DEF next, t
<1>14. now' = t
  <2>1. next # {} /\ \E x \in next : \A u \in next : x <= u
    BY <1>13
  <2> DEFINE x == CHOOSE x \in next : \A u \in next : x <= u
  <2>2. x \in next /\ \A u \in next : x <= u
    BY <2>1
  <2>3. now' = x
    BY <1>1, <2>1
  <2> HIDE DEF x
  <2>4. x \in Nat /\ t \in Nat /\ x <= t /\ t <= x
    BY <1>13, <2>2
  <2> QED
    BY <2>3, <2>4
<1>15. player' = run[j]
  BY <1>1, <1>10, <1>11
<1>16. GameTypeOK' /\ GameInv'
  <2>1. now' \in 1 .. Len(origin) /\ now' \in States
    BY <1>2, <1>12, <1>14 DEF States
  <2> QED
    BY <1>1, <2>1 DEF GameInv, GameTypeOK
<1>17. MovieTypeOK'
  <2>1. player.frame > 0 \/ file.keys[player.next] \in KeyOfFile
    <3>1. CASE player.next \in 1 .. file.length
      <4>1. player.next \in 1 .. Len(file.keys)
        BY <1>6, <3>1
      <4> QED
        BY <1>2, <4>1, ElementOfSeq
    <3> QED
      BY <1>10, <3>1
  <2>2. begun \in [next : Nat, frame : Nat, input : InputType, pos : [Ports -> Nat]]
    BY <1>2, <2>1, BegunIs DEF begun
  <2>3. player' \in [next : Nat, frame : Nat, input : InputType, pos : [Ports -> Nat]]
    BY <1>1, <2>2, TurnedIs
  <2>4. played' \in Nat
    BY <1>1, <1>8
  <2> QED
    BY <1>1, <2>3, <2>4 DEF MovieTypeOK
<1>18. TapeInv'
  BY <1>1 DEF TapeInv, MovieInv
<1>19. PlayInv'
  <2>1. played' = j /\ j \in 0 .. Len(tape)
    BY <1>1, <1>2, <1>8 DEF j
  <2>2. Runs(origin', taped', file'.keys, file'.length, tape', Len(tape'), run)
    BY <1>1, <1>5
  <2>3. player' = run[played'] /\ file'.length # Unclosed /\ movie' = "playing"
    BY <1>1, <1>4, <1>15, <2>1
  <2>4. now' = tape'[played'] /\ shown' = now'
    BY <1>1, <1>14, <2>1 DEF t
  <2>5. played' \in 0 .. Len(tape')
    BY <1>1, <2>1
  <2> QED
    BY <2>2, <2>3, <2>4, <2>5 DEF PlayInv
<1>20. RecInv'
  BY <1>1 DEF RecInv
<1> QED
  BY <1>1, <1>16, <1>17, <1>18, <1>19, <1>20 DEF MovieInv

-----------------------------------------------------------------------------
\* The steps of the tracker.

TrackerInv == TypeOK /\ GameInv /\ RewindInv /\ MovieInv

LEMMA PlayGrows ==
    ASSUME GameTypeOK, GameInv, NEW s \in {Nowhere} \cup States, PlayFrom(s)
    PROVE  Grows(origin, origin', taped) /\ Len(origin') \in Nat
<1>1. /\ origin \in Seq({Nowhere} \cup States) /\ Len(origin) \in Nat /\ taped \in 1 .. Len(origin)
  BY OriginIs DEF GameTypeOK, GameInv
<1>2. /\ Len(origin') = Len(origin) + 1
      /\ \A t \in 1 .. Len(origin) : origin'[t] = origin[t]
  BY <1>1, AppendProperties DEF PlayFrom
<1> QED
  BY <1>1, <1>2 DEF Grows

LEMMA StaysSame ==
    ASSUME GameTypeOK, GameInv, origin' = origin
    PROVE  Grows(origin, origin', taped) /\ Len(origin') \in Nat
<1>1. Len(origin) \in Nat /\ taped \in 1 .. Len(origin)
  BY OriginIs DEF GameInv
<1> QED
  BY <1>1 DEF Grows

\* What the rewinder does leaves the states of the movie as they are.
LEMMA RewinderGrows ==
    ASSUME GameTypeOK, RewinderTypeOK, GameInv, RewinderExecute
    PROVE  Grows(origin, origin', taped) /\ Len(origin') \in Nat
<1>1. now \in {Nowhere} \cup States
  BY DEF GameTypeOK
<1>2. CASE ExecuteForward \/ CatchUp
  <2>1. PICK s \in {Nowhere} \cup States : s = now
    BY <1>1
  <2>2. PlayFrom(s)
    BY <1>2, <2>1 DEF ExecuteForward, CatchUp, LiveFrame
  <2> QED
    BY <2>2, PlayGrows
<1>3. CASE RunOut
  <2>1. keys[NextKey(key)].start \in {Nowhere} \cup States
    <3>1. NextKey(key) \in Keys
      BY Neighbours DEF RewinderTypeOK
    <3> QED
      BY <3>1 DEF RewinderTypeOK, KeyType
  <2>2. PICK s \in {Nowhere} \cup States : s = keys[NextKey(key)].start
    BY <2>1
  <2>3. PlayFrom(s)
    BY <1>3, <2>2 DEF RunOut
  <2> QED
    BY <2>3, PlayGrows
<1>4. CASE ExecuteBackward \/ StoreKey \/ Align \/ ReplayForward
  <2>1. origin' = origin
    BY <1>4 DEF ExecuteBackward, StoreKey, Align, ReplayForward, BackInKey, BackToPrevKey, ReplayFrom
  <2> QED
    BY <2>1, StaysSame
<1>5. CASE TurnBack \/ BeginStore \/ BeginAlign \/ Aligned \/ TurnForward \/ Resume
  <2>1. origin' = origin
    BY <1>5 DEF TurnBack, BeginStore, BeginAlign, Aligned, TurnForward, Resume, gameVars
  <2> QED
    BY <2>1, StaysSame
<1> QED
  BY <1>2, <1>3, <1>4, <1>5 DEF RewinderExecute, TurnBackStep, TurnForwardStep

LEMMA RewinderKeeps ==
    ASSUME TrackerInv, on, ExecuteRewinder
    PROVE  TrackerInv'
<1>1. /\ TypeOK /\ GameInv /\ RewindInv /\ MovieInv /\ GameTypeOK /\ RewinderTypeOK /\ MovieTypeOK
      /\ rewinder /\ RewinderExecute /\ UNCHANGED <<trackerVars, movieVars>> /\ movie = "none"
  BY DEF TrackerInv, TypeOK, ExecuteRewinder
<1>2. RewinderSound'
  <2>1. CASE ExecuteForward
    BY <1>1, <2>1, ForwardInKey, ForwardToNextKey DEF RewinderSound
  <2>2. CASE ExecuteBackward
    BY <1>1, <2>2, BackwardKeeps
  <2>3. CASE RunOut
    BY <1>1, <2>3, RunOutKeeps
  <2>4. CASE TurnBackStep
    BY <1>1, <2>4, TurnBackKeeps, CatchUpKeeps, BeginStoreKeeps, StoreKeyKeeps, BeginAlignKeeps,
       AlignKeeps, AlignedKeeps DEF TurnBackStep
  <2>5. CASE TurnForwardStep
    BY <1>1, <2>5, TurnForwardKeeps, ReplayForwardKeeps, ResumeKeeps DEF TurnForwardStep
  <2> QED
    BY <1>1, <2>1, <2>2, <2>3, <2>4, <2>5 DEF RewinderExecute
<1>3. MovieTypeOK' /\ MovieInv'
  <2>1. /\ UNCHANGED <<taped, movie, player, file, tape, session, played, faults>> /\ recorder' = recorder
    BY <1>1 DEF movieVars, fileVars
  <2> QED
    BY <1>1, <2>1, RewinderGrows, MovieStays
<1> QED
  BY <1>1, <1>2, <1>3 DEF TrackerInv, TypeOK, RewinderSound, trackerVars, movieVars

\* The rewinder is as new.
LEMMA CleanSlate ==
    ASSUME RewinderTypeOK, ForgetKeys, stage = "idle", shown' = now'
    PROVE  RewinderTypeOK' /\ RewindInv'
BY ForgetKeysIs, FreshIsSound, Sizes

\* It is as new, and stays that.
LEMMA StaysClean ==
    ASSUME RewinderTypeOK, RewindInv, ~rewinder, UNCHANGED rewinderVars, shown' = now'
    PROVE  RewinderTypeOK' /\ RewindInv'
<1>1. Fresh /\ stage = "idle" /\ ~rewinding /\ ~uturn
  BY NoRewinderIs
<1>2. UNCHANGED <<rewinding, uturn, frame, key, keys, picture, slot, pingpong, stage, todo>>
  BY DEF rewinderVars, keyVars, videoVars, loopVars
<1>3. Fresh' /\ RewinderTypeOK'
  BY <1>1, <1>2 DEF Fresh, RewinderTypeOK
<1> QED
  BY <1>1, <1>2, <1>3, FreshIsSound, Sizes

\* What the machine forgets is not the movie's.
LEMMA ForgetKeeps ==
    ASSUME GameTypeOK, GameInv, NEW s \in {Boot, now}, Forget(taped, s), taped' = taped
    PROVE  /\ GameTypeOK' /\ GameInv' /\ shown' = now'
           /\ Grows(origin, origin', taped) /\ Len(origin') \in Nat
<1>1. /\ Len(origin) \in Nat /\ taped \in 1 .. Len(origin) /\ s \in 1 .. Len(origin)
  BY OriginIs DEF GameInv, Boot
<1>2. PICK m \in 1 .. Len(origin) : m = taped
  BY <1>1
<1>3. Forget(m, s)
  BY <1>2
<1>4. /\ Len(origin') = (IF s <= m THEN m ELSE m + 1) /\ Grows(origin, origin', m) /\ shown' = now'
  BY <1>1, <1>3, ForgetIs
<1>5. taped' \in m .. Len(origin')
  BY <1>1, <1>2, <1>4
<1>6. GameTypeOK' /\ GameInv'
  BY <1>1, <1>3, <1>5, ForgetGame
<1> QED
  BY <1>1, <1>2, <1>4, <1>6

\* Frames without a rewinder.
LEMMA AloneKeeps ==
    ASSUME TrackerInv, ExecuteAlone
    PROVE  TrackerInv'
<1>1. /\ TypeOK /\ GameInv /\ RewindInv /\ MovieInv /\ GameTypeOK /\ RewinderTypeOK /\ MovieTypeOK
      /\ ~rewinder /\ LiveFrame /\ movie = "none"
      /\ UNCHANGED <<taped, movie, player, file, tape, session, played, faults>> /\ recorder' = recorder
      /\ UNCHANGED <<on, enabled, rewinder>> /\ UNCHANGED rewinderVars
  BY DEF TrackerInv, TypeOK, ExecuteAlone, trackerVars, movieVars, fileVars
<1>2. /\ PlayFrom(now) /\ shown' = NewState /\ now' = NewState /\ now \in 1 .. Len(origin)
      /\ now \in {Nowhere} \cup States
  BY <1>1 DEF LiveFrame, PlayFrom, GameInv, GameTypeOK
<1>3. PICK s \in 1 .. Len(origin) : s = now
  BY <1>2
<1>4. PlayFrom(s) /\ s \in {Nowhere} \cup States
  BY <1>2, <1>3
<1>5. GameTypeOK' /\ GameInv'
  BY <1>1, <1>2, <1>4, PlayGame
<1>6. Grows(origin, origin', taped) /\ Len(origin') \in Nat
  BY <1>1, <1>4, PlayGrows
<1>7. MovieTypeOK' /\ MovieInv'
  BY <1>1, <1>6, MovieStays
<1>8. RewinderTypeOK' /\ RewindInv'
  BY <1>1, <1>2, StaysClean
<1> QED
  BY <1>1, <1>5, <1>7, <1>8 DEF TrackerInv, TypeOK

LEMMA MovieKeeps ==
    ASSUME TrackerInv, on, ExecuteMovie
    PROVE  TrackerInv'
<1>1. /\ TypeOK /\ GameInv /\ RewindInv /\ MovieInv /\ GameTypeOK /\ RewinderTypeOK /\ MovieTypeOK
      /\ Record \/ Play
      /\ UNCHANGED <<on, enabled, rewinder>> /\ UNCHANGED rewinderVars
  BY DEF TrackerInv, TypeOK, ExecuteMovie, trackerVars
<1>2. /\ GameTypeOK' /\ GameInv' /\ MovieTypeOK' /\ MovieInv' /\ shown' = now'
      /\ movie # "none" /\ movie' = movie
  <2>1. CASE Record
    BY <1>1, <2>1, RecordKeeps DEF Record
  <2>2. CASE Play
    BY <1>1, <2>2, PlayKeeps DEF Play
  <2> QED
    BY <1>1, <2>1, <2>2
<1>3. ~rewinder
  BY <1>1, <1>2 DEF TypeOK
<1>4. RewinderTypeOK' /\ RewindInv'
  BY <1>1, <1>2, <1>3, StaysClean
<1> QED
  BY <1>1, <1>2, <1>4 DEF TrackerInv, TypeOK

LEMMA ExecuteEndKeeps ==
    ASSUME TrackerInv, ExecuteEnd
    PROVE  TrackerInv'
<1>1. /\ TypeOK /\ GameInv /\ RewindInv /\ MovieInv /\ GameTypeOK /\ RewinderTypeOK /\ MovieTypeOK
      /\ Idle /\ movie # "none" /\ movie' = "none" /\ UNCHANGED <<taped, file, tape, faults>>
      /\ LiveFrame /\ UNCHANGED <<on, enabled>> /\ UpdateRewinderState(TRUE)
  BY DEF TrackerInv, TypeOK, ExecuteEnd, EndPlaying, FailRecording, Idle, fileVars
<1>2. /\ ~rewinder /\ ForgetKeys /\ rewinder' = (enabled' /\ movie' = "none")
  BY <1>1 DEF TypeOK, UpdateRewinderState
<1>3. stage = "idle"
  BY <1>1, <1>2, NoRewinderIs
<1>4. /\ PlayFrom(now) /\ shown' = NewState /\ now' = NewState /\ now \in 1 .. Len(origin)
      /\ now \in {Nowhere} \cup States
  BY <1>1 DEF LiveFrame, PlayFrom, GameInv, GameTypeOK
<1>5. PICK s \in 1 .. Len(origin) : s = now
  BY <1>4
<1>6. PlayFrom(s) /\ s \in {Nowhere} \cup States
  BY <1>4, <1>5
<1>7. GameTypeOK' /\ GameInv'
  BY <1>1, <1>4, <1>6, PlayGame
<1>8. Grows(origin, origin', taped) /\ Len(origin') \in Nat
  BY <1>1, <1>6, PlayGrows
<1>9. MovieTypeOK' /\ MovieInv'
  <2>1. TapeInv /\ faults' \in 0 .. MaxFaults
    BY <1>1 DEF MovieInv, MovieTypeOK
  <2> QED
    BY <1>1, <1>8, <2>1, IdleKeeps
<1>10. RewinderTypeOK' /\ RewindInv'
  BY <1>1, <1>2, <1>3, <1>4, CleanSlate
<1> QED
  BY <1>1, <1>2, <1>7, <1>9, <1>10 DEF TrackerInv, TypeOK

\* The user turns the direction.
LEMMA TurningKeeps ==
    ASSUME TrackerInv, StartRewinding \/ StopRewinding
    PROVE  TrackerInv'
<1>1. /\ TypeOK /\ GameInv /\ RewindInv /\ MovieInv /\ GameTypeOK /\ RewinderTypeOK /\ MovieTypeOK
      /\ rewinder /\ movie = "none"
      /\ UNCHANGED <<taped, movie, player, file, tape, session, played, faults>> /\ recorder' = recorder
      /\ UNCHANGED <<on, enabled, rewinder>> /\ origin' = origin
  BY DEF TrackerInv, TypeOK, StartRewinding, StopRewinding, Start, Stop, trackerVars, movieVars, fileVars,
         gameVars
<1>2. RewinderSound'
  BY <1>1, StartKeeps, StopKeeps
<1>3. MovieTypeOK' /\ MovieInv'
  BY <1>1, StaysSame, MovieStays
<1> QED
  BY <1>1, <1>2, <1>3 DEF TrackerInv, TypeOK, RewinderSound

LEMMA ResetRewinderKeeps ==
    ASSUME TrackerInv, ResetRewinder
    PROVE  TrackerInv'
<1>1. /\ TypeOK /\ GameInv /\ RewindInv /\ MovieInv /\ GameTypeOK /\ RewinderTypeOK /\ MovieTypeOK
      /\ rewinder /\ movie = "none" /\ stage = "idle" /\ ForgetKeys /\ Forget(taped, now)
      /\ UNCHANGED <<taped, movie, player, file, tape, session, played, faults>> /\ recorder' = recorder
      /\ UNCHANGED <<on, enabled, rewinder>>
  BY DEF TrackerInv, TypeOK, ResetRewinder, trackerVars, movieVars, fileVars
<1>2. PICK s \in {Boot, now} : s = now
  OBVIOUS
<1>3. /\ GameTypeOK' /\ GameInv' /\ shown' = now'
      /\ Grows(origin, origin', taped) /\ Len(origin') \in Nat
  BY <1>1, <1>2, ForgetKeeps
<1>4. MovieTypeOK' /\ MovieInv'
  BY <1>1, <1>3, MovieStays
<1>5. RewinderTypeOK' /\ RewindInv'
  BY <1>1, <1>3, CleanSlate
<1> QED
  BY <1>1, <1>3, <1>4, <1>5 DEF TrackerInv, TypeOK

LEMMA EnableRewinderKeeps ==
    ASSUME TrackerInv, EnableRewinder
    PROVE  TrackerInv'
<1>1. /\ TypeOK /\ GameInv /\ RewindInv /\ MovieInv /\ GameTypeOK /\ RewinderTypeOK /\ MovieTypeOK
      /\ stage = "idle" /\ enabled' = ~enabled /\ on' = on /\ UpdateRewinderState(TRUE)
      /\ IF rewinder THEN Forget(taped, now) ELSE UNCHANGED <<now, shown, origin>>
      /\ UNCHANGED <<taped, movie, player, file, tape, session, played, faults>> /\ recorder' = recorder
  BY DEF TrackerInv, TypeOK, EnableRewinder, movieVars, fileVars, gameVars
<1>2. /\ ForgetKeys /\ rewinder' = (enabled' /\ movie' = "none") /\ rewinder = (enabled /\ movie = "none")
      /\ enabled' \in BOOLEAN /\ on' \in BOOLEAN
  BY <1>1 DEF TypeOK, UpdateRewinderState
<1>3. /\ GameTypeOK' /\ GameInv' /\ shown' = now' /\ MovieTypeOK' /\ MovieInv'
  <2>1. CASE rewinder
    <3>1. PICK s \in {Boot, now} : s = now
      OBVIOUS
    <3>2. /\ GameTypeOK' /\ GameInv' /\ shown' = now'
          /\ Grows(origin, origin', taped) /\ Len(origin') \in Nat
      BY <1>1, <2>1, <3>1, ForgetKeeps
    <3>3. movie = "none"
      BY <1>2, <2>1
    <3> QED
      BY <1>1, <3>2, <3>3, MovieStays
  <2>2. CASE ~rewinder
    <3>1. GameTypeOK' /\ GameInv' /\ shown = now
      BY <1>1, <2>2, NoRewinderIs DEF GameTypeOK, GameInv
    <3>2. movie = "playing" /\ played > 0 => on' /\ now' = now /\ shown' = shown
      BY <1>1, <2>2 DEF MovieInv, PlayInv
    <3> QED
      BY <1>1, <2>2, <3>1, <3>2, StaysSame, MovieStays
  <2> QED
    BY <2>1, <2>2
<1>4. RewinderTypeOK' /\ RewindInv'
  BY <1>1, <1>2, <1>3, CleanSlate
<1> QED
  BY <1>2, <1>3, <1>4 DEF TrackerInv, TypeOK

\* A movie begins.
LEMMA RecordMovieKeeps ==
    ASSUME TrackerInv, NEW append \in BOOLEAN, RecordMovie(append)
    PROVE  TrackerInv'
<1> DEFINE low == IF append THEN taped ELSE Boot
<1>1. /\ TypeOK /\ GameInv /\ RewindInv /\ MovieInv /\ GameTypeOK /\ RewinderTypeOK /\ MovieTypeOK
      /\ stage = "idle" /\ movie # "playing" /\ Forget(low, now) /\ BeginRecording(append)
      /\ taped' = Len(origin') /\ movie' = "recording" /\ UNCHANGED <<on, enabled>>
      /\ UpdateRewinderState(FALSE)
  BY DEF TrackerInv, TypeOK, RecordMovie, Refused, BeginRecording
<1>2. ForgetKeys /\ rewinder' = (enabled' /\ movie' = "none")
  <2>1. rewinder' = FALSE /\ ForgetKeys
    BY <1>1 DEF UpdateRewinderState
  <2>2. movie' # "none"
    BY <1>1
  <2> QED
    BY <2>1, <2>2
<1>3. /\ Len(origin) \in Nat /\ taped \in 1 .. Len(origin) /\ now \in 1 .. Len(origin)
      /\ low \in 1 .. Len(origin)
  BY <1>1, OriginIs DEF GameInv, Boot
<1>4. PICK m \in 1 .. Len(origin), s \in 1 .. Len(origin) : m = low /\ s = now
  BY <1>3
<1> HIDE DEF low
<1>5. Forget(m, s)
  BY <1>1, <1>4
<1>6. /\ Len(origin') = (IF s <= m THEN m ELSE m + 1) /\ Grows(origin, origin', m) /\ shown' = now'
  BY <1>1, <1>3, <1>5, ForgetIs
<1>7. Len(origin') \in Nat /\ Len(origin') >= m /\ taped' \in m .. Len(origin')
  BY <1>1, <1>3, <1>4, <1>6
<1>8. GameTypeOK' /\ GameInv'
  BY <1>1, <1>5, <1>7, ForgetGame
<1>9. taped' \in States /\ (append => Grows(origin, origin', taped)) /\ (append => Len(origin') >= taped)
  <2>1. taped' \in States
    BY <1>8, Sizes DEF GameInv, States
  <2>2. append => m = taped
    BY <1>4 DEF low
  <2> QED
    BY <1>6, <1>7, <2>1, <2>2
<1>10. MovieTypeOK' /\ MovieInv'
  BY <1>1, <1>7, <1>9, BeginRecordingKeeps
<1>11. RewinderTypeOK' /\ RewindInv'
  BY <1>1, <1>2, <1>6, CleanSlate
<1> QED
  BY <1>1, <1>2, <1>8, <1>10, <1>11 DEF TrackerInv, TypeOK

LEMMA PlayMovieKeeps ==
    ASSUME TrackerInv, PlayMovie
    PROVE  TrackerInv'
<1>1. /\ TypeOK /\ GameInv /\ RewindInv /\ MovieInv /\ GameTypeOK /\ RewinderTypeOK /\ MovieTypeOK
      /\ stage = "idle" /\ Forget(taped, Boot) /\ BeginPlaying /\ taped' = taped
      /\ movie' = "playing" /\ UNCHANGED <<on, enabled>> /\ UpdateRewinderState(FALSE)
  BY DEF TrackerInv, TypeOK, PlayMovie, BeginPlaying
<1>2. ForgetKeys /\ rewinder' = (enabled' /\ movie' = "none")
  <2>1. rewinder' = FALSE /\ ForgetKeys
    BY <1>1 DEF UpdateRewinderState
  <2>2. movie' # "none"
    BY <1>1
  <2> QED
    BY <2>1, <2>2
<1>3. PICK s \in {Boot, now} : s = Boot
  OBVIOUS
<1>4. /\ GameTypeOK' /\ GameInv' /\ shown' = now'
      /\ Grows(origin, origin', taped) /\ Len(origin') \in Nat
  BY <1>1, <1>3, ForgetKeeps
<1>5. MovieTypeOK' /\ MovieInv'
  BY <1>1, <1>4, BeginPlayingKeeps
<1>6. RewinderTypeOK' /\ RewindInv'
  BY <1>1, <1>2, <1>4, CleanSlate
<1> QED
  BY <1>1, <1>2, <1>4, <1>5, <1>6 DEF TrackerInv, TypeOK

\* It is stopped.
LEMMA RefuseMovieKeeps ==
    ASSUME TrackerInv, NEW what, RefuseMovie(what)
    PROVE  TrackerInv'
<1>1. /\ TypeOK /\ GameInv /\ RewindInv /\ MovieInv /\ GameTypeOK /\ RewinderTypeOK /\ MovieTypeOK
      /\ stage = "idle" /\ Forget(taped, now) /\ EndMovie /\ taped' = taped /\ movie' = "none"
      /\ UNCHANGED <<on, enabled>> /\ ForgetKeys /\ rewinder' = (enabled /\ movie' = "none")
  BY DEF TrackerInv, TypeOK, RefuseMovie, EndMovie, Idle, RenewRewinder
<1>2. PICK s \in {Boot, now} : s = now
  OBVIOUS
<1>3. /\ GameTypeOK' /\ GameInv' /\ shown' = now'
      /\ Grows(origin, origin', taped) /\ Len(origin') \in Nat
  BY <1>1, <1>2, ForgetKeeps
<1>4. MovieTypeOK' /\ MovieInv'
  BY <1>1, <1>3, EndMovieKeeps
<1>5. RewinderTypeOK' /\ RewindInv'
  BY <1>1, <1>3, CleanSlate
<1> QED
  BY <1>1, <1>3, <1>4, <1>5 DEF TrackerInv, TypeOK

LEMMA StopMovieKeeps ==
    ASSUME TrackerInv, StopMovie
    PROVE  TrackerInv'
<1>1. /\ TypeOK /\ GameInv /\ RewindInv /\ MovieInv /\ GameTypeOK /\ RewinderTypeOK /\ MovieTypeOK
      /\ movie # "none" /\ EndMovie /\ taped' = taped /\ movie' = "none"
      /\ UNCHANGED <<on, enabled>> /\ UNCHANGED <<now, shown, origin>> /\ UpdateRewinderState(TRUE)
  BY DEF TrackerInv, TypeOK, StopMovie, EndMovie, Idle, gameVars
<1>2. /\ ~rewinder /\ ForgetKeys /\ rewinder' = (enabled' /\ movie' = "none")
  BY <1>1 DEF TypeOK, UpdateRewinderState
<1>3. stage = "idle" /\ shown = now
  BY <1>1, <1>2, NoRewinderIs
<1>4. GameTypeOK' /\ GameInv'
  BY <1>1 DEF GameTypeOK, GameInv
<1>5. MovieTypeOK' /\ MovieInv'
  BY <1>1, StaysSame, EndMovieKeeps
<1>6. RewinderTypeOK' /\ RewindInv'
  BY <1>1, <1>2, <1>3, CleanSlate
<1> QED
  BY <1>1, <1>2, <1>4, <1>5, <1>6 DEF TrackerInv, TypeOK

\* The machine is reset, or a state is loaded.
LEMMA ResetOrLoadKeeps ==
    ASSUME TrackerInv, ResetOrLoad \/ PowerOn
    PROVE  TrackerInv'
<1>1. /\ TypeOK /\ GameInv /\ RewindInv /\ MovieInv /\ GameTypeOK /\ RewinderTypeOK /\ MovieTypeOK
      /\ (stage = "idle" /\ on /\ movie # "playing") \/ ~on
      /\ on' \in BOOLEAN /\ UNCHANGED <<enabled, rewinder>>
      /\ ForgetKeys /\ Resync /\ Forget(taped, Boot)
      /\ UNCHANGED <<taped, movie, player, file, tape, session, played, faults>>
  BY DEF TrackerInv, TypeOK, ResetOrLoad, PowerOn, ResyncAll, IsLocked, trackerVars, fileVars
<1>2. stage = "idle"
  BY <1>1 DEF RewindInv, StageInv
<1>3. PICK s \in {Boot, now} : s = Boot
  OBVIOUS
<1>4. /\ GameTypeOK' /\ GameInv' /\ shown' = now'
      /\ Grows(origin, origin', taped) /\ Len(origin') \in Nat
  BY <1>1, <1>3, ForgetKeeps
<1>5. MovieTypeOK' /\ MovieInv'
  <2>1. /\ recorder' = recorder \/ recorder' = [recorder EXCEPT !.resync = TRUE]
        /\ movie = "recording" => recorder' = [recorder EXCEPT !.resync = TRUE]
    BY <1>1 DEF Resync
  <2>2. movie = "recording" => recorder'.resync
    BY <2>1 DEF MovieTypeOK, TypeOK, TrackerInv
  <2>3. ~(movie = "playing" /\ played > 0)
    BY <1>1 DEF MovieInv, PlayInv
  <2> QED
    BY <1>1, <1>4, <2>1, <2>2, <2>3, MovieStays
<1>6. RewinderTypeOK' /\ RewindInv'
  BY <1>1, <1>2, <1>4, CleanSlate
<1> QED
  BY <1>1, <1>4, <1>5, <1>6 DEF TrackerInv, TypeOK

LEMMA PowerOffKeeps ==
    ASSUME TrackerInv, PowerOff
    PROVE  TrackerInv'
<1>1. /\ TypeOK /\ GameInv /\ RewindInv /\ MovieInv /\ GameTypeOK /\ RewinderTypeOK /\ MovieTypeOK
      /\ stage = "idle" /\ on' = FALSE /\ EndMovie /\ taped' = taped /\ movie' = "none"
      /\ enabled' = enabled /\ UNCHANGED <<now, shown, origin>> /\ UpdateRewinderState(TRUE)
  BY DEF TrackerInv, TypeOK, PowerOff, EndMovie, Idle, gameVars
<1>2. rewinder' = (enabled' /\ movie' = "none")
  BY <1>1 DEF UpdateRewinderState
<1>3. GameTypeOK' /\ GameInv'
  BY <1>1 DEF GameTypeOK, GameInv
<1>4. MovieTypeOK' /\ MovieInv'
  BY <1>1, StaysSame, EndMovieKeeps
<1>5. RewinderTypeOK' /\ RewindInv'
  <2>1. CASE rewinder /\ rewinder'
    <3>1. UNCHANGED <<rewinding, uturn, frame, key, keys, picture, slot, pingpong, stage, todo>>
      BY <1>1, <2>1 DEF UpdateRewinderState, rewinderVars, keyVars, videoVars, loopVars
    <3>2. RewinderTypeOK'
      BY <1>1, <3>1 DEF RewinderTypeOK
    <3>3. Current' = Current /\ Newer' = Newer /\ Older' = Older
      BY <3>1 DEF Current, Newer, Older
    <3>4. /\ \A n : RecordedTo(n)' = RecordedTo(n)
          /\ \A n : ReplayedTo(n)' = ReplayedTo(n)
          /\ Pictures' = Pictures /\ NextSlot' = NextSlot /\ NewerReady' = NewerReady /\ Fresh' = Fresh
      BY <1>1, <3>1, <3>3 DEF RecordedTo, ReplayedTo, Pictures, NextSlot, NewerReady, Fresh
    <3>5. StageInv'
      BY <1>1, <2>1, <3>1 DEF RewindInv, StageInv
    <3>6. RestInv' /\ ForwardInv' /\ BackInv'
      BY <1>1, <3>1, <3>3, <3>4 DEF RewindInv, RestInv, ForwardInv, BackInv, ForwardMode, BackMode
    <3>7. CatchUpInv' /\ StoreInv' /\ AlignInv' /\ BackAgainInv' /\ ResumeInv'
      BY <1>1, <3>1 DEF CatchUpInv, StoreInv, AlignInv, BackAgainInv, ResumeInv
    <3> QED
      BY <3>2, <3>5, <3>6, <3>7 DEF RewindInv
  <2>2. CASE ~(rewinder /\ rewinder')
    <3>1. ForgetKeys
      BY <1>1, <2>2 DEF UpdateRewinderState
    <3>2. ~rewinder
      BY <1>1, <1>2, <2>2 DEF TypeOK
    <3>3. shown' = now'
      BY <1>1, <3>2, NoRewinderIs
    <3> QED
      BY <1>1, <3>1, <3>3, CleanSlate
  <2> QED
    BY <2>1, <2>2
<1> QED
  BY <1>1, <1>2, <1>3, <1>4, <1>5 DEF TrackerInv, TypeOK

LEMMA KillKeeps ==
    ASSUME TrackerInv, Kill
    PROVE  TrackerInv'
<1>1. /\ TypeOK /\ GameInv /\ RewindInv /\ MovieInv /\ GameTypeOK /\ RewinderTypeOK /\ MovieTypeOK
      /\ movie = "recording" /\ faults > 0 /\ faults' = faults - 1 /\ Idle /\ movie' = "none"
      /\ Forget(taped, Boot) /\ on' = TRUE /\ enabled' = TRUE /\ rewinder' = TRUE /\ ForgetKeys
      /\ UNCHANGED <<file, tape, taped>>
  BY DEF TrackerInv, TypeOK, Kill, Idle, fileVars
<1>2. ~rewinder
  BY <1>1 DEF TypeOK
<1>3. stage = "idle"
  BY <1>1, <1>2, NoRewinderIs
<1>4. PICK s \in {Boot, now} : s = Boot
  OBVIOUS
<1>5. /\ GameTypeOK' /\ GameInv' /\ shown' = now'
      /\ Grows(origin, origin', taped) /\ Len(origin') \in Nat
  BY <1>1, <1>4, ForgetKeeps
<1>6. MovieTypeOK' /\ MovieInv'
  <2>1. TapeInv /\ faults' \in 0 .. MaxFaults
    BY <1>1, MovieAssumption DEF MovieInv, MovieTypeOK
  <2> QED
    BY <1>1, <1>5, <2>1, IdleKeeps
<1>7. RewinderTypeOK' /\ RewindInv'
  BY <1>1, <1>3, <1>5, CleanSlate
<1> QED
  BY <1>1, <1>5, <1>6, <1>7 DEF TrackerInv, TypeOK

\* At first.
LEMMA TrackerBegins ==
    ASSUME Init PROVE TrackerInv
<1>1. /\ now = Boot /\ shown = Boot /\ origin = <<Nowhere>>
      /\ rewinding = FALSE /\ uturn = FALSE /\ frame = Last /\ key = NumKeys - 1
      /\ keys = [k \in Keys |-> ResetKey]
      /\ picture = [f \in Frames |-> Nowhere] /\ slot = 0 /\ pingpong = 1
      /\ stage = "idle" /\ todo = 0
      /\ movie = "none" /\ recorder = IdleRecorder /\ player = IdlePlayer
      /\ file = NoFile /\ tape = << >> /\ session = << >> /\ played = 0
      /\ taped = 1 /\ faults = MaxFaults
      /\ on = TRUE /\ enabled = TRUE /\ rewinder = TRUE
  BY DEF Init, GameInit, RewinderInit, MovieInit
<1>2. GameTypeOK /\ GameInv
  <2>1. /\ 1 \in States /\ origin \in Seq({Nowhere} \cup States) /\ Len(origin) = 1 /\ origin[1] = 0
    BY <1>1, Sizes DEF States, Nowhere
  <2>2. \A t \in 1 .. 1 : origin[t] \in 0 .. t - 1
    BY <2>1
  <2>3. 1 \in 1 .. MaxStates /\ 1 \in 1 .. 1
    BY Sizes
  <2> QED
    BY <1>1, <2>1, <2>2, <2>3 DEF GameTypeOK, GameInv, Boot
<1>3. RewinderTypeOK
  <2>1. /\ Last \in Frames /\ 0 \in Frames /\ NumKeys - 1 \in Keys /\ 0 \in 0 .. 2 * NumFrames
    BY Sizes DEF Keys
  <2>2. /\ keys \in [Keys -> KeyType] /\ \A k \in Keys : Len(keys[k].input) <= NumFrames
    BY <1>1, ResetKeyIs, Sizes
  <2>3. picture \in [Frames -> {Nowhere} \cup States] /\ stage \in Stages
    BY <1>1 DEF Stages
  <2> QED
    BY <1>1, <2>1, <2>2, <2>3 DEF RewinderTypeOK
<1>4. RewindInv
  <2>1. Fresh /\ \A k \in Keys : keys[k] = ResetKey
    BY <1>1 DEF Fresh
  <2>2. \A k \in Keys : Kept(origin, taped, keys[k])
    BY <2>1, ResetKeyIs DEF Kept
  <2>3. \A k \in Keys : Linked(keys[k], keys[NextKey(k)])
    BY <2>1, ResetKeyIs DEF Linked
  <2>4. RestInv
    BY <1>1, <2>2, <2>3 DEF RestInv, ForwardMode
  <2>5. ForwardInv
    BY <1>1, <2>1 DEF ForwardInv
  <2> QED
    BY <1>1, <2>1, <2>4, <2>5
    DEF RewindInv, StageInv, CatchUpInv, StoreInv, AlignInv, BackAgainInv, BackInv, BackMode, ResumeInv
<1>5. MovieTypeOK
  <2>1. << >> \in Seq(States) /\ << >> \in Seq(KeyOfFile)
    BY EmptySeq
  <2>2. file \in [header : BOOLEAN, length : {Unclosed} \cup Nat, keys : Seq(KeyOfFile)]
    BY <1>1, <2>1 DEF NoFile
  <2>3. MaxFaults \in 0 .. MaxFaults /\ 1 \in States
    BY Sizes, MovieAssumption DEF States
  <2> QED
    BY <1>1, <2>1, <2>2, <2>3, IdleTypes DEF MovieTypeOK
<1>6. MovieInv
  BY <1>1 DEF MovieInv, TapeInv, RecInv, PlayInv, NoFile
<1> QED
  BY <1>1, <1>2, <1>3, <1>4, <1>5, <1>6 DEF TrackerInv, TypeOK

LEMMA TrackerGoesOn ==
    ASSUME TrackerInv, [Next]_vars PROVE TrackerInv'
<1>1. CASE Execute
  BY <1>1, RewinderKeeps, AloneKeeps, MovieKeeps, ExecuteEndKeeps DEF Execute
<1>2. CASE StartRewinding \/ StopRewinding
  BY <1>2, TurningKeeps
<1>3. CASE ResetRewinder
  BY <1>3, ResetRewinderKeeps
<1>4. CASE EnableRewinder
  BY <1>4, EnableRewinderKeeps
<1>5. ASSUME NEW append \in BOOLEAN, RecordMovie(append) PROVE TrackerInv'
  BY <1>5, RecordMovieKeeps
<1>6. CASE PlayMovie
  BY <1>6, PlayMovieKeeps
<1>7. CASE StopMovie
  BY <1>7, StopMovieKeeps
<1>8. ASSUME NEW what \in {"clean", "append", "play"}, RefuseMovie(what) PROVE TrackerInv'
  BY <1>8, RefuseMovieKeeps
<1>9. CASE ResetOrLoad \/ PowerOn
  BY <1>9, ResetOrLoadKeeps
<1>10. CASE PowerOff
  BY <1>10, PowerOffKeeps
<1>11. CASE Kill
  BY <1>11, KillKeeps
<1>12. CASE UNCHANGED vars
  <2>1. /\ UNCHANGED <<on, enabled, rewinder>> /\ UNCHANGED <<now, shown, origin>>
        /\ UNCHANGED <<rewinding, uturn, frame, key, keys, picture, slot, pingpong, stage, todo>>
        /\ UNCHANGED <<movie, recorder, player, file, tape, session, played, taped, faults>>
    BY <1>12 DEF vars, trackerVars, rewinderVars, movieVars, gameVars, keyVars, videoVars, loopVars,
                 fileVars
  <2>2. TypeOK'
    BY <2>1 DEF TrackerInv, TypeOK, GameTypeOK, RewinderTypeOK, MovieTypeOK
  <2>3. GameInv'
    BY <2>1 DEF TrackerInv, GameInv
  <2>4. RewindInv'
    BY <2>1 DEF TrackerInv, RewindInv, StageInv, RestInv, ForwardInv, CatchUpInv, StoreInv, AlignInv,
                BackAgainInv, BackInv, ResumeInv, ForwardMode, BackMode, RecordedTo, ReplayedTo,
                Pictures, NextSlot, NewerReady, Fresh, Current, Newer, Older
  <2>5. MovieInv'
    BY <2>1 DEF TrackerInv, MovieInv, TapeInv, RecInv, PlayInv, Reel
  <2> QED
    BY <2>2, <2>3, <2>4, <2>5 DEF TrackerInv
<1> QED
  BY <1>1, <1>2, <1>3, <1>4, <1>5, <1>6, <1>7, <1>8, <1>9, <1>10, <1>11, <1>12 DEF Next

LEMMA TrackerInvariant == Spec => []TrackerInv
<1>1. Init => TrackerInv
  BY TrackerBegins
<1>2. TrackerInv /\ [Next]_vars => TrackerInv'
  BY TrackerGoesOn
<1> QED
  BY <1>1, <1>2, PTL DEF Spec

-----------------------------------------------------------------------------

\* Whatever the user does in whatever order, there is a rewinder just when it is
\* enabled and no movie goes on, and the keys, the pictures, the file and the
\* positions in them are what the code takes them for.
THEOREM TrackerTypeCorrect == Spec => []TypeOK
<1>1. TrackerInv => TypeOK
  BY DEF TrackerInv
<1> QED
  BY <1>1, TrackerInvariant, PTL

\* Rewinding replays what was recorded (TurnBack to Resume of NstTrackerRewinder):
\* in any ring of at least three keys of any length, the machine never reads past
\* a key's input nor from another state than the one it was recorded from, the
\* screen never shows a picture that was not played, and a key that can be
\* rewound to leads to where the next begins.
THEOREM RewindingIsExact == Spec => []ReplayIsExact
<1>1. ASSUME TrackerInv PROVE ReplayIsExact
  <2>1. now # Nowhere /\ shown # Nowhere
    BY <1>1 DEF TrackerInv, GameInv, Nowhere
  <2>2. ASSUME NEW k \in Keys \ {key}, CanRewind(keys[k]), CanRewind(keys[NextKey(k)])
        PROVE  keys[k].input[Len(keys[k].input)] = keys[NextKey(k)].start
    <3>1. Kept(origin, taped, keys[k]) /\ Linked(keys[k], keys[NextKey(k)])
      BY <1>1 DEF TrackerInv, RewindInv, RestInv
    <3>2. Len(keys[k].input) = NumFrames /\ NumFrames # 0
      BY <2>2, <3>1, Sizes DEF Kept, Whole
    <3> QED
      BY <2>2, <3>1, <3>2 DEF Linked, StateAfter
  <2> QED
    BY <2>1, <2>2 DEF ReplayIsExact, KeysAreLinked
<1> QED
  BY <1>1, TrackerInvariant, PTL

\* A movie shows, frame for frame and to its last one, what its recordings that
\* were stopped went through (Recorder and Player of NstTrackerMovie): however
\* many keys it was cut into, resets and states loaded while it was recorded,
\* times it was appended to, and recordings that failed or were cut off.
THEOREM PlayingIsExact == Spec => []PlaybackIsExact
<1>1. ASSUME TrackerInv PROVE PlaybackIsExact
  <2> SUFFICES ASSUME movie = "playing"
               PROVE  /\ played <= Len(tape)
                      /\ played > 0 => now = tape[played] /\ shown = now
                      /\ NothingLeft <=> played = Len(tape)
    BY DEF PlaybackIsExact
  <2>1. /\ MovieTypeOK /\ TapeInv /\ Len(tape) \in Nat
    BY <1>1, MovieTypes DEF TrackerInv, TypeOK, MovieInv
  <2>2. /\ played \in 0 .. Len(tape)
        /\ file.length = Unclosed => player = IdlePlayer
        /\ file.length # Unclosed =>
             \E run : /\ Runs(origin, taped, file.keys, file.length, tape, Len(tape), run)
                      /\ player = run[played]
        /\ played > 0 => on /\ now = tape[played] /\ shown = now
    BY <1>1 DEF TrackerInv, MovieInv, PlayInv
  <2>3. NothingLeft <=> played = Len(tape)
    <3>1. CASE file.length = Unclosed
      <4>1. tape = << >> /\ player.frame = 0 /\ player.next = 1
        BY <2>1, <2>2, <3>1 DEF TapeInv, IdlePlayer
      <4>2. Len(tape) = 0 /\ played = 0
        BY <2>2, <4>1, EmptySeq
      <4>3. NothingLeft
        BY <3>1, <4>1 DEF NothingLeft, Unclosed
      <4> QED
        BY <4>2, <4>3
    <3>2. CASE file.length # Unclosed
      <4>1. PICK run : /\ Runs(origin, taped, file.keys, file.length, tape, Len(tape), run)
                       /\ player = run[played]
        BY <2>2, <3>2
      <4>2. file.length \in Nat
        BY <2>1, <3>2, MovieTypes
      <4>3. CASE played = Len(tape)
        BY <4>1, <4>2, <4>3 DEF Runs, NothingLeft
      <4>4. CASE played # Len(tape)
        <5> DEFINE j == played + 1
        <5>1. j \in 1 .. Len(tape) /\ j - 1 = played /\ played \in Nat
          BY <2>1, <2>2, <4>4
        <5>2. Turn(origin, taped, file.keys, file.length, tape, player, run[j], j)
          BY <4>1, <5>1 DEF Runs
        <5> HIDE DEF j
        <5>3. player.frame > 0 \/ player.next \in 1 .. file.length
          BY <5>2 DEF Turn
        <5>4. ~NothingLeft
          BY <4>2, <5>3 DEF NothingLeft
        <5> QED
          BY <4>4, <5>4
      <4> QED
        BY <4>3, <4>4
    <3> QED
      BY <3>1, <3>2
  <2> QED
    BY <2>1, <2>2, <2>3
<1> QED
  BY <1>1, TrackerInvariant, PTL

-----------------------------------------------------------------------------
\* What is seen.

\* The equation of PastOf, for the states up to n.
PastEq(o, m, n, f) ==
    f = [s \in 0 .. n |->
            IF s = Nowhere THEN << >>
            ELSE IF s <= m THEN <<s>> ELSE Append(f[o[s]], s)]

Past(o, m) ==
    LET past[s \in 0 .. Len(o)] ==
            IF s = Nowhere THEN << >>
            ELSE IF s <= m THEN <<s>> ELSE Append(past[o[s]], s)
    IN  past

LEMMA PastExists ==
    ASSUME NEW o, NEW m, Len(o) \in Nat, \A s \in 1 .. Len(o) : o[s] \in 0 .. s - 1
    PROVE  \E f : PastEq(o, m, Len(o), f)
<1> DEFINE Bad == {n \in 0 .. Len(o) : ~\E f : PastEq(o, m, n, f)}
<1> SUFFICES ASSUME Bad # {} PROVE FALSE
  <2>1. Len(o) \notin Bad => \E f : PastEq(o, m, Len(o), f)
    OBVIOUS
  <2> QED
    BY <2>1
<1>1. PICK n \in Bad : \A k \in Bad : n <= k
  <2>1. Bad \subseteq Nat
    OBVIOUS
  <2> HIDE DEF Bad
  <2> QED
    BY <2>1, LeastOf
<1>2. n # 0
  <2>1. PastEq(o, m, 0, [s \in 0 .. 0 |-> << >>])
    BY DEF PastEq, Nowhere
  <2> QED
    BY <2>1
<1>3. n - 1 \in 0 .. Len(o) /\ n - 1 \notin Bad /\ n \in 0 .. Len(o)
  BY <1>1, <1>2
<1>4. PICK f : PastEq(o, m, n - 1, f)
  BY <1>3
<1> DEFINE h == [s \in 0 .. n |-> IF s = Nowhere THEN << >>
                                  ELSE IF s <= m THEN <<s>> ELSE Append(f[o[s]], s)]
<1>5. \A s \in 0 .. n - 1 : h[s] = f[s]
  <2>1. \A s \in 0 .. n - 1 : f[s] = IF s = Nowhere THEN << >>
                                    ELSE IF s <= m THEN <<s>> ELSE Append(f[o[s]], s)
    BY <1>4 DEF PastEq
  <2>2. \A s \in 0 .. n - 1 : s \in 0 .. n
    BY <1>3
  <2> QED
    BY <2>1, <2>2
<1>6. \A s \in 1 .. n : o[s] \in 0 .. n - 1
  BY <1>3
<1>7. PastEq(o, m, n, h)
  <2>1. \A s \in 0 .. n : s # Nowhere => h[o[s]] = f[o[s]]
    <3> HIDE DEF h
    <3>1. ASSUME NEW s \in 0 .. n, s # Nowhere PROVE h[o[s]] = f[o[s]]
      <4>1. s \in 1 .. n
        BY <1>3, <3>1 DEF Nowhere
      <4>2. o[s] \in 0 .. n - 1
        BY <1>6, <4>1
      <4> QED
        BY <1>5, <4>2
    <3> QED
      BY <3>1
  <2>2. h = [s \in 0 .. n |-> IF s = Nowhere THEN << >>
                             ELSE IF s <= m THEN <<s>> ELSE Append(h[o[s]], s)]
    <3> DEFINE g == [s \in 0 .. n |-> IF s = Nowhere THEN << >>
                                     ELSE IF s <= m THEN <<s>> ELSE Append(h[o[s]], s)]
    <3>1. \A s \in 0 .. n : g[s] = IF s = Nowhere THEN << >>
                                   ELSE IF s <= m THEN <<s>> ELSE Append(h[o[s]], s)
      OBVIOUS
    <3>2. \A s \in 0 .. n : h[s] = IF s = Nowhere THEN << >>
                                   ELSE IF s <= m THEN <<s>> ELSE Append(f[o[s]], s)
      OBVIOUS
    <3>3. h = [s \in 0 .. n |-> h[s]] /\ g = [s \in 0 .. n |-> g[s]]
      OBVIOUS
    <3> HIDE DEF g, h
    <3>4. \A s \in 0 .. n : h[s] = g[s]
      BY <2>1, <3>1, <3>2
    <3>5. h = g
      BY <3>3, <3>4
    <3> QED
      BY <3>5 DEF g
  <2> QED
    BY <2>2 DEF PastEq
<1> QED
  BY <1>1, <1>7

LEMMA PastIs ==
    ASSUME NEW o, NEW m, Len(o) \in Nat, \A s \in 1 .. Len(o) : o[s] \in 0 .. s - 1
    PROVE  PastEq(o, m, Len(o), Past(o, m))
<1>1. \E f : f = [s \in 0 .. Len(o) |->
                     IF s = Nowhere THEN << >>
                     ELSE IF s <= m THEN <<s>> ELSE Append(f[o[s]], s)]
  <2>1. PICK f : PastEq(o, m, Len(o), f)
    BY PastExists
  <2> QED
    BY <2>1 DEF PastEq
<1> QED
  BY <1>1 DEF Past, PastEq

LEMMA PastOfIs == PastOf = Past(origin, taped)
BY DEF PastOf, Past

LEMMA PastAt ==
    ASSUME NEW o, NEW m, Len(o) \in Nat, \A s \in 1 .. Len(o) : o[s] \in 0 .. s - 1,
           NEW s \in 0 .. Len(o)
    PROVE  Past(o, m)[s] = IF s = Nowhere THEN << >>
                           ELSE IF s <= m THEN <<s>> ELSE Append(Past(o, m)[o[s]], s)
<1> DEFINE f == Past(o, m)
<1>1. PastEq(o, m, Len(o), f)
  BY PastIs
<1> HIDE DEF f
<1>2. f[s] = IF s = Nowhere THEN << >> ELSE IF s <= m THEN <<s>> ELSE Append(f[o[s]], s)
  BY <1>1 DEF PastEq
<1> QED
  BY <1>2 DEF f

\* It is a sequence of states, and there is one in it.
LEMMA PastTypes ==
    ASSUME NEW o, NEW m, Len(o) \in Nat, \A s \in 1 .. Len(o) : o[s] \in 0 .. s - 1,
           Len(o) <= MaxStates
    PROVE  \A s \in 0 .. Len(o) : Past(o, m)[s] \in Seq(States)
<1> DEFINE f == Past(o, m)
           Bad == {n \in 0 .. Len(o) : f[n] \notin Seq(States)}
<1> SUFFICES ASSUME Bad # {} PROVE FALSE
  <2>1. ASSUME NEW s \in 0 .. Len(o), s \notin Bad PROVE Past(o, m)[s] \in Seq(States)
    BY <2>1
  <2> QED
    BY <2>1
<1> HIDE DEF f
<1>1. PICK n \in Bad : \A k \in Bad : n <= k
  <2>1. Bad \subseteq Nat
    OBVIOUS
  <2> HIDE DEF Bad
  <2> QED
    BY <2>1, LeastOf
<1>2. n \in 0 .. Len(o) /\ f[n] \notin Seq(States)
  OBVIOUS
<1>3. f[n] = IF n = Nowhere THEN << >> ELSE IF n <= m THEN <<n>> ELSE Append(f[o[n]], n)
  BY <1>2, PastAt DEF f
<1>4. n # Nowhere
  <2>1. << >> \in Seq(States)
    BY EmptySeq
  <2> QED
    BY <1>2, <1>3, <2>1
<1>5. n \in States /\ n \in 1 .. Len(o)
  BY <1>2, <1>4, Sizes DEF States, Nowhere
<1>6. CASE n <= m
  <2>1. <<n>> \in Seq(States)
    BY <1>5
  <2> QED
    BY <1>2, <1>3, <1>4, <1>6, <2>1
<1>7. CASE ~(n <= m)
  <2>1. o[n] \in 0 .. n - 1
    BY <1>5
  <2>2. o[n] \in 0 .. Len(o) /\ o[n] < n /\ ~(n <= o[n])
    BY <1>2, <2>1
  <2>3. f[o[n]] \in Seq(States)
    BY <1>1, <2>2
  <2>4. Append(f[o[n]], n) \in Seq(States)
    BY <1>5, <2>3, AppendProperties
  <2> QED
    BY <1>2, <1>3, <1>4, <1>7, <2>4
<1> QED
  BY <1>6, <1>7

\* Nothing that is added later changes it.
LEMMA PastLasts ==
    ASSUME NEW o, NEW p, NEW m, Len(o) \in Nat, \A s \in 1 .. Len(o) : o[s] \in 0 .. s - 1,
           Len(p) \in Nat, \A s \in 1 .. Len(p) : p[s] \in 0 .. s - 1,
           Grows(o, p, Len(o))
    PROVE  \A s \in 0 .. Len(o) : Past(p, m)[s] = Past(o, m)[s]
<1> DEFINE f == Past(o, m)
           g == Past(p, m)
           Bad == {n \in 0 .. Len(o) : g[n] # f[n]}
<1> SUFFICES ASSUME Bad # {} PROVE FALSE
  <2>1. ASSUME NEW s \in 0 .. Len(o), s \notin Bad PROVE Past(p, m)[s] = Past(o, m)[s]
    BY <2>1
  <2> QED
    BY <2>1
<1> HIDE DEF f, g
<1>1. PICK n \in Bad : \A k \in Bad : n <= k
  <2>1. Bad \subseteq Nat
    OBVIOUS
  <2> HIDE DEF Bad
  <2> QED
    BY <2>1, LeastOf
<1>2. n \in 0 .. Len(o) /\ g[n] # f[n] /\ n \in 0 .. Len(p) /\ n \in Nat
  BY DEF Grows
<1>3. f[n] = IF n = Nowhere THEN << >> ELSE IF n <= m THEN <<n>> ELSE Append(f[o[n]], n)
  BY <1>2, PastAt DEF f
<1>4. g[n] = IF n = Nowhere THEN << >> ELSE IF n <= m THEN <<n>> ELSE Append(g[p[n]], n)
  BY <1>2, PastAt DEF g
<1>5. n # Nowhere
  BY <1>2, <1>3, <1>4
<1>6. n \in 1 .. Len(o) /\ p[n] = o[n] /\ o[n] \in 0 .. n - 1
  <2>1. n \in 1 .. Len(o)
    BY <1>2, <1>5 DEF Nowhere
  <2> QED
    BY <2>1 DEF Grows
<1>7. o[n] \in 0 .. Len(o) /\ ~(n <= o[n])
  BY <1>2, <1>6
<1>8. g[o[n]] = f[o[n]]
  BY <1>1, <1>7
<1> QED
  BY <1>2, <1>3, <1>4, <1>6, <1>8

LEMMA FrontIs ==
    ASSUME NEW S, NEW seq \in Seq(S), NEW e \in S
    PROVE  SubSeq(Append(seq, e), 1, Len(Append(seq, e)) - 1) = seq
<1> DEFINE q == Append(seq, e)
           r == SubSeq(q, 1, Len(seq))
<1>1. /\ q \in Seq(S) /\ Len(q) = Len(seq) + 1 /\ Len(seq) \in Nat
      /\ \A i \in 1 .. Len(seq) : q[i] = seq[i]
  BY AppendProperties, LenProperties
<1> HIDE DEF q
<1>2. \A i \in 1 .. Len(seq) : q[i] \in S
  BY <1>1, ElementOfSeq
<1>3. /\ r \in Seq(S) /\ Len(r) = IF 1 <= Len(seq) THEN Len(seq) - 1 + 1 ELSE 0
      /\ \A i \in 1 .. Len(seq) - 1 + 1 : r[i] = q[1 + i - 1]
  BY <1>1, <1>2, SubSeqProperties
<1>4. /\ Len(seq) - 1 + 1 = Len(seq) /\ Len(q) - 1 = Len(seq)
      /\ (IF 1 <= Len(seq) THEN Len(seq) ELSE 0) = Len(seq)
      /\ \A i \in 1 .. Len(seq) : 1 + i - 1 = i
  BY <1>1
<1> HIDE DEF r
<1>5. Len(r) = Len(seq) /\ \A i \in 1 .. Len(seq) : r[i] = seq[i]
  BY <1>1, <1>3, <1>4
<1>6. r = seq
  BY <1>3, <1>5, SeqEqual
<1> QED
  BY <1>4, <1>6 DEF q, r

-----------------------------------------------------------------------------
\* The steps of Timeline.

\* The pictures that led to the one on the screen.
Seen == PastOf[shown]

LEMMA SeenIs ==
    ASSUME GameTypeOK, GameInv
    PROVE  /\ Len(origin) \in Nat /\ Len(origin) <= MaxStates
           /\ shown \in 1 .. Len(origin) /\ shown \in States /\ shown # Nowhere
           /\ Seen = Past(origin, taped)[shown]
           /\ \A s \in 0 .. Len(origin) :
                 /\ Past(origin, taped)[s] \in Seq(States)
                 /\ Past(origin, taped)[s] = IF s = Nowhere THEN << >>
                        ELSE IF s <= taped THEN <<s>> ELSE Append(Past(origin, taped)[origin[s]], s)
<1>1. /\ Len(origin) \in Nat /\ Len(origin) <= MaxStates /\ MaxStates \in Nat
      /\ \A s \in 1 .. Len(origin) : origin[s] \in 0 .. s - 1
      /\ shown \in 1 .. Len(origin)
  BY OriginIs, Sizes DEF GameInv
<1>2. \A s \in 0 .. Len(origin) : Past(origin, taped)[s] \in Seq(States)
  BY <1>1, PastTypes
<1>3. \A s \in 0 .. Len(origin) :
         Past(origin, taped)[s] = IF s = Nowhere THEN << >>
             ELSE IF s <= taped THEN <<s>> ELSE Append(Past(origin, taped)[origin[s]], s)
  BY <1>1, PastAt
<1>4. Seen = Past(origin, taped)[shown]
  BY PastOfIs DEF Seen
<1>5. shown \in States /\ shown # Nowhere
  BY <1>1 DEF States, Nowhere
<1> QED
  BY <1>1, <1>2, <1>3, <1>4, <1>5

LEMMA SeenNext ==
    ASSUME GameTypeOK', GameInv'
    PROVE  /\ Len(origin') \in Nat /\ Len(origin') <= MaxStates
           /\ shown' \in 1 .. Len(origin') /\ shown' \in States /\ shown' # Nowhere
           /\ Seen' = Past(origin', taped')[shown']
           /\ \A s \in 0 .. Len(origin') :
                 /\ Past(origin', taped')[s] \in Seq(States)
                 /\ Past(origin', taped')[s] = IF s = Nowhere THEN << >>
                        ELSE IF s <= taped' THEN <<s>> ELSE Append(Past(origin', taped')[origin'[s]], s)
<1>1. /\ Len(origin') \in Nat /\ Len(origin') <= MaxStates /\ MaxStates \in Nat
      /\ \A s \in 1 .. Len(origin') : origin'[s] \in 0 .. s - 1
      /\ shown' \in 1 .. Len(origin')
  BY LenProperties, Sizes DEF GameInv, GameTypeOK
<1>2. \A s \in 0 .. Len(origin') : Past(origin', taped')[s] \in Seq(States)
  BY <1>1, PastTypes
<1>3. \A s \in 0 .. Len(origin') :
         Past(origin', taped')[s] = IF s = Nowhere THEN << >>
             ELSE IF s <= taped' THEN <<s>> ELSE Append(Past(origin', taped')[origin'[s]], s)
  BY <1>1, PastAt
<1>4. Seen' = Past(origin', taped')[shown']
  BY DEF Seen, PastOf, Past
<1>5. shown' \in States /\ shown' # Nowhere
  BY <1>1 DEF States, Nowhere
<1> QED
  BY <1>1, <1>2, <1>3, <1>4, <1>5

WatchedStep == Watched!Next \/ UNCHANGED Watched!timelineVars

LEMMA Jumps ==
    ASSUME GameTypeOK', GameInv', ~IsRewinding',
           shown' <= taped' \/ origin'[shown'] = Nowhere
    PROVE  WatchedStep
<1>1. Seen' = <<shown'>> /\ shown' \in States
  <2>0. /\ shown' \in States /\ shown' # Nowhere /\ shown' \in 0 .. Len(origin') /\ 0 \in 0 .. Len(origin')
        /\ Seen' = Past(origin', taped')[shown']
    BY SeenNext
  <2>1. Seen' = IF shown' <= taped' THEN <<shown'>>
                ELSE Append(Past(origin', taped')[origin'[shown']], shown')
    BY <2>0, SeenNext
  <2>2. Past(origin', taped')[Nowhere] = << >>
    BY <2>0, SeenNext DEF Nowhere
  <2>3. Append(<< >>, shown') = <<shown'>>
    OBVIOUS
  <2> QED
    BY <2>0, <2>1, <2>2, <2>3
<1>2. Watched!Jump
  BY <1>1 DEF Watched!Jump, Seen
<1> QED
  BY <1>2 DEF WatchedStep, Watched!Next

LEMMA SeenStays ==
    ASSUME GameTypeOK, GameInv, GameTypeOK', GameInv',
           Grows(origin, origin', Len(origin)), taped' = taped
    PROVE  \A s \in 0 .. Len(origin) : Past(origin', taped')[s] = Past(origin, taped)[s]
<1>1. /\ Len(origin) \in Nat /\ \A s \in 1 .. Len(origin) : origin[s] \in 0 .. s - 1
      /\ Len(origin') \in Nat /\ \A s \in 1 .. Len(origin') : origin'[s] \in 0 .. s - 1
  BY LenProperties, Sizes DEF GameInv, GameTypeOK
<1>2. \A s \in 0 .. Len(origin) : Past(origin', taped)[s] = Past(origin, taped)[s]
  BY <1>1, PastLasts
<1> QED
  BY <1>2

LEMMA Plays ==
    ASSUME GameTypeOK, GameInv, GameTypeOK', GameInv', ~IsRewinding, ~IsRewinding',
           Grows(origin, origin', Len(origin)), taped' = taped,
           shown' = Len(origin) + 1, origin'[shown'] = shown
    PROVE  WatchedStep
<1>1. /\ shown \in 1 .. Len(origin) /\ Len(origin) \in Nat /\ Seen = Past(origin, taped)[shown]
      /\ taped \in 1 .. Len(origin)
  BY SeenIs DEF GameInv
<1>2. Past(origin', taped')[shown] = Seen
  BY <1>1, SeenStays
<1>3. ~(shown' <= taped')
  BY <1>1
<1>4. Seen' = Append(Seen, shown') /\ shown' \in States
  <2>1. /\ shown' \in States /\ shown' # Nowhere /\ shown' \in 0 .. Len(origin')
        /\ Seen' = Past(origin', taped')[shown']
    BY SeenNext
  <2>2. Seen' = Append(Past(origin', taped')[origin'[shown']], shown')
    BY <1>3, <2>1, SeenNext
  <2> QED
    BY <1>2, <2>1, <2>2
<1>5. Watched!Play
  <2>1. IsRewinding' = IsRewinding
    BY DEF IsRewinding
  <2> QED
    BY <1>4, <2>1 DEF Watched!Play, Seen
<1> QED
  BY <1>5 DEF WatchedStep, Watched!Next

\* The picture stays, and the game may go on.
LEMMA Stays ==
    ASSUME GameTypeOK, GameInv, GameTypeOK', GameInv',
           Grows(origin, origin', Len(origin)), taped' = taped, shown' = shown
    PROVE  Seen' = Seen
<1>1. /\ shown \in 0 .. Len(origin) /\ Seen = Past(origin, taped)[shown]
  BY SeenIs
<1>2. Past(origin', taped')[shown] = Seen
  BY <1>1, SeenStays
<1>3. Seen' = Past(origin', taped')[shown']
  BY SeenNext
<1> QED
  BY <1>2, <1>3

LEMMA Stutters ==
    ASSUME GameTypeOK, GameInv, GameTypeOK', GameInv',
           Grows(origin, origin', Len(origin)), taped' = taped, shown' = shown,
           IsRewinding' = IsRewinding
    PROVE  WatchedStep
<1>1. Seen' = Seen
  BY Stays
<1> QED
  BY <1>1 DEF WatchedStep, Watched!timelineVars, Seen

\* The picture on the screen was played from state s.
LEMMA SeenFrom ==
    ASSUME GameTypeOK, GameInv, shown > taped
    PROVE  /\ Past(origin, taped)[origin[shown]] \in Seq(States)
           /\ Seen = Append(Past(origin, taped)[origin[shown]], shown)
           /\ SubSeq(Seen, 1, Len(Seen) - 1) = Past(origin, taped)[origin[shown]]
           /\ origin[shown] # Nowhere => Len(Past(origin, taped)[origin[shown]]) > 0
<1> DEFINE f == Past(origin, taped)
           s == origin[shown]
<1>1. /\ Len(origin) \in Nat /\ shown \in 1 .. Len(origin) /\ shown \in States /\ shown # Nowhere
      /\ s \in 0 .. Len(origin) /\ taped \in Nat
      /\ \A t \in 1 .. Len(origin) : origin[t] \in 0 .. Len(origin)
  BY SeenIs DEF GameInv
<1>2. f[s] \in Seq(States)
  BY <1>1, SeenIs
<1>3. Seen = Append(f[s], shown)
  <2>1. ~(shown <= taped) /\ shown \in 0 .. Len(origin)
    BY <1>1
  <2>2. f[shown] = IF shown = Nowhere THEN << >>
                   ELSE IF shown <= taped THEN <<shown>> ELSE Append(f[s], shown)
    BY <2>1, SeenIs
  <2>3. Seen = f[shown]
    BY SeenIs
  <2> QED
    BY <1>1, <2>1, <2>2, <2>3
<1>4. SubSeq(Seen, 1, Len(Seen) - 1) = f[s]
  BY <1>1, <1>2, <1>3, FrontIs
<1>5. s # Nowhere => Len(f[s]) > 0
  <2>1. f[s] = IF s = Nowhere THEN << >>
               ELSE IF s <= taped THEN <<s>> ELSE Append(f[origin[s]], s)
    BY <1>1, SeenIs
  <2>2. CASE s # Nowhere /\ s <= taped
    BY <2>1, <2>2
  <2>3. CASE s # Nowhere /\ ~(s <= taped)
    <3>1. s \in 1 .. Len(origin) /\ s \in States
      <4>1. Len(origin) <= MaxStates /\ MaxStates \in Nat
        BY SeenIs, Sizes
      <4> HIDE DEF s
      <4> QED
        BY <1>1, <2>3, <4>1 DEF Nowhere, States
    <3>2. f[origin[s]] \in Seq(States)
      BY <1>1, <3>1, SeenIs
    <3>3. Len(Append(f[origin[s]], s)) = Len(f[origin[s]]) + 1 /\ Len(f[origin[s]]) \in Nat
      BY <3>1, <3>2, AppendProperties, LenProperties
    <3> QED
      BY <2>1, <2>3, <3>3
  <2> QED
    BY <2>2, <2>3
<1> QED
  BY <1>2, <1>3, <1>4, <1>5

LEMMA PartsOfInv ==
    /\ TrackerInv => /\ GameTypeOK /\ RewinderTypeOK /\ MovieTypeOK /\ GameInv /\ RewindInv
                     /\ PlayInv /\ rewinder = (enabled /\ movie = "none")
    /\ TrackerInv' => /\ GameTypeOK' /\ RewinderTypeOK' /\ MovieTypeOK' /\ GameInv' /\ RewindInv'
                      /\ PlayInv' /\ rewinder' = (enabled' /\ movie' = "none")
BY DEF TrackerInv, TypeOK, MovieInv

-----------------------------------------------------------------------------
\* The rewinder's steps.

LEMMA LivePlays ==
    ASSUME TrackerInv, TrackerInv', LiveFrame, shown = now, taped' = taped,
           ~IsRewinding, ~IsRewinding'
    PROVE  WatchedStep
<1>1. GameTypeOK /\ GameInv /\ GameTypeOK' /\ GameInv'
  BY PartsOfInv
<1>2. PlayFrom(now) /\ shown' = NewState
  BY DEF LiveFrame
<1>3. now \in 1 .. Len(origin)
  BY <1>1 DEF GameInv
<1>4. NewState = Len(origin) + 1 /\ origin'[NewState] = now /\ Grows(origin, origin', Len(origin))
  BY <1>1, <1>2, <1>3, PlayIs
<1> QED
  BY <1>1, <1>2, <1>4, Plays

LEMMA ForwardSeen ==
    ASSUME TrackerInv, TrackerInv', ExecuteForward, UNCHANGED <<trackerVars, movieVars>>
    PROVE  WatchedStep
<1>1. RewindInv
  BY PartsOfInv
<1>2. ForwardMode /\ ~rewinding /\ ~rewinding' /\ LiveFrame
  BY <1>1 DEF ExecuteForward, Running, ForwardMode, RewindInv, StageInv
<1>3. shown = now
  BY <1>1, <1>2 DEF RewindInv, ForwardInv
<1>4. taped' = taped
  BY DEF movieVars
<1> QED
  BY <1>2, <1>3, <1>4, LivePlays DEF IsRewinding

LEMMA AloneSeen ==
    ASSUME TrackerInv, TrackerInv', ExecuteAlone
    PROVE  WatchedStep
<1>1. RewindInv
  BY PartsOfInv
<1>2. ~rewinder /\ rewinder' = rewinder /\ LiveFrame /\ taped' = taped
  BY DEF ExecuteAlone, trackerVars, movieVars
<1>3. shown = now
  BY <1>1, <1>2, NoRewinderIs
<1> QED
  BY <1>2, <1>3, LivePlays DEF IsRewinding

LEMMA EndSeen ==
    ASSUME TrackerInv, TrackerInv', ExecuteEnd
    PROVE  WatchedStep
<1>1. RewindInv /\ rewinder = (enabled /\ movie = "none")
  BY PartsOfInv
<1>2. LiveFrame /\ taped' = taped /\ UpdateRewinderState(TRUE) /\ movie # "none"
  BY DEF ExecuteEnd, EndPlaying, FailRecording
<1>3. ~rewinder /\ ~rewinding'
  BY <1>1, <1>2 DEF UpdateRewinderState, ForgetKeys
<1>4. shown = now
  BY <1>1, <1>3, NoRewinderIs
<1> QED
  BY <1>2, <1>3, <1>4, LivePlays DEF IsRewinding

LEMMA StartSeen ==
    ASSUME TrackerInv, TrackerInv', StartRewinding \/ StopRewinding
    PROVE  WatchedStep
<1>1. GameTypeOK /\ GameInv /\ GameTypeOK' /\ GameInv'
  BY PartsOfInv
<1>2. /\ origin' = origin /\ shown' = shown /\ taped' = taped /\ rewinder /\ rewinder' = rewinder
      /\ rewinding' = ~rewinding
  <2>1. CASE StartRewinding
    BY <2>1 DEF StartRewinding, Start, gameVars, trackerVars, movieVars
  <2>2. CASE StopRewinding
    BY <2>2 DEF StopRewinding, Stop, gameVars, trackerVars, movieVars
  <2> QED
    BY <2>1, <2>2
<1>3. Grows(origin, origin', Len(origin))
  BY <1>1, <1>2, OriginIs DEF Grows
<1>4. Seen' = Seen
  BY <1>1, <1>2, <1>3, Stays
<1>5. IsRewinding' = ~IsRewinding
  BY <1>2 DEF IsRewinding
<1>6. Watched!Turn
  BY <1>4, <1>5 DEF Watched!Turn, Seen
<1> QED
  BY <1>6 DEF WatchedStep, Watched!Next

LEMMA TurningSeen ==
    ASSUME TrackerInv, TrackerInv', TurnBackStep \/ TurnForwardStep,
           UNCHANGED <<trackerVars, movieVars>>
    PROVE  WatchedStep
<1>1. GameTypeOK /\ GameInv /\ GameTypeOK' /\ GameInv'
  BY PartsOfInv
<1>2. shown' = shown /\ rewinding' = rewinding /\ (CatchUp \/ origin' = origin)
  <2>1. CASE TurnBackStep
    BY <2>1 DEF TurnBackStep, TurnBack, CatchUp, BeginStore, StoreKey, BeginAlign, Align, Aligned,
                BackInKey, BackToPrevKey, ReplayFrom, gameVars
  <2>2. CASE TurnForwardStep
    BY <2>2 DEF TurnForwardStep, TurnForward, ReplayForward, Resume, ReplayFrom, gameVars
  <2> QED
    BY <2>1, <2>2
<1>3. Grows(origin, origin', Len(origin))
  <2>1. CASE CatchUp
    <3>1. PlayFrom(now) /\ now \in 1 .. Len(origin)
      BY <1>1, <2>1 DEF CatchUp, GameInv
    <3> QED
      BY <1>1, <3>1, PlayIs
  <2>2. CASE origin' = origin
    BY <1>1, <2>2, OriginIs DEF Grows
  <2> QED
    BY <1>2, <2>1, <2>2
<1>4. taped' = taped /\ IsRewinding' = IsRewinding
  BY <1>2 DEF movieVars, trackerVars, IsRewinding
<1> QED
  BY <1>1, <1>2, <1>3, <1>4, Stutters
\* The picture after the one on the screen was played from it: i frames of the
\* newer key were not shown in reverse yet.
LEMMA ShownWasPlayed ==
    ASSUME GameTypeOK, RewinderTypeOK, GameInv, NewerReady,
           NEW i \in 0 .. Last, shown = Newer.input[i + 1]
    PROVE  shown > taped /\ origin[shown] = StateAfter(Newer, i)
<1>1. i + 1 \in 1 .. NumFrames /\ (i + 1) - 1 = i /\ taped \in Nat /\ Len(origin) \in Nat
  BY Sizes, OriginIs DEF GameInv
<1>2. Len(Newer.input) = NumFrames /\ Leads(origin, taped, Newer)
  BY DEF NewerReady, At, Whole
<1>3. Newer.input[i + 1] \in taped + 1 .. Len(origin)
  BY <1>1, <1>2 DEF Leads
<1>4. origin[Newer.input[i + 1]] = StateAfter(Newer, (i + 1) - 1)
  BY <1>1, <1>2 DEF Leads
<1> QED
  BY <1>1, <1>3, <1>4

LEMMA BackSeen ==
    ASSUME TrackerInv, TrackerInv', rewinder, ExecuteBackward, UNCHANGED <<trackerVars, movieVars>>
    PROVE  WatchedStep
<1>1. GameTypeOK /\ GameInv /\ GameTypeOK' /\ GameInv' /\ RewinderTypeOK /\ RewindInv
  BY PartsOfInv
<1>2. taped' = taped /\ shown' = picture[slot] /\ rewinding /\ rewinding' = rewinding
      /\ (BackInKey \/ BackToPrevKey) /\ (BackMode \/ stage = "back")
  BY DEF ExecuteBackward, movieVars, Running, BackMode
<1>3. IsRewinding /\ IsRewinding'
  BY <1>2 DEF IsRewinding, trackerVars
<1>4. Passing
  BY <1>1, <1>2, PassingWhen
<1>5. BackMode => NewerReady /\ shown = Newer.input[NumFrames - frame]
  BY <1>1 DEF RewindInv, BackInv
<1>6. stage = "back" => shown = picture[slot] /\ (frame < Last => NewerReady)
  <2>1. frame < Last => frame # Last
    BY Sizes
  <2> QED
    BY <1>1, <2>1 DEF RewindInv, BackAgainInv
<1>7. origin' = origin /\ Grows(origin, origin', Len(origin))
  <2>1. frame < Last => NewerReady
    BY <1>2, <1>5, <1>6
  <2>2. origin' = origin
    BY <1>1, <1>2, <1>4, <2>1, PassIs
  <2> QED
    BY <1>1, <2>2, OriginIs DEF Grows
<1>8. CASE stage = "back"
  <2>1. shown' = shown /\ IsRewinding' = IsRewinding
    BY <1>2, <1>3, <1>6, <1>8
  <2> QED
    BY <1>1, <1>2, <1>7, <2>1, Stutters
<1>9. CASE BackMode
  <2>1. shown > taped /\ origin[shown] = shown'
    <3>1. frame \in 0 .. Last /\ Last \in Nat /\ NumFrames = Last + 1
      BY <1>1, TypesOfKeys
    <3>2. CASE BackInKey
      <4>1. frame < Last /\ picture[slot] = Newer.input[Last - frame]
        BY <1>1, <1>2, <1>4, <1>5, <1>9, <3>2, BackInKeyIs
      <4>2. Last - frame \in 0 .. Last /\ Last - frame # 0 /\ NumFrames - frame = (Last - frame) + 1
        BY <3>1, <4>1
      <4>3. shown > taped /\ origin[shown] = StateAfter(Newer, Last - frame)
        BY <1>1, <1>5, <1>9, <4>2, ShownWasPlayed
      <4> QED
        BY <1>2, <4>1, <4>2, <4>3 DEF StateAfter
    <3>3. CASE BackToPrevKey
      <4>1. frame = Last /\ picture[slot] = Current.input[NumFrames]
        BY <1>1, <1>2, <1>4, <3>3, BackToPrevKeyIs
      <4>2. 0 \in 0 .. Last /\ NumFrames - frame = 0 + 1 /\ NumFrames # 0
        BY <3>1, <4>1
      <4>3. shown > taped /\ origin[shown] = StateAfter(Newer, 0)
        BY <1>1, <1>5, <1>9, <4>2, ShownWasPlayed
      <4>4. CanRewind(Current) /\ CanRewind(Newer)
        BY <1>4, <1>5, <1>9, <3>1 DEF Passing, ReplayedTo, NewerReady, At, CanRewind, BadPos
      <4>5. StateAfter(Current, NumFrames) = Newer.start
        BY <1>4, <4>4, TypesOfKeys, <1>1 DEF Passing, AllLinked, Linked, Current, Newer
      <4> QED
        BY <1>2, <4>1, <4>2, <4>3, <4>5 DEF StateAfter
    <3> QED
      BY <1>2, <3>2, <3>3
  <2>2. shown' # Nowhere /\ shown' \in 0 .. Len(origin)
    BY <1>1, <1>7 DEF GameInv, Nowhere
  <2>3. Seen' = Past(origin, taped)[shown']
    BY <1>1, <1>2, <1>7, SeenNext
  <2>4. /\ Past(origin, taped)[origin[shown]] \in Seq(States)
        /\ Seen = Append(Past(origin, taped)[origin[shown]], shown)
        /\ SubSeq(Seen, 1, Len(Seen) - 1) = Past(origin, taped)[origin[shown]]
        /\ Len(Past(origin, taped)[origin[shown]]) > 0
    BY <1>1, <2>1, <2>2, SeenFrom
  <2>5. Seen' = SubSeq(Seen, 1, Len(Seen) - 1)
    BY <2>1, <2>3, <2>4
  <2>6. Len(Seen) > 1
    <3>1. shown \in States
      BY <1>1, SeenIs
    <3>2. Len(Seen) = Len(Past(origin, taped)[origin[shown]]) + 1
          /\ Len(Past(origin, taped)[origin[shown]]) \in Nat
      BY <2>4, <3>1, AppendProperties, LenProperties
    <3> QED
      BY <2>4, <3>2
  <2>7. Watched!Back
    BY <1>3, <2>5, <2>6 DEF Watched!Back, Watched!Front, Seen
  <2> QED
    BY <2>7 DEF WatchedStep, Watched!Next
<1> QED
  BY <1>2, <1>8, <1>9

LEMMA RunOutSeen ==
    ASSUME TrackerInv, TrackerInv', rewinder, RunOut, UNCHANGED <<trackerVars, movieVars>>
    PROVE  WatchedStep
<1>1. GameTypeOK /\ GameInv /\ GameTypeOK' /\ GameInv' /\ RewinderTypeOK /\ RewindInv
  BY PartsOfInv
<1>2. /\ taped' = taped /\ shown' = NewState /\ rewinding /\ ~rewinding' /\ frame = Last
      /\ PlayFrom(Newer.start) /\ ~CanRewind(Older)
  BY DEF RunOut, movieVars, Newer, Older
<1>3. stage # "back"
  <2>1. frame < Last => frame # Last
    BY Sizes
  <2> QED
    BY <1>1, <1>2, <2>1 DEF RewindInv, BackAgainInv
<1>4. NewerReady /\ shown = Newer.input[NumFrames - frame]
  BY <1>1, <1>2, <1>3 DEF RewindInv, BackInv, BackMode, RunOut, Running
<1>5. shown > taped /\ origin[shown] = Newer.start
  <2>1. 0 \in 0 .. Last /\ NumFrames - frame = 0 + 1
    BY <1>1, <1>2, TypesOfKeys
  <2>2. shown > taped /\ origin[shown] = StateAfter(Newer, 0)
    BY <1>1, <1>4, <2>1, ShownWasPlayed
  <2> QED
    BY <2>2 DEF StateAfter
<1>6. Newer.start \in 1 .. Len(origin)
  BY <1>4 DEF NewerReady, At, Whole, Leads
<1>7. NewState = Len(origin) + 1 /\ origin'[NewState] = Newer.start
      /\ Grows(origin, origin', Len(origin)) /\ taped \in 1 .. Len(origin) /\ Len(origin) \in Nat
  BY <1>1, <1>2, <1>6, PlayIs, OriginIs DEF GameInv
<1>8. Past(origin', taped')[Newer.start] = SubSeq(Seen, 1, Len(Seen) - 1)
  <2>1. Past(origin, taped)[origin[shown]] = SubSeq(Seen, 1, Len(Seen) - 1)
    BY <1>1, <1>5, SeenFrom
  <2>2. Newer.start \in 0 .. Len(origin)
    BY <1>6
  <2>3. Past(origin', taped')[Newer.start] = Past(origin, taped)[Newer.start]
    BY <1>1, <1>2, <1>7, <2>2, SeenStays
  <2> QED
    BY <1>5, <2>1, <2>3
<1>9. Seen' = Append(SubSeq(Seen, 1, Len(Seen) - 1), shown') /\ shown' \in States
  <2>1. /\ shown' \in States /\ shown' # Nowhere /\ shown' \in 0 .. Len(origin')
        /\ Seen' = Past(origin', taped')[shown']
    BY <1>1, SeenNext
  <2>2. ~(shown' <= taped')
    BY <1>2, <1>7
  <2>3. Seen' = Append(Past(origin', taped')[origin'[shown']], shown')
    BY <1>1, <2>1, <2>2, SeenNext
  <2> QED
    BY <1>2, <1>7, <1>8, <2>1, <2>3
<1>10. IsRewinding /\ IsRewinding' = FALSE
  BY <1>2 DEF IsRewinding
<1>11. Watched!RunOut
  BY <1>9, <1>10 DEF Watched!RunOut, Watched!Front, Seen
<1> QED
  BY <1>11 DEF WatchedStep, Watched!Next

LEMMA RewinderSeen ==
    ASSUME TrackerInv, TrackerInv', ExecuteRewinder
    PROVE  WatchedStep
<1>1. rewinder /\ RewinderExecute /\ UNCHANGED <<trackerVars, movieVars>>
  BY DEF ExecuteRewinder
<1> QED
  BY <1>1, ForwardSeen, BackSeen, RunOutSeen, TurningSeen DEF RewinderExecute

-----------------------------------------------------------------------------
\* The movie's steps and the user's.

LEMMA RecordSeen ==
    ASSUME TrackerInv, TrackerInv', ExecuteMovie, Record
    PROVE  WatchedStep
<1>1. GameTypeOK' /\ GameInv' /\ taped' = Len(origin') /\ movie = "recording"
      /\ rewinder = (enabled /\ movie = "none") /\ rewinder' = rewinder
  BY PartsOfInv DEF Record, ExecuteMovie, trackerVars
<1>2. shown' <= taped'
  BY <1>1 DEF GameInv
<1> QED
  BY <1>1, <1>2, Jumps DEF IsRewinding

\* What is played was taped.
LEMMA PlaySeen ==
    ASSUME TrackerInv, TrackerInv', ExecuteMovie, Play
    PROVE  WatchedStep
<1>1. /\ GameTypeOK' /\ GameInv' /\ movie = "playing" /\ movie' = movie /\ shown' = now'
      /\ rewinder = (enabled /\ movie = "none") /\ rewinder' = rewinder
      /\ played' = played + 1 /\ PlayInv' /\ TapeInv' /\ MovieTypeOK /\ MovieTypeOK' /\ PlayInv
  BY PartsOfInv DEF Play, ExecuteMovie, trackerVars, TrackerInv, MovieInv
<1>2. played \in Nat /\ played' \in 0 .. Len(tape') /\ now' = tape'[played']
  BY <1>1 DEF PlayInv, MovieTypeOK
<1>3. played' \in 1 .. Len(tape')
  BY <1>1, <1>2
<1>4. file'.length # Unclosed
  <2>1. file'.length = Unclosed => Len(tape') = 0
    BY <1>1 DEF TapeInv
  <2> QED
    BY <1>3, <2>1
<1>5. PICK run : Runs(origin', taped', file'.keys, file'.length, tape', Len(tape'), run)
  BY <1>1, <1>4 DEF PlayInv
<1>6. Turn(origin', taped', file'.keys, file'.length, tape', run[played' - 1], run[played'], played')
  BY <1>3, <1>5 DEF Runs
<1>7. tape'[played'] \in 1 .. taped'
  BY <1>6 DEF Turn, IsNext
<1>8. shown' <= taped'
  BY <1>1, <1>2, <1>7
<1> QED
  BY <1>1, <1>8, Jumps DEF IsRewinding

\* What was played is forgotten, or what was not taped.
LEMMA ForgottenSeen ==
    ASSUME TrackerInv, TrackerInv', NEW m \in {Boot, taped}, NEW s \in {Boot, now}, Forget(m, s),
           taped' = m \/ taped' = Len(origin'), ~rewinding'
    PROVE  WatchedStep
<1>1. GameTypeOK /\ GameInv /\ GameTypeOK' /\ GameInv'
  BY PartsOfInv
<1>2. m \in 1 .. Len(origin) /\ s \in 1 .. Len(origin)
  <2>1. Len(origin) \in Nat /\ Boot \in 1 .. Len(origin)
    BY <1>1, OriginIs DEF GameInv, Boot
  <2> QED
    BY <1>1, <2>1 DEF GameInv
<1>3. shown' = now' /\ now' \in 1 .. Len(origin') /\ (now' > m => origin'[now'] = Nowhere)
  BY <1>1, <1>2, ForgetIs
<1>4. shown' <= taped' \/ origin'[shown'] = Nowhere
  BY <1>2, <1>3
<1> QED
  BY <1>1, <1>4, Jumps DEF IsRewinding

\* The picture stays when nothing is played, or nothing happens.
LEMMA NothingSeen ==
    ASSUME TrackerInv, TrackerInv', UNCHANGED <<shown, origin, taped>>, IsRewinding' = IsRewinding
    PROVE  WatchedStep
<1>1. GameTypeOK /\ GameInv /\ GameTypeOK' /\ GameInv'
  BY PartsOfInv
<1>2. Grows(origin, origin', Len(origin))
  BY <1>1, OriginIs DEF Grows
<1> QED
  BY <1>1, <1>2, Stutters

LEMMA EnableSeen ==
    ASSUME TrackerInv, TrackerInv', EnableRewinder
    PROVE  WatchedStep
<1>1. /\ taped' = taped /\ enabled' = ~enabled /\ UpdateRewinderState(TRUE) /\ movie' = movie
      /\ rewinder = (enabled /\ movie = "none") /\ rewinder' = (enabled' /\ movie' = "none")
      /\ IF rewinder THEN Forget(taped, now) ELSE UNCHANGED <<now, shown, origin>>
  BY PartsOfInv DEF EnableRewinder, movieVars, gameVars
<1>2. ~rewinding'
  BY <1>1 DEF UpdateRewinderState, ForgetKeys
<1>3. CASE rewinder
  BY <1>1, <1>2, <1>3, ForgottenSeen
<1>4. CASE ~rewinder
  BY <1>1, <1>2, <1>4, NothingSeen DEF IsRewinding
<1> QED
  BY <1>3, <1>4

LEMMA RecordMovieSeen ==
    ASSUME TrackerInv, TrackerInv', NEW append \in BOOLEAN, RecordMovie(append)
    PROVE  WatchedStep
<1>1. /\ Forget(IF append THEN taped ELSE Boot, now) /\ taped' = Len(origin')
      /\ UpdateRewinderState(FALSE)
  BY DEF RecordMovie, BeginRecording
<1>2. ~rewinding'
  BY <1>1 DEF UpdateRewinderState, ForgetKeys
<1>3. PICK m \in {Boot, taped}, s \in {Boot, now} :
         m = (IF append THEN taped ELSE Boot) /\ s = now
  OBVIOUS
<1>4. Forget(m, s)
  BY <1>1, <1>3
<1> QED
  BY <1>1, <1>2, <1>4, ForgottenSeen

\* Whatever else begins anew.
LEMMA AnewSeen ==
    ASSUME TrackerInv, TrackerInv', ResetRewinder \/ PlayMovie \/ ResetOrLoad \/ PowerOn \/ Kill
    PROVE  WatchedStep
<1>1. /\ taped' = taped /\ (Forget(taped, now) \/ Forget(taped, Boot)) /\ ~rewinding'
  <2>1. CASE ResetRewinder
    BY <2>1 DEF ResetRewinder, ForgetKeys, movieVars
  <2>2. CASE PlayMovie
    BY <2>2 DEF PlayMovie, BeginPlaying, UpdateRewinderState, ForgetKeys
  <2>3. CASE ResetOrLoad \/ PowerOn
    BY <2>3 DEF ResetOrLoad, PowerOn, ResyncAll, ForgetKeys
  <2>4. CASE Kill
    BY <2>4 DEF Kill, ForgetKeys
  <2> QED
    BY <2>1, <2>2, <2>3, <2>4
<1>2. PICK m \in {Boot, taped} : m = taped
  OBVIOUS
<1>3. PICK s \in {Boot, now} : Forget(taped, s)
  BY <1>1
<1>4. Forget(m, s) /\ taped' = m
  BY <1>1, <1>2, <1>3
<1> QED
  BY <1>1, <1>4, ForgottenSeen

LEMMA RefuseSeen ==
    ASSUME TrackerInv, TrackerInv', NEW what, RefuseMovie(what)
    PROVE  WatchedStep
<1>1. taped' = taped /\ Forget(taped, now) /\ ~rewinding'
  BY DEF RefuseMovie, EndMovie, RenewRewinder, ForgetKeys
<1>2. PICK m \in {Boot, taped}, s \in {Boot, now} : m = taped /\ s = now
  OBVIOUS
<1>3. Forget(m, s) /\ taped' = m
  BY <1>1, <1>2
<1> QED
  BY <1>1, <1>3, ForgottenSeen

LEMMA StoppedSeen ==
    ASSUME TrackerInv, TrackerInv', StopMovie \/ PowerOff
    PROVE  WatchedStep
<1>1. /\ taped' = taped /\ UNCHANGED <<now, shown, origin>> /\ UpdateRewinderState(TRUE)
      /\ enabled' = enabled /\ movie' = "none"
      /\ RewindInv /\ rewinder = (enabled /\ movie = "none") /\ rewinder' = (enabled' /\ movie' = "none")
  BY PartsOfInv DEF StopMovie, PowerOff, EndMovie, Idle, gameVars
<1>2. IsRewinding' = IsRewinding
  <2>1. CASE rewinder /\ rewinder'
    BY <1>1, <2>1 DEF UpdateRewinderState, rewinderVars, IsRewinding
  <2>2. CASE ~(rewinder /\ rewinder')
    <3>1. ~rewinding' /\ ~rewinder
      BY <1>1, <2>2 DEF UpdateRewinderState, ForgetKeys
    <3> QED
      BY <3>1 DEF IsRewinding
  <2> QED
    BY <2>1, <2>2
<1> QED
  BY <1>1, <1>2, NothingSeen

-----------------------------------------------------------------------------

LEMMA SeenAtFirst ==
    ASSUME Init PROVE Watched!Init
<1>1. /\ shown = 1 /\ taped = 1 /\ rewinding = FALSE
  BY DEF Init, GameInit, RewinderInit, MovieInit, Boot
<1>2. GameTypeOK /\ GameInv
  BY TrackerBegins, PartsOfInv
<1>3. /\ shown \in States /\ shown # Nowhere /\ shown \in 0 .. Len(origin)
      /\ Seen = Past(origin, taped)[shown]
  BY <1>2, SeenIs
<1>4. Past(origin, taped)[shown] = <<shown>>
  <2>1. Past(origin, taped)[shown] =
           IF shown = Nowhere THEN << >>
           ELSE IF shown <= taped THEN <<shown>> ELSE Append(Past(origin, taped)[origin[shown]], shown)
    BY <1>2, <1>3, SeenIs
  <2>2. shown <= taped
    BY <1>1
  <2> QED
    BY <1>3, <2>1, <2>2
<1>5. IsRewinding = FALSE
  BY <1>1 DEF IsRewinding
<1> QED
  BY <1>3, <1>4, <1>5 DEF Watched!Init, Seen

LEMMA StepSeen ==
    ASSUME TrackerInv, TrackerInv', [Next]_vars PROVE WatchedStep
<1>1. CASE Execute
  BY <1>1, RewinderSeen, AloneSeen, RecordSeen, PlaySeen, EndSeen DEF Execute, ExecuteMovie
<1>2. CASE StartRewinding \/ StopRewinding
  BY <1>2, StartSeen
<1>3. CASE ResetRewinder \/ PlayMovie \/ ResetOrLoad \/ PowerOn \/ Kill
  BY <1>3, AnewSeen
<1>4. CASE EnableRewinder
  BY <1>4, EnableSeen
<1>5. ASSUME NEW append \in BOOLEAN, RecordMovie(append) PROVE WatchedStep
  BY <1>5, RecordMovieSeen
<1>6. ASSUME NEW what \in {"clean", "append", "play"}, RefuseMovie(what) PROVE WatchedStep
  BY <1>6, RefuseSeen
<1>7. CASE StopMovie \/ PowerOff
  BY <1>7, StoppedSeen
<1>8. CASE UNCHANGED vars
  <2>1. UNCHANGED <<shown, origin, taped, rewinder, rewinding>>
    BY <1>8 DEF vars, trackerVars, rewinderVars, movieVars, gameVars
  <2> QED
    BY <2>1, NothingSeen DEF IsRewinding
<1> QED
  BY <1>1, <1>2, <1>3, <1>4, <1>5, <1>6, <1>7, <1>8 DEF Next

\* What is seen on the screen is a game that is played picture by picture, in
\* both directions (Tracker::Execute and Tracker::Rewinder::Execute): every step
\* of the machine, the rewinder, the movie and the user is a step of Timeline,
\* or changes nothing of it.
THEOREM ScreenIsTimeline == Spec => WatchedSpec
<1>1. Init => Watched!Init
  BY SeenAtFirst
<1>2. TrackerInv /\ TrackerInv' /\ [Next]_vars => [Watched!Next]_(Watched!timelineVars)
  BY StepSeen DEF WatchedStep
<1>3. Spec => []TrackerInv
  BY TrackerInvariant
<1> QED
  BY <1>1, <1>2, <1>3, PTL DEF Spec, WatchedSpec, Watched!Spec
=============================================================================
