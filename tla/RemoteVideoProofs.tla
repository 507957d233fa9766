-------------------------- MODULE RemoteVideoProofs --------------------------
(***************************************************************************)
(* Proofs about FrameCompressor, for any number of threads and pixels, any *)
(* keyframe interval and any number of frames; and from them about         *)
(* RemoteVideo, for a network that loses and reorders frames at will.      *)
(***************************************************************************)
EXTENDS RemoteVideo, TLAPS

-----------------------------------------------------------------------------
\* The compressor's inductive invariant.

\* Whoever writes the keyframe holds m_lock, and only while writing.
LockInv == \A t \in Threads : stage[t] = "build" <=> lock = t

\* m_lastKeyframe is the keyframe of m_lastKeyframeId unless m_lock is held;
\* then it is the holder's frame up to the pixel the holder has come to.
KeyInv ==
    /\ lock = NoThread => cells = PictureOf(lastKey)
    /\ \A t \in Threads : stage[t] = "build" =>
          \A p \in Pixel : p < at[t] => cells[p] = id[t]
    /\ \A t \in Threads : stage[t] \in {"lock", "build"} => key[t] = 0
    /\ \A t \in Threads : stage[t] = "delta" => at[t] \in Pixel

\* A thread that computes a delta frame and was not overlapped works on a
\* keyframe that nobody touches.
Undisturbed(t) == lock = NoThread /\ InGroup(id[t], lastKey)

DeltaOf(t) ==
    /\ stage[t] = "name" /\ running => Undisturbed(t)
    /\ stage[t] = "delta" =>
          /\ Undisturbed(t)
          /\ key[t] = lastKey
          /\ \A p \in Pixel : p < at[t] => base[t][p] = key[t]
    /\ stage[t] = "pack" /\ key[t] # 0 =>
          base[t] = PictureOf(key[t]) /\ InGroup(id[t], key[t])

DeltaInv == \A t \in Threads : ~overlapped[t] => DeltaOf(t)

\* Only threads that have stopped waiting can be overlapped.
WaitInv ==
    \A t \in Threads : stage[t] = "asleep" => ~overlapped[t] /\ ~Ready(t)

Inv == TypeOK /\ LockInv /\ KeyInv /\ DeltaInv /\ WaitInv

-----------------------------------------------------------------------------
LEMMA InitInv == Init => Inv
<1> SUFFICES ASSUME Init PROVE Inv  OBVIOUS
<1> USE FrameAssumption, CompressorAssumption DEF Init
<1>1. stage \in [Threads -> Stages] /\ low \in [Threads -> Resolutions]
  BY DEF Stages, Resolutions
<1>2. base \in [Threads -> Picture] /\ cells \in Picture
  BY DEF Picture, PictureOf
<1>3. overlapped \in [Threads -> BOOLEAN] /\ running \in BOOLEAN
      /\ downSample \in BOOLEAN /\ limited \in BOOLEAN
  OBVIOUS
<1>4. TypeOK
  BY <1>1, <1>2, <1>3 DEF TypeOK
<1>5. LockInv /\ KeyInv /\ DeltaInv /\ WaitInv
  BY DEF LockInv, KeyInv, DeltaInv, DeltaOf, WaitInv, PictureOf
<1>6. QED  BY <1>4, <1>5 DEF Inv

LEMMA TakeKeeps == ASSUME NEW t \in Threads, Inv, Take(t) PROVE Inv'
<1> USE FrameAssumption, CompressorAssumption DEF Take, Goto, threadVars, keyframeVars, controlVars
<1>1. TypeOK'
  <2>1. stage' \in [Threads -> Stages] /\ lock' \in Threads \cup {NoThread}
    BY DEF Inv, TypeOK, Stages
  <2>2. nextId' \in 1 .. MaxId + 1 /\ id' \in [Threads -> 0 .. MaxId]
        /\ lastKey' \in 0 .. MaxId
    BY DEF Inv, TypeOK
  <2>3. key' \in [Threads -> 0 .. MaxId]
    BY DEF Inv, TypeOK
  <2>4. at' \in [Threads -> 1 .. Pixels + 1]
    BY DEF Inv, TypeOK, Pixel
  <2>5. low' \in [Threads -> Resolutions]
    BY DEF Inv, TypeOK, Resolutions
  <2>6. base' \in [Threads -> Picture] /\ cells' \in Picture
    BY DEF Inv, TypeOK, Picture, Pixel
  <2>7. overlapped' \in [Threads -> BOOLEAN]
    BY DEF Inv, TypeOK
  <2>8. running' \in BOOLEAN /\ downSample' \in BOOLEAN /\ limited' \in BOOLEAN
    BY DEF Inv, TypeOK
  <2>9. QED  BY <2>1, <2>2, <2>3, <2>4, <2>5, <2>6, <2>7, <2>8 DEF TypeOK
<1>2. LockInv'
  BY DEF Inv, TypeOK, LockInv, Stages
<1>3. KeyInv'
  BY ZenonT(40) DEF Inv, TypeOK, LockInv, KeyInv, PictureOf, Picture, Pixel
<1>4. DeltaInv'
  <2> SUFFICES ASSUME NEW u \in Threads, ~overlapped'[u]
               PROVE  DeltaOf(u)'
    BY DEF DeltaInv
  <2>1. CASE u = t
    BY <2>1 DEF Inv, TypeOK, DeltaInv, DeltaOf, Undisturbed, Stages
  <2>2. CASE u # t
    BY <2>2 DEF Inv, TypeOK, DeltaInv, DeltaOf, Undisturbed, Stages
  <2>3. QED  BY <2>1, <2>2
<1>5. WaitInv'
  BY DEF Inv, TypeOK, LockInv, WaitInv, Ready, InGroup
<1>6. QED  BY <1>1, <1>2, <1>3, <1>4, <1>5 DEF Inv

LEMMA BeginKeeps == ASSUME NEW t \in Threads, Inv, Begin(t) PROVE Inv'
<1> USE FrameAssumption, CompressorAssumption DEF Begin, Goto, threadVars, keyframeVars, controlVars
<1>1. TypeOK'
  <2>1. stage' \in [Threads -> Stages] /\ lock' \in Threads \cup {NoThread}
    BY DEF Inv, TypeOK, Stages
  <2>2. nextId' \in 1 .. MaxId + 1 /\ id' \in [Threads -> 0 .. MaxId]
        /\ lastKey' \in 0 .. MaxId
    BY DEF Inv, TypeOK
  <2>3. key' \in [Threads -> 0 .. MaxId]
    BY DEF Inv, TypeOK
  <2>4. at' \in [Threads -> 1 .. Pixels + 1]
    BY DEF Inv, TypeOK, Pixel
  <2>5. low' \in [Threads -> Resolutions]
    BY DEF Inv, TypeOK, Resolutions
  <2>6. base' \in [Threads -> Picture] /\ cells' \in Picture
    BY DEF Inv, TypeOK, Picture, Pixel
  <2>7. overlapped' \in [Threads -> BOOLEAN]
    BY DEF Inv, TypeOK
  <2>8. running' \in BOOLEAN /\ downSample' \in BOOLEAN /\ limited' \in BOOLEAN
    BY DEF Inv, TypeOK
  <2>9. QED  BY <2>1, <2>2, <2>3, <2>4, <2>5, <2>6, <2>7, <2>8 DEF TypeOK
<1>2. LockInv'
  BY DEF Inv, TypeOK, LockInv, Stages
<1>3. KeyInv'
  BY DEF Inv, TypeOK, LockInv, KeyInv, PictureOf, Picture, Pixel
<1>4. DeltaInv'
  <2> SUFFICES ASSUME NEW u \in Threads, ~overlapped'[u]
               PROVE  DeltaOf(u)'
    BY DEF DeltaInv
  <2>1. CASE u = t
    BY <2>1 DEF Inv, TypeOK, DeltaInv, DeltaOf, Undisturbed, Stages
  <2>2. CASE u # t
    BY <2>2 DEF Inv, TypeOK, DeltaInv, DeltaOf, Undisturbed, Stages
  <2>3. QED  BY <2>1, <2>2
<1>5. WaitInv'
  BY DEF Inv, TypeOK, LockInv, WaitInv, Ready, InGroup
<1>6. QED  BY <1>1, <1>2, <1>3, <1>4, <1>5 DEF Inv

LEMMA LockKeeps == ASSUME NEW t \in Threads, Inv, Lock(t) PROVE Inv'
<1> USE FrameAssumption, CompressorAssumption DEF Lock, Encoding, Goto, threadVars, keyframeVars, controlVars
<1>1. TypeOK'
  <2>1. stage' \in [Threads -> Stages] /\ lock' \in Threads \cup {NoThread}
    BY DEF Inv, TypeOK, Stages
  <2>2. nextId' \in 1 .. MaxId + 1 /\ id' \in [Threads -> 0 .. MaxId]
        /\ lastKey' \in 0 .. MaxId
    BY DEF Inv, TypeOK
  <2>3. key' \in [Threads -> 0 .. MaxId]
    BY DEF Inv, TypeOK
  <2>4. at' \in [Threads -> 1 .. Pixels + 1]
    BY DEF Inv, TypeOK, Pixel
  <2>5. low' \in [Threads -> Resolutions]
    BY DEF Inv, TypeOK, Resolutions
  <2>6. base' \in [Threads -> Picture] /\ cells' \in Picture
    BY DEF Inv, TypeOK, Picture, Pixel
  <2>7. overlapped' \in [Threads -> BOOLEAN]
    BY DEF Inv, TypeOK
  <2>8. running' \in BOOLEAN /\ downSample' \in BOOLEAN /\ limited' \in BOOLEAN
    BY DEF Inv, TypeOK
  <2>9. QED  BY <2>1, <2>2, <2>3, <2>4, <2>5, <2>6, <2>7, <2>8 DEF TypeOK
<1>2. LockInv'
  BY DEF Inv, TypeOK, LockInv, Stages
<1>3. KeyInv'
  BY DEF Inv, TypeOK, LockInv, KeyInv, PictureOf, Picture, Pixel
<1>4. DeltaInv'
  BY ZenonT(40) DEF Inv, TypeOK, LockInv, KeyInv, DeltaInv, DeltaOf, WaitInv, Undisturbed, InGroup, Ready, PictureOf, Picture, Pixel
<1>5. WaitInv'
  BY DEF Inv, TypeOK, LockInv, WaitInv, Ready, InGroup
<1>6. QED  BY <1>1, <1>2, <1>3, <1>4, <1>5 DEF Inv

LEMMA BuildKeeps == ASSUME NEW t \in Threads, Inv, Build(t) PROVE Inv'
<1> USE FrameAssumption, CompressorAssumption DEF Build, Goto, threadVars, keyframeVars, controlVars
<1>1. TypeOK'
  <2>1. stage' \in [Threads -> Stages] /\ lock' \in Threads \cup {NoThread}
    BY DEF Inv, TypeOK, Stages
  <2>2. nextId' \in 1 .. MaxId + 1 /\ id' \in [Threads -> 0 .. MaxId]
        /\ lastKey' \in 0 .. MaxId
    BY DEF Inv, TypeOK
  <2>3. key' \in [Threads -> 0 .. MaxId]
    BY DEF Inv, TypeOK
  <2>4. at' \in [Threads -> 1 .. Pixels + 1]
    BY DEF Inv, TypeOK, Pixel
  <2>5. low' \in [Threads -> Resolutions]
    BY DEF Inv, TypeOK, Resolutions
  <2>6. base' \in [Threads -> Picture] /\ cells' \in Picture
    BY DEF Inv, TypeOK, Picture, Pixel
  <2>7. overlapped' \in [Threads -> BOOLEAN]
    BY DEF Inv, TypeOK
  <2>8. running' \in BOOLEAN /\ downSample' \in BOOLEAN /\ limited' \in BOOLEAN
    BY DEF Inv, TypeOK
  <2>9. QED  BY <2>1, <2>2, <2>3, <2>4, <2>5, <2>6, <2>7, <2>8 DEF TypeOK
<1>2. LockInv'
  BY DEF Inv, TypeOK, LockInv, Stages
<1>3. KeyInv'
  <2>1. (lock = NoThread => cells = PictureOf(lastKey))'
    BY DEF Inv, TypeOK, LockInv, KeyInv, PictureOf
  <2>2. ASSUME NEW u \in Threads, stage'[u] = "build", NEW p \in Pixel, p < at'[u]
        PROVE  cells'[p] = id'[u]
    BY <2>2 DEF Inv, TypeOK, LockInv, KeyInv, Picture, Pixel
  <2>3. ASSUME NEW u \in Threads, stage'[u] \in {"lock", "build"}  PROVE key'[u] = 0
    BY <2>3 DEF Inv, TypeOK, KeyInv
  <2>4. ASSUME NEW u \in Threads, stage'[u] = "delta"  PROVE at'[u] \in Pixel
    BY <2>4 DEF Inv, TypeOK, KeyInv, Pixel
  <2>5. QED  BY <2>1, <2>2, <2>3, <2>4 DEF KeyInv
<1>4. DeltaInv'
  <2> SUFFICES ASSUME NEW u \in Threads, ~overlapped'[u]
               PROVE  DeltaOf(u)'
    BY DEF DeltaInv
  <2>1. CASE u = t
    BY <2>1 DEF Inv, TypeOK, DeltaInv, DeltaOf, Undisturbed, Stages
  <2>2. CASE u # t
    BY <2>2 DEF Inv, TypeOK, DeltaInv, DeltaOf, Undisturbed, Stages
  <2>3. QED  BY <2>1, <2>2
<1>5. WaitInv'
  BY DEF Inv, TypeOK, LockInv, WaitInv, Ready, InGroup
<1>6. QED  BY <1>1, <1>2, <1>3, <1>4, <1>5 DEF Inv

LEMMA PublishKeeps == ASSUME NEW t \in Threads, Inv, Publish(t) PROVE Inv'
<1> USE FrameAssumption, CompressorAssumption DEF Publish, NotifyAll, Goto, threadVars, keyframeVars, controlVars
<1>1. TypeOK'
  BY DEF Inv, TypeOK, LockInv, Stages, Resolutions, Picture, Pixel, Ids
<1>2. LockInv'
  BY DEF Inv, TypeOK, LockInv, Stages
<1>3. KeyInv'
  BY DEF Inv, TypeOK, LockInv, KeyInv, PictureOf, Picture, Pixel
<1>4. DeltaInv'
  BY DEF Inv, TypeOK, LockInv, KeyInv, DeltaInv, DeltaOf, WaitInv, Undisturbed, InGroup, Ready, PictureOf, Picture, Pixel
<1>5. WaitInv'
  BY DEF Inv, TypeOK, LockInv, WaitInv, Ready, InGroup
<1>6. QED  BY <1>1, <1>2, <1>3, <1>4, <1>5 DEF Inv

LEMMA AwaitKeeps == ASSUME NEW t \in Threads, Inv, Await(t) PROVE Inv'
<1> USE FrameAssumption, CompressorAssumption DEF Await, Goto, threadVars, keyframeVars, controlVars
<1>1. TypeOK'
  BY DEF Inv, TypeOK, LockInv, Stages, Resolutions, Picture, Pixel, Ids
<1>2. LockInv'
  BY DEF Inv, TypeOK, LockInv, Stages
<1>3. KeyInv'
  BY DEF Inv, TypeOK, LockInv, KeyInv, PictureOf, Picture, Pixel
<1>4. DeltaInv'
  BY DEF Inv, TypeOK, LockInv, KeyInv, DeltaInv, DeltaOf, WaitInv, Undisturbed, InGroup, Ready, PictureOf, Picture, Pixel
<1>5. WaitInv'
  BY DEF Inv, TypeOK, LockInv, WaitInv, Ready, InGroup
<1>6. QED  BY <1>1, <1>2, <1>3, <1>4, <1>5 DEF Inv

LEMMA TimeOutKeeps == ASSUME NEW t \in Threads, Inv, TimeOut(t) PROVE Inv'
<1> USE FrameAssumption, CompressorAssumption DEF TimeOut, Goto, threadVars, keyframeVars, controlVars
<1>1. TypeOK'
  BY DEF Inv, TypeOK, LockInv, Stages, Resolutions, Picture, Pixel, Ids
<1>2. LockInv'
  BY DEF Inv, TypeOK, LockInv, Stages
<1>3. KeyInv'
  BY DEF Inv, TypeOK, LockInv, KeyInv, PictureOf, Picture, Pixel
<1>4. DeltaInv'
  BY DEF Inv, TypeOK, LockInv, KeyInv, DeltaInv, DeltaOf, WaitInv, Undisturbed, InGroup, Ready, PictureOf, Picture, Pixel
<1>5. WaitInv'
  BY DEF Inv, TypeOK, LockInv, WaitInv, Ready, InGroup
<1>6. QED  BY <1>1, <1>2, <1>3, <1>4, <1>5 DEF Inv

LEMMA NameKeeps == ASSUME NEW t \in Threads, Inv, Name(t) PROVE Inv'
<1> USE FrameAssumption, CompressorAssumption DEF Name, Goto, threadVars, keyframeVars, controlVars
<1>1. TypeOK'
  <2>1. stage' \in [Threads -> Stages] /\ lock' \in Threads \cup {NoThread}
    BY DEF Inv, TypeOK, Stages
  <2>2. nextId' \in 1 .. MaxId + 1 /\ id' \in [Threads -> 0 .. MaxId]
        /\ lastKey' \in 0 .. MaxId
    BY DEF Inv, TypeOK
  <2>3. key' \in [Threads -> 0 .. MaxId]
    BY DEF Inv, TypeOK
  <2>4. at' \in [Threads -> 1 .. Pixels + 1]
    BY DEF Inv, TypeOK, Pixel
  <2>5. low' \in [Threads -> Resolutions]
    BY DEF Inv, TypeOK, Resolutions
  <2>6. base' \in [Threads -> Picture] /\ cells' \in Picture
    BY DEF Inv, TypeOK, Picture, Pixel
  <2>7. overlapped' \in [Threads -> BOOLEAN]
    BY DEF Inv, TypeOK
  <2>8. running' \in BOOLEAN /\ downSample' \in BOOLEAN /\ limited' \in BOOLEAN
    BY DEF Inv, TypeOK
  <2>9. QED  BY <2>1, <2>2, <2>3, <2>4, <2>5, <2>6, <2>7, <2>8 DEF TypeOK
<1>2. LockInv'
  BY DEF Inv, TypeOK, LockInv, Stages
<1>3. KeyInv'
  <2>1. (lock = NoThread => cells = PictureOf(lastKey))'
    BY DEF Inv, TypeOK, LockInv, KeyInv, PictureOf
  <2>2. ASSUME NEW u \in Threads, stage'[u] = "build", NEW p \in Pixel, p < at'[u]
        PROVE  cells'[p] = id'[u]
    BY <2>2 DEF Inv, TypeOK, LockInv, KeyInv, Picture, Pixel
  <2>3. ASSUME NEW u \in Threads, stage'[u] \in {"lock", "build"}  PROVE key'[u] = 0
    BY <2>3 DEF Inv, TypeOK, KeyInv
  <2>4. ASSUME NEW u \in Threads, stage'[u] = "delta"  PROVE at'[u] \in Pixel
    BY <2>4 DEF Inv, TypeOK, KeyInv, Pixel
  <2>5. QED  BY <2>1, <2>2, <2>3, <2>4 DEF KeyInv
<1>4. DeltaInv'
  <2> SUFFICES ASSUME NEW u \in Threads, ~overlapped'[u]
               PROVE  DeltaOf(u)'
    BY DEF DeltaInv
  <2>1. CASE u = t
    BY <2>1 DEF Inv, TypeOK, DeltaInv, DeltaOf, Undisturbed, Stages, Pixel
  <2>2. CASE u # t
    BY <2>2 DEF Inv, TypeOK, DeltaInv, DeltaOf, Undisturbed, Stages
  <2>3. QED  BY <2>1, <2>2
<1>5. WaitInv'
  BY DEF Inv, TypeOK, LockInv, WaitInv, Ready, InGroup
<1>6. QED  BY <1>1, <1>2, <1>3, <1>4, <1>5 DEF Inv

LEMMA DeltaKeeps == ASSUME NEW t \in Threads, Inv, Delta(t) PROVE Inv'
<1> USE FrameAssumption, CompressorAssumption DEF Delta, Goto, threadVars, keyframeVars, controlVars
<1>1. TypeOK'
  <2>1. stage' \in [Threads -> Stages] /\ lock' \in Threads \cup {NoThread}
    BY DEF Inv, TypeOK, Stages
  <2>2. nextId' \in 1 .. MaxId + 1 /\ id' \in [Threads -> 0 .. MaxId]
        /\ lastKey' \in 0 .. MaxId
    BY DEF Inv, TypeOK
  <2>3. key' \in [Threads -> 0 .. MaxId]
    BY DEF Inv, TypeOK
  <2>4. at' \in [Threads -> 1 .. Pixels + 1]
    BY DEF Inv, TypeOK, KeyInv, Pixel
  <2>5. low' \in [Threads -> Resolutions]
    BY DEF Inv, TypeOK, Resolutions
  <2>6. base' \in [Threads -> Picture] /\ cells' \in Picture
    BY DEF Inv, TypeOK, Picture, Pixel
  <2>7. overlapped' \in [Threads -> BOOLEAN]
    BY DEF Inv, TypeOK
  <2>8. running' \in BOOLEAN /\ downSample' \in BOOLEAN /\ limited' \in BOOLEAN
    BY DEF Inv, TypeOK
  <2>9. QED  BY <2>1, <2>2, <2>3, <2>4, <2>5, <2>6, <2>7, <2>8 DEF TypeOK
<1>2. LockInv'
  BY DEF Inv, TypeOK, LockInv, Stages
<1>3. KeyInv'
  <2>1. (lock = NoThread => cells = PictureOf(lastKey))'
    BY DEF Inv, TypeOK, LockInv, KeyInv, PictureOf
  <2>2. ASSUME NEW u \in Threads, stage'[u] = "build", NEW p \in Pixel, p < at'[u]
        PROVE  cells'[p] = id'[u]
    BY <2>2 DEF Inv, TypeOK, LockInv, KeyInv, Picture, Pixel
  <2>3. ASSUME NEW u \in Threads, stage'[u] \in {"lock", "build"}  PROVE key'[u] = 0
    BY <2>3 DEF Inv, TypeOK, KeyInv
  <2>4. ASSUME NEW u \in Threads, stage'[u] = "delta"  PROVE at'[u] \in Pixel
    BY <2>4 DEF Inv, TypeOK, KeyInv, Pixel
  <2>5. QED  BY <2>1, <2>2, <2>3, <2>4 DEF KeyInv
<1>4. DeltaInv'
  <2> SUFFICES ASSUME NEW u \in Threads, ~overlapped'[u]
               PROVE  DeltaOf(u)'
    BY DEF DeltaInv
  <2>1. CASE u = t
    <3> USE <2>1
    <3>1. Undisturbed(t) /\ key[t] = lastKey /\ at[t] \in Pixel
          /\ \A p \in Pixel : p < at[t] => base[t][p] = key[t]
      BY DEF Inv, DeltaInv, DeltaOf, KeyInv
    <3>2. cells = PictureOf(lastKey) /\ base \in [Threads -> Picture] /\ at \in [Threads -> 1 .. Pixels + 1]
      BY <3>1 DEF Inv, TypeOK, KeyInv, Undisturbed
    <3>3. base'[t] = [base[t] EXCEPT ![at[t]] = cells[at[t]]]
      BY <3>2
    <3>4. base'[t] \in Picture /\ \A p \in Pixel : p < at'[t] => base'[t][p] = key[t]
      <4>1. base[t] \in [Pixel -> 0 .. MaxId] /\ cells[at[t]] = key[t]
            /\ lastKey \in 0 .. MaxId /\ at'[t] = at[t] + 1
        BY <3>1, <3>2 DEF Picture, PictureOf, Inv, TypeOK
      <4>2. QED  BY <3>1, <3>3, <4>1 DEF Picture, Pixel
    <3>7. at[t] = Pixels => base'[t] = PictureOf(key[t])
      <4>1. at[t] = Pixels => \A p \in Pixel : p < at'[t]
        BY <3>2 DEF Pixel
      <4>2. QED  BY <3>4, <4>1 DEF Picture, PictureOf
    <3>5. stage'[t] = IF at[t] = Pixels THEN "pack" ELSE "delta"
      BY DEF Inv, TypeOK
    <3>8. QED  BY <3>1, <3>4, <3>5, <3>7 DEF DeltaOf, Undisturbed
  <2>2. CASE u # t
    BY <2>2 DEF Inv, TypeOK, DeltaInv, DeltaOf, Undisturbed, Stages
  <2>3. QED  BY <2>1, <2>2
<1>5. WaitInv'
  BY DEF Inv, TypeOK, LockInv, WaitInv, Ready, InGroup
<1>6. QED  BY <1>1, <1>2, <1>3, <1>4, <1>5 DEF Inv

LEMMA RestartKeeps == ASSUME NEW t \in Threads, Inv, Restart(t) PROVE Inv'
<1> USE FrameAssumption, CompressorAssumption DEF Restart, Goto, threadVars, keyframeVars, controlVars
<1>1. TypeOK'
  BY DEF Inv, TypeOK, LockInv, Stages, Resolutions, Picture, Pixel, Ids
<1>2. LockInv'
  BY DEF Inv, TypeOK, LockInv, Stages
<1>3. KeyInv'
  BY DEF Inv, TypeOK, LockInv, KeyInv, PictureOf, Picture, Pixel
<1>4. DeltaInv'
  BY DEF Inv, TypeOK, LockInv, KeyInv, DeltaInv, DeltaOf, WaitInv, Undisturbed, InGroup, Ready, PictureOf, Picture, Pixel
<1>5. WaitInv'
  BY DEF Inv, TypeOK, LockInv, WaitInv, Ready, InGroup
<1>6. QED  BY <1>1, <1>2, <1>3, <1>4, <1>5 DEF Inv

LEMMA ReturnKeeps == ASSUME NEW t \in Threads, Inv, Return(t) PROVE Inv'
<1> USE FrameAssumption, CompressorAssumption DEF Return, Goto, threadVars, keyframeVars, controlVars
<1>1. TypeOK'
  BY DEF Inv, TypeOK, LockInv, Stages, Resolutions, Picture, Pixel, Ids
<1>2. LockInv'
  BY DEF Inv, TypeOK, LockInv, Stages
<1>3. KeyInv'
  BY DEF Inv, TypeOK, LockInv, KeyInv, PictureOf, Picture, Pixel
<1>4. DeltaInv'
  BY DEF Inv, TypeOK, LockInv, KeyInv, DeltaInv, DeltaOf, WaitInv, Undisturbed, InGroup, Ready, PictureOf, Picture, Pixel
<1>5. WaitInv'
  BY DEF Inv, TypeOK, LockInv, WaitInv, Ready, InGroup
<1>6. QED  BY <1>1, <1>2, <1>3, <1>4, <1>5 DEF Inv

LEMMA ControlKeeps == ASSUME Inv, Control PROVE Inv'
<1> USE DEF threadVars, keyframeVars, controlVars
<1>1. CASE Stop
  <2> USE <1>1 DEF Stop, NotifyAll
  <2>1. TypeOK'
    BY DEF Inv, TypeOK, Stages
  <2>2. LockInv' /\ KeyInv'
    BY DEF Inv, TypeOK, LockInv, KeyInv
  <2>3. DeltaInv'
    BY DEF Inv, TypeOK, DeltaInv, DeltaOf, Undisturbed
  <2>4. WaitInv'
    BY DEF Inv, TypeOK, WaitInv, Ready
  <2>5. QED  BY <2>1, <2>2, <2>3, <2>4 DEF Inv
<1>2. CASE SetDownSample \/ UpdateFrameInterval
  <2> USE <1>2 DEF SetDownSample, UpdateFrameInterval
  <2>1. TypeOK'
    BY DEF Inv, TypeOK
  <2>2. LockInv' /\ KeyInv' /\ DeltaInv' /\ WaitInv'
    BY DEF Inv, LockInv, KeyInv, DeltaInv, DeltaOf, Undisturbed, WaitInv, Ready
  <2>3. QED  BY <2>1, <2>2 DEF Inv
<1>3. QED  BY <1>1, <1>2 DEF Control

LEMMA NextKeeps == Inv /\ [Next]_compressorVars => Inv'
<1> SUFFICES ASSUME Inv, [Next]_compressorVars PROVE Inv'  OBVIOUS
<1>1. CASE UNCHANGED compressorVars
  BY <1>1 DEF compressorVars, threadVars, keyframeVars, controlVars, Inv, TypeOK,
     LockInv, KeyInv, DeltaInv, DeltaOf, Undisturbed, WaitInv, Ready
<1>2. ASSUME NEW t \in Threads, Take(t) \/ Compress(t) \/ TimeOut(t) \/ Return(t)
      PROVE  Inv'
  BY <1>2, TakeKeeps, BeginKeeps, LockKeeps, BuildKeeps, PublishKeeps, AwaitKeeps,
     TimeOutKeeps, NameKeeps, DeltaKeeps, RestartKeeps, ReturnKeeps DEF Compress
<1>3. CASE Control
  BY <1>3, ControlKeeps
<1>4. QED  BY <1>1, <1>2, <1>3 DEF Next

LEMMA InvHolds == Spec => []Inv
<1>1. Init => Inv
  BY InitInv
<1>2. Inv /\ [Next]_compressorVars => Inv'
  BY NextKeeps
<1>3. QED  BY <1>1, <1>2, PTL DEF Spec

-----------------------------------------------------------------------------
\* Every variable keeps its type: no thread runs past the last pixel, and no
\* frame or keyframe has an id that was not captured.
THEOREM CompressorTypeCorrect == Spec => []TypeOK
<1>1. Inv => TypeOK
  BY DEF Inv
<1>2. QED  BY <1>1, InvHolds, PTL

\* Without an overlapping keyframe, a delta frame is computed from the keyframe
\* it names, which is of its group, although m_lock is not held for it.
THEOREM DeltasAreOfTheirKeyframe == Spec => []DeltaIsOfItsKeyframe
<1>1. Inv => DeltaIsOfItsKeyframe
  BY DEF Inv, DeltaInv, DeltaOf, DeltaIsOfItsKeyframe
<1>2. QED  BY <1>1, InvHolds, PTL

\* A thread that sleeps in m_cv.wait_for has a reason to.
THEOREM NoWakeupIsLost == Spec => []NoLostWakeup
<1>1. Inv => NoLostWakeup
  BY DEF Inv, WaitInv, NoLostWakeup
<1>2. QED  BY <1>1, InvHolds, PTL

-----------------------------------------------------------------------------
\* The network and the client.

\* A delta frame under way holds differences to the keyframe it names only,
\* and is of full resolution.
NetInv ==
    \A f \in net :
        f.key # 0 => f.low = "no" /\ (~f.overlapped => f.base = PictureOf(f.key))

\* The client's keyframe is the one its id says.
ClientKeyInv == dKey # 0 => dCells = PictureOf(dKey)

\* Only captured frames are compressed: a frame's id is not 0.
TakenInv == \A t \in Threads : stage[t] # "idle" => id[t] \in Ids

\* A frame that is made a delta frame is of full resolution: when it goes back to
\* the beginning because it is too large, it is none any more.
FullInv ==
    \A t \in Threads :
        /\ stage[t] \in {"wait", "asleep", "name", "delta"} => low[t] = "no"
        /\ stage[t] = "pack" /\ key[t] # 0 => low[t] = "no"

\* The lines that were written of the frame decoded last are still its own.
DecodedInv ==
    shown.id # 0 /\ ~shown.overlapped =>
        \A p \in Lines(shown.low # "no") : screen[p] = shown.id

\* The mark is that frame's, or was taken away by one that was refused.
MarkInv == marked <=> shown.low # "no" /\ ~refused

ScreenInv == DecodedInv /\ MarkInv

VideoInv ==
    Inv /\ TakenInv /\ FullInv /\ VideoTypeOK /\ NetInv /\ ClientKeyInv /\ ScreenInv

\* Nothing but Take brings a thread out of "idle", and nothing else sets its id.
LEMMA TakenKeeps == Inv /\ TakenInv /\ [Next]_compressorVars => TakenInv'
<1> SUFFICES ASSUME Inv, TakenInv, [Next]_compressorVars PROVE TakenInv'  OBVIOUS
<1>1. stage \in [Threads -> Stages] /\ id \in [Threads -> 0 .. MaxId] /\ nextId \in 1 .. MaxId + 1
  BY DEF Inv, TypeOK
<1>2. ASSUME NEW t \in Threads, Take(t) PROVE TakenInv'
  BY <1>1, <1>2, FrameAssumption DEF Take, Goto, TakenInv, Ids, threadVars
<1>3. ASSUME id' = id, \A u \in Threads : stage'[u] # "idle" => stage[u] # "idle"
      PROVE TakenInv'
  BY <1>3 DEF TakenInv
<1>4. ASSUME NEW t \in Threads, Compress(t) PROVE TakenInv'
  <2>1. id' = id
    BY <1>4 DEF Compress, Begin, Lock, Build, Publish, Await, Name, Delta, Restart
  <2>2. stage[t] # "idle"
    BY <1>4 DEF Compress, Begin, Lock, Build, Publish, Await, Name, Delta, Restart
  <2>3. ASSUME NEW u \in Threads \ {t}, stage'[u] # "idle" PROVE stage[u] # "idle"
    BY <1>1, <1>4, <2>3
       DEF Compress, Begin, Lock, Build, Publish, Await, Name, Delta, Restart, Goto, NotifyAll
  <2>4. QED  BY <1>3, <2>1, <2>2, <2>3
<1>5. ASSUME NEW t \in Threads, TimeOut(t) \/ Return(t) PROVE TakenInv'
  BY <1>1, <1>3, <1>5 DEF TimeOut, Return, Goto
<1>6. ASSUME Control \/ UNCHANGED compressorVars PROVE TakenInv'
  BY <1>1, <1>3, <1>6
     DEF Control, Stop, SetDownSample, UpdateFrameInterval, NotifyAll, compressorVars, threadVars
<1>7. QED  BY <1>2, <1>4, <1>5, <1>6 DEF Next

\* Only Restart makes a frame low later, which begins it anew, and Begin forgets
\* the keyframe that it named.
LEMMA FullKeeps == Inv /\ FullInv /\ [Next]_compressorVars => FullInv'
<1> SUFFICES ASSUME Inv, FullInv, [Next]_compressorVars PROVE FullInv'  OBVIOUS
<1>1. /\ stage \in [Threads -> Stages] /\ low \in [Threads -> Resolutions]
      /\ key \in [Threads -> 0 .. MaxId] /\ nextId \in 1 .. MaxId + 1
  BY DEF Inv, TypeOK
<1>2. ASSUME NEW t \in Threads, Take(t) PROVE FullInv'
  BY <1>1, <1>2 DEF Take, Goto, FullInv, threadVars
<1>3. ASSUME NEW t \in Threads, Begin(t) PROVE FullInv'
  BY <1>1, <1>3, FrameAssumption DEF Begin, Goto, FullInv
<1>4. ASSUME NEW t \in Threads, Lock(t) \/ Build(t) PROVE FullInv'
  BY <1>1, <1>4 DEF Lock, Build, Goto, FullInv
<1>5. ASSUME NEW t \in Threads, Publish(t) PROVE FullInv'
  <2>1. key[t] = 0
    BY <1>5 DEF Publish, Inv, KeyInv
  <2>2. QED  BY <1>1, <1>5, <2>1 DEF Publish, NotifyAll, FullInv
<1>6. ASSUME NEW t \in Threads, Await(t) \/ TimeOut(t) PROVE FullInv'
  BY <1>1, <1>6 DEF Await, TimeOut, Goto, FullInv
<1>7. ASSUME NEW t \in Threads, Name(t) \/ Delta(t) PROVE FullInv'
  BY <1>1, <1>7 DEF Name, Delta, Goto, FullInv
<1>8. ASSUME NEW t \in Threads, Restart(t) \/ Return(t) PROVE FullInv'
  BY <1>1, <1>8 DEF Restart, Return, Goto, FullInv
<1>9. ASSUME Control \/ UNCHANGED compressorVars PROVE FullInv'
  BY <1>1, <1>9 DEF Control, Stop, SetDownSample, UpdateFrameInterval, NotifyAll, FullInv,
     compressorVars, threadVars
<1>10. QED
  BY <1>2, <1>3, <1>4, <1>5, <1>6, <1>7, <1>8, <1>9 DEF Next, Compress

LEMMA VideoInitInv == VideoInit => VideoInv
<1> SUFFICES ASSUME VideoInit PROVE VideoInv  OBVIOUS
<1>1. Inv
  BY InitInv DEF VideoInit
<1>2. VideoTypeOK
  <2>1. PictureOf(0) \in Picture
    BY FrameAssumption DEF Picture, PictureOf
  <2>2. NoFrame \in [id : 0 .. MaxId, low : Resolutions, overlapped : BOOLEAN]
    BY FrameAssumption DEF NoFrame, Resolutions
  <2>3. screen \in Picture /\ dCells \in Picture /\ marked \in BOOLEAN /\ refused \in BOOLEAN
    BY <2>1 DEF VideoInit, DecompressorInit
  <2>4. dKey \in 0 .. MaxId
    BY FrameAssumption DEF VideoInit, DecompressorInit
  <2>5. shown \in [id : 0 .. MaxId, low : Resolutions, overlapped : BOOLEAN]
    BY <2>2 DEF VideoInit, DecompressorInit
  <2>6. net \in SUBSET Frame
    BY DEF VideoInit
  <2>7. QED  BY <1>1, <2>3, <2>4, <2>5, <2>6 DEF VideoTypeOK, Inv
<1>3. TakenInv /\ FullInv /\ NetInv /\ ClientKeyInv /\ ScreenInv
  BY DEF VideoInit, Init, DecompressorInit, TakenInv, FullInv, NetInv, ClientKeyInv,
     ScreenInv, DecodedInv, MarkInv, NoFrame
<1>4. QED  BY <1>1, <1>2, <1>3 DEF VideoInv

LEMMA HostStepKeeps == VideoInv /\ HostStep => VideoInv'
<1> SUFFICES ASSUME VideoInv, HostStep PROVE VideoInv'  OBVIOUS
<1>1. Inv' /\ TakenInv' /\ FullInv'
  <2>1. Next
    BY DEF HostStep, Next
  <2>2. QED  BY <2>1, NextKeeps, TakenKeeps, FullKeeps DEF VideoInv
<1>2. UNCHANGED decompressorVars /\ UNCHANGED net
  BY DEF HostStep
<1>3. QED
  BY <1>1, <1>2 DEF VideoInv, Inv, VideoTypeOK, NetInv, ClientKeyInv, ScreenInv, DecodedInv,
     MarkInv, decompressorVars

LEMMA SendKeeps == ASSUME NEW t \in Threads, VideoInv, Send(t) PROVE VideoInv'
<1>1. Inv' /\ TakenInv' /\ FullInv'
  <2>1. Next
    BY DEF Send, Next
  <2>2. QED  BY <2>1, NextKeeps, TakenKeeps, FullKeeps DEF VideoInv
<1>2. Result(t) \in Frame
  <2>1. id[t] \in Ids
    BY DEF VideoInv, Inv, TypeOK, Send, Return, TakenInv
  <2>2. PictureOf(0) \in Picture /\ base[t] \in Picture
    BY FrameAssumption DEF VideoInv, Inv, TypeOK, Picture, PictureOf
  <2>3. key[t] \in 0 .. MaxId /\ low[t] \in Resolutions /\ overlapped[t] \in BOOLEAN
    BY DEF VideoInv, Inv, TypeOK
  <2>4. (key[t] # 0 /\ overlapped[t]) \in BOOLEAN
    OBVIOUS
  <2>5. QED  BY <2>1, <2>2, <2>3, <2>4 DEF Result, Frame
<1>3. VideoTypeOK'
  BY <1>1, <1>2 DEF VideoInv, VideoTypeOK, Inv, Send, decompressorVars
<1>4. NetInv'
  <2>1. Result(t).key # 0 /\ ~Result(t).overlapped => Result(t).base = PictureOf(Result(t).key)
    BY DEF Result, VideoInv, Inv, DeltaInv, DeltaOf, Send, Return
  <2>2. Result(t).key # 0 => Result(t).low = "no"
    BY DEF Result, VideoInv, FullInv, Send, Return
  <2>3. QED  BY <2>1, <2>2 DEF VideoInv, NetInv, Send
<1>5. ClientKeyInv' /\ ScreenInv'
  BY DEF Send, decompressorVars, VideoInv, ClientKeyInv, ScreenInv, DecodedInv, MarkInv
<1>6. QED  BY <1>1, <1>3, <1>4, <1>5 DEF VideoInv

LEMMA ReceiveKeeps == ASSUME NEW f \in net, VideoInv, Receive(f) PROVE VideoInv'
<1> USE FrameAssumption
<1>1. f \in Frame
  BY DEF VideoInv, VideoTypeOK
<1>2. f.id \in Ids /\ f.key \in 0 .. MaxId /\ f.low \in Resolutions
      /\ f.base \in Picture /\ f.overlapped \in BOOLEAN
  BY <1>1 DEF Frame
<1>3. Inv' /\ TakenInv' /\ FullInv'
  BY NextKeeps, TakenKeeps, FullKeeps DEF Receive, VideoInv
<1>4. screen \in [Pixel -> 0 .. MaxId] /\ dCells \in [Pixel -> 0 .. MaxId] /\ dKey \in 0 .. MaxId
  BY DEF VideoInv, VideoTypeOK, Picture
<1>5. marked' \in BOOLEAN /\ net' \in SUBSET Frame /\ NetInv'
  BY DEF Receive, Decompress, VideoInv, VideoTypeOK, NetInv
<1>6. CASE DecodeFull(f)
  <2>1. screen' \in Picture /\ dCells' \in Picture /\ dKey' \in 0 .. MaxId
    BY <1>2, <1>4, <1>6 DEF DecodeFull, Picture, PictureOf, Ids
  <2>2. shown' = [id |-> f.id, low |-> f.low, overlapped |-> f.overlapped] /\ refused' = FALSE
    BY <1>6 DEF DecodeFull, Show
  <2>3. shown' \in [id : 0 .. MaxId, low : Resolutions, overlapped : BOOLEAN]
    BY <1>2, <2>2 DEF Ids
  <2>4. ClientKeyInv'
    BY <1>6 DEF DecodeFull, ClientKeyInv, VideoInv
  <2>5. DecodedInv'
    BY <1>6, <2>2 DEF DecodeFull, DecodedInv, Lines
  <2>6. MarkInv'
    BY <2>2 DEF Receive, Decompress, MarkInv
  <2>7. QED
    BY <1>3, <1>5, <2>1, <2>2, <2>3, <2>4, <2>5, <2>6 DEF VideoInv, VideoTypeOK, Inv, ScreenInv
<1>7. CASE DecodeDelta(f)
  <2>1. screen' \in Picture
    BY <1>2, <1>7 DEF DecodeDelta, Picture, Ids
  <2>2. shown' = [id |-> f.id, low |-> f.low, overlapped |-> f.overlapped] /\ refused' = FALSE
    BY <1>7 DEF DecodeDelta, Show
  <2>3. shown' \in [id : 0 .. MaxId, low : Resolutions, overlapped : BOOLEAN]
    BY <1>2, <2>2 DEF Ids
  <2>4. ClientKeyInv'
    BY <1>7 DEF DecodeDelta, ClientKeyInv, VideoInv
  <2>5. ~f.overlapped => f.base = dCells
    BY <1>7 DEF DecodeDelta, VideoInv, NetInv, ClientKeyInv
  <2>6. DecodedInv'
    BY <1>7, <2>2, <2>5 DEF DecodeDelta, DecodedInv, Lines
  <2>7. MarkInv'
    BY <2>2 DEF Receive, Decompress, MarkInv
  <2>8. QED
    BY <1>3, <1>4, <1>5, <1>7, <2>1, <2>2, <2>3, <2>4, <2>6, <2>7
       DEF DecodeDelta, VideoInv, VideoTypeOK, Inv, ScreenInv
<1>8. CASE Refuse(f)
  <2>1. MarkInv'
    <3>1. f.low = "no"
      BY <1>8 DEF Refuse, VideoInv, NetInv
    <3>2. QED  BY <1>8, <3>1 DEF Refuse, Receive, Decompress, MarkInv
  <2>2. QED
    BY <1>3, <1>5, <1>8, <2>1
       DEF Refuse, VideoInv, VideoTypeOK, Inv, ClientKeyInv, ScreenInv, DecodedInv
<1>9. QED  BY <1>6, <1>7, <1>8 DEF Receive, Decompress

LEMMA RestartedKeeps == VideoInv /\ Restarted => VideoInv'
<1> SUFFICES ASSUME VideoInv, Restarted PROVE VideoInv'  OBVIOUS
<1>1. Inv' /\ TakenInv' /\ FullInv'
  BY NextKeeps, TakenKeeps, FullKeeps DEF Restarted, VideoInv
<1>2. QED
  BY <1>1, FrameAssumption DEF Restarted, StartDecompressor, VideoInv, VideoTypeOK, Inv, NetInv,
     ClientKeyInv, ScreenInv, DecodedInv, MarkInv

LEMMA VideoNextKeeps == VideoInv /\ [VideoNext]_videoVars => VideoInv'
<1> SUFFICES ASSUME VideoInv, [VideoNext]_videoVars PROVE VideoInv'  OBVIOUS
<1>1. CASE UNCHANGED videoVars
  <2>1. Inv' /\ TakenInv' /\ FullInv'
    BY <1>1, NextKeeps, TakenKeeps, FullKeeps DEF videoVars, VideoInv
  <2>2. QED
    BY <1>1, <2>1 DEF videoVars, decompressorVars, VideoInv, VideoTypeOK, Inv, NetInv,
       ClientKeyInv, ScreenInv, DecodedInv, MarkInv
<1>2. CASE VideoNext
  BY <1>2, HostStepKeeps, SendKeeps, ReceiveKeeps, RestartedKeeps DEF VideoNext
<1>3. QED  BY <1>1, <1>2

LEMMA VideoInvHolds == VideoSpec => []VideoInv
<1>1. VideoInit => VideoInv
  BY VideoInitInv
<1>2. VideoInv /\ [VideoNext]_videoVars => VideoInv'
  BY VideoNextKeeps
<1>3. QED  BY <1>1, <1>2, PTL DEF VideoSpec

-----------------------------------------------------------------------------
\* Every variable of the host, the client and the network keeps its type.
THEOREM VideoTypeCorrect == VideoSpec => []VideoTypeOK
<1>1. VideoInv => VideoTypeOK
  BY DEF VideoInv
<1>2. QED  BY <1>1, VideoInvHolds, PTL

\* What the renderer shows, by the mark it reads, is one captured picture, whatever
\* the network does to the frames: unless the host mixed two keyframes up in it, or
\* it is downsampled and a frame that was refused since took its mark away.
THEOREM PicturesAreTrue == VideoSpec => []PictureIsTrue
<1>1. VideoInv => PictureIsTrue
  <2> SUFFICES ASSUME VideoInv PROVE PictureIsTrue  OBVIOUS
  <2>1. (shown.low # "no" /\ ~refused) => marked
    BY DEF VideoInv, ScreenInv, MarkInv
  <2>2. (shown.low = "no") => ~marked
    BY DEF VideoInv, ScreenInv, MarkInv
  <2>3. (~(refused /\ shown.low # "no")) => (Lines(marked) = Lines(shown.low # "no"))
    BY <2>1, <2>2 DEF Lines
  <2>4. QED  BY <2>3 DEF VideoInv, ScreenInv, DecodedInv, PictureIsTrue
<1>2. QED  BY <1>1, VideoInvHolds, PTL
=============================================================================
