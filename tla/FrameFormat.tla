----------------------------- MODULE FrameFormat -----------------------------
(***************************************************************************)
(* What the compressor of the host and the decompressor of the client      *)
(* (source/core/NstFrameCompressorZlib.cpp) have in common.                *)
(*                                                                         *)
(* A picture is a function from pixels to the id of the captured frame the *)
(* pixel is of.  A compressed frame names the keyframe it is relative to,  *)
(* or 0 if it stands by itself, and says whether every second line was     *)
(* left out ("low").  Of the differences a delta frame is made of, it      *)
(* keeps which picture each was taken against ("base").                    *)
(***************************************************************************)
EXTENDS Integers

CONSTANTS
    Pixels, \* pixels per frame
    MaxId   \* bound: frames captured

ASSUME FrameAssumption == Pixels \in Nat \ {0} /\ MaxId \in Nat

Pixel   == 1 .. Pixels
Ids     == 1 .. MaxId
Picture == [Pixel -> 0 .. MaxId]

\* The picture of frame i, and the one before any frame (i = 0).
PictureOf(i) == [p \in Pixel |-> i]

\* "no": full resolution; "host": the host asked for low resolution;
\* "adaptive": the frame was too large otherwise.
Resolutions == {"no", "host", "adaptive"}

\* "overlapped" is history: a keyframe was begun while this one was encoded.
Frame == [id : Ids, key : 0 .. MaxId, low : Resolutions, base : Picture,
          overlapped : BOOLEAN]
=============================================================================
