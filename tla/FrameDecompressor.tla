-------------------------- MODULE FrameDecompressor --------------------------
(***************************************************************************)
(* ZlibFrameDecompressor (source/core/NstFrameCompressorZlib.cpp): the     *)
(* client turns the frames it receives back into pictures on its screen.   *)
(*                                                                         *)
(* A pixel is one line here: of a downsampled frame only every second line *)
(* is written, and the element after the last pixel tells the renderer so. *)
(* m_lastDecompressId never leaves INVALID_FRAME_ID, so that a frame is    *)
(* decoded whatever was decoded before it, and the screen is blitted in    *)
(* every FrameStep.                                                        *)
(***************************************************************************)
EXTENDS FrameFormat

VARIABLES
    screen,  \* screen.pixels: 0 for a pixel that is of no captured frame
    marked,  \* screen.pixels[PIXELS]: the frame is downsampled
    dKey,    \* m_lastKeyframeId
    dCells,  \* m_lastKeyframe.pixels
    shown,   \* history: the last frame that was decoded, 0 before any
    refused  \* history: a frame was refused since that one was decoded

decompressorVars == <<screen, marked, dKey, dCells, shown, refused>>

NoFrame == [id |-> 0, low |-> "no", overlapped |-> FALSE]

\* The lines that are written of a frame, and taken by the renderer, which knows
\* from the mark whether the screen is downsampled.
Lines(low) == IF low THEN {p \in Pixel : p % 2 = 1} ELSE Pixel

Show(f) ==
    /\ shown' = [id |-> f.id, low |-> f.low, overlapped |-> f.overlapped]
    /\ refused' = FALSE

\* A frame that stands by itself; in full resolution it is the new keyframe.
DecodeFull(f) ==
    /\ f.key = 0
    /\ screen' = [p \in Pixel |-> IF p \in Lines(f.low # "no") THEN f.id ELSE screen[p]]
    /\ IF f.low = "no" THEN dKey' = f.id /\ dCells' = PictureOf(f.id)
                       ELSE UNCHANGED <<dKey, dCells>>
    /\ Show(f)

\* Mutant: the differences are added to whatever keyframe there is.
DecodeAnyDelta(f) ==
    /\ f.key # 0 /\ dKey # 0
    /\ screen' = [p \in Pixel |-> IF f.base[p] = dCells[p] THEN f.id ELSE 0]
    /\ UNCHANGED <<dKey, dCells>>
    /\ Show(f)

\* A delta frame of the last keyframe.
DecodeDelta(f) ==
    /\ f.key # 0 /\ f.key = dKey
    /\ screen' = [p \in Pixel |-> IF f.base[p] = dCells[p] THEN f.id ELSE 0]
    /\ UNCHANGED <<dKey, dCells>>
    /\ Show(f)

\* A delta frame of another keyframe is refused, after the mark was set.
Refuse(f) ==
    /\ f.key # 0 /\ f.key # dKey
    /\ refused' = TRUE
    /\ UNCHANGED <<screen, dKey, dCells, shown>>

\* Mutant: the element after the last pixel is not marked.
DecompressUnmarked(f) ==
    /\ marked' = FALSE
    /\ DecodeFull(f) \/ DecodeDelta(f) \/ Refuse(f)

\* HandleRemoteFrame and Decompress.
Decompress(f) ==
    /\ marked' = (f.low # "no")
    /\ DecodeFull(f) \/ DecodeDelta(f) \/ Refuse(f)

\* Start(), when the client is ready for frames.
StartDecompressor ==
    /\ dKey' = 0
    /\ UNCHANGED <<screen, marked, dCells, shown, refused>>

DecompressorInit ==
    /\ screen = PictureOf(0) /\ marked = FALSE
    /\ dKey = 0 /\ dCells = PictureOf(0)
    /\ shown = NoFrame /\ refused = FALSE
=============================================================================
