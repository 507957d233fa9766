----------------------------- MODULE RemoteVideo -----------------------------
(***************************************************************************)
(* The host's FrameCompressor and the client's FrameDecompressor, with the *)
(* network between them: a frame that compress() returned reaches the      *)
(* client at any later time, before or after others, or never.             *)
(***************************************************************************)
EXTENDS FrameCompressor, FrameDecompressor

VARIABLE net \* the frames that are under way, or lost

videoVars == <<compressorVars, decompressorVars, net>>

Send(t) ==
    /\ Return(t)
    /\ net' = net \cup {Result(t)}
    /\ UNCHANGED decompressorVars

Receive(f) ==
    /\ net' = net \ {f}
    /\ Decompress(f)
    /\ UNCHANGED compressorVars

Restarted ==
    /\ StartDecompressor
    /\ UNCHANGED <<compressorVars, net>>

HostStep ==
    /\ \/ \E t \in Threads : Take(t) \/ Compress(t) \/ TimeOut(t)
       \/ Control
    /\ UNCHANGED <<decompressorVars, net>>

VideoInit == Init /\ DecompressorInit /\ net = {}

VideoNext ==
    \/ HostStep
    \/ \E t \in Threads : Send(t)
    \/ \E f \in net : Receive(f)
    \/ Restarted

VideoSpec == VideoInit /\ [][VideoNext]_videoVars

\* The fairness of the host's threads; the network and the client owe nothing.
FairVideoSpec == VideoSpec /\ Fairness

-----------------------------------------------------------------------------
(***************************************************************************)
(* Properties.                                                             *)
(***************************************************************************)

VideoTypeOK ==
    /\ TypeOK
    /\ screen \in Picture /\ dCells \in Picture
    /\ marked \in BOOLEAN /\ refused \in BOOLEAN /\ dKey \in 0 .. MaxId
    /\ shown \in [id : 0 .. MaxId, low : Resolutions, overlapped : BOOLEAN]
    /\ net \in SUBSET Frame

\* What the renderer shows at the client, which is every line or every second one
\* as the mark says, is one picture the host captured: not differences to one
\* keyframe added to another, nor lines of two pictures, whatever frames were lost
\* or late or came in another order.  There are two exceptions: the host itself
\* mixed two keyframes up in the frame; or the frame is downsampled, and a later one
\* took the mark away before it was refused (see MarkIsOfTheFrame).
PictureIsTrue ==
    shown.id # 0 /\ ~shown.overlapped /\ ~(refused /\ shown.low # "no") =>
        \A p \in Lines(marked) : screen[p] = shown.id

\* "Mark the element after last pixel to indicate that we use downsampled frame":
\* the renderer is told whether the frame on the screen is downsampled, although
\* the mark is set before it is known whether a frame can be decoded.
MarkIsOfTheFrame == shown.id # 0 => marked = (shown.low # "no")
=============================================================================
