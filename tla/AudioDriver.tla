---------------------------- MODULE AudioDriver ----------------------------
(***************************************************************************)
(* The two halves of the Android audio driver: the microphone and the      *)
(* loudspeaker, the latter fed by a remote game.  They share no data, only *)
(* m_threadSafetyLock, and the driver's Reset, which each half has as an   *)
(* action of its own.  To a half the other one is a holder of that lock    *)
(* that lets it go in the end, so a behaviour follows one of them.         *)
(***************************************************************************)
EXTENDS AudioInput, RemoteSound

VARIABLE half \* which one

driverVars == <<inputVars, vars, half>>

DriverInit ==
    /\ half \in {"microphone", "loudspeaker"}
    /\ InputInit
    /\ Init

DriverNext ==
    /\ UNCHANGED half
    /\ \/ half = "microphone" /\ InputNext /\ UNCHANGED vars
       \/ half = "loudspeaker" /\ Next /\ UNCHANGED inputVars

\* A step of the half that the behaviour follows.
MicrophoneStep(A)  == half = "microphone" /\ A /\ UNCHANGED <<vars, half>>
LoudspeakerStep(A) == half = "loudspeaker" /\ A /\ UNCHANGED <<inputVars, half>>

\* The operating system runs every runnable thread, and AudioRecord.read returns;
\* nobody has to press a button or pop a sample.  A player that is to play plays
\* and calls back, and the emulation thread runs frame after frame; no packet
\* has to come.
DriverFairness ==
    /\ WF_driverVars(MicrophoneStep(RecorderStep))
    /\ WF_driverVars(MicrophoneStep(StopStep))
    /\ WF_driverVars(LoudspeakerStep(Play /\ UNCHANGED remoteVars))
    /\ WF_driverVars(LoudspeakerStep(Callback /\ UNCHANGED remoteVars))
    /\ WF_driverVars(LoudspeakerStep(BeginFrame))
    /\ WF_driverVars(LoudspeakerStep(Mix \/ EndFrame))
    /\ WF_driverVars(LoudspeakerStep((Submit \/ Note) /\ UNCHANGED remoteVars))

DriverSpec == DriverInit /\ [][DriverNext]_driverVars /\ DriverFairness
=============================================================================
