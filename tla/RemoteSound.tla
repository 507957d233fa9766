----------------------------- MODULE RemoteSound -----------------------------
(***************************************************************************)
(* What a client of a remote game hears: Machine::HandleRemoteAudio        *)
(* (source/core/NstMachine.cpp) fills what the audio driver's Lock offers  *)
(* with the decoded packets of the remote engine.  What is left of a       *)
(* packet waits in one of two buffers that are used in turn.               *)
(***************************************************************************)
EXTENDS PlayQueue

CONSTANT MaxPacket \* samples of the largest packet

ASSUME PacketAssumption == MaxPacket \in Nat \ {0}

VARIABLES
    sent,    \* samples that came from the host
    packets, \* the engine's audio events, the oldest first
    buffers, \* remoteAudioBuffers
    next,    \* nextRemoteAudioBufferIdx
    room     \* totalOutputSize: what may still be written

remoteVars == <<sent, packets, buffers, next, room>>
vars       == <<queueVars, remoteVars>>

\* The engine's network thread decodes a packet.
Arrive(n) ==
    /\ sent + n <= MaxSamples
    /\ sent' = sent + n
    /\ packets' = Append(packets, [i \in 1 .. n |-> sent + i])
    /\ UNCHANGED <<queueVars, buffers, next, room>>

\* lockCallback, in HandleRemoteAudioEventAsClient.
BeginFrame ==
    /\ Lock \/ LockInNewMode
    /\ room' = IF emulation' = "mix" THEN Len(unqueued') * SubSize ELSE room
    /\ UNCHANGED <<sent, packets, buffers, next>>

\* Mutant: what is left stays behind in the buffer it was in.
ConsumeInPlace(data, used) ==
    IF used < Len(data)
    THEN /\ next' = 1 - next
         /\ buffers' = [buffers EXCEPT ![next] = data,
                          ![1 - next] = @ \o SubSeq(data, used + 1, Len(data))]
    ELSE /\ buffers' = [buffers EXCEPT ![next] = <<>>]
         /\ UNCHANGED next

\* Mutant: what is left is cleared with the rest.
ConsumeAll(data, used) ==
    /\ buffers' = [buffers EXCEPT ![next] = <<>>]
    /\ UNCHANGED next

\* ConsumeRemoteAudioBuffer, when the current buffer holds data.
Consume(data, used) ==
    IF used < Len(data)
    THEN /\ next' = 1 - next
         /\ buffers' = [buffers EXCEPT ![next] = <<>>,
                          ![1 - next] = @ \o SubSeq(data, used + 1, Len(data))]
    ELSE /\ buffers' = [buffers EXCEPT ![next] = <<>>]
         /\ UNCHANGED next

\* The buffer alone fills the output: no packet is taken from the engine.
Enough == Len(buffers[next]) >= room

MoreToMix == room > 0 /\ (Enough \/ packets # <<>>)

\* Mutant: as much is copied as there is.
MixPastTheEnd ==
    /\ emulation = "mix" /\ MoreToMix
    /\ packets' = IF Enough THEN packets ELSE Tail(packets)
    /\ LET data == buffers[next] \o (IF Enough THEN <<>> ELSE Head(packets))
       IN  /\ output' = output \o data
           /\ room' = IF Len(data) > room THEN 0 ELSE room - Len(data)
           /\ Consume(data, Len(data))
    /\ UNCHANGED <<playerVars, slVars, listVars, mem, emulation, heard, dropped, faults, sent>>

\* One turn of the loop.  (The driver has one region: length[1] is 0.)
Mix ==
    /\ emulation = "mix" /\ MoreToMix
    /\ packets' = IF Enough THEN packets ELSE Tail(packets)
    /\ LET data == buffers[next] \o (IF Enough THEN <<>> ELSE Head(packets))
           n    == Min({Len(data), room})
       IN  /\ output' = output \o SubSeq(data, 1, n)
           /\ room' = room - n
           /\ Consume(data, n)
    /\ UNCHANGED <<playerVars, slVars, listVars, mem, emulation, heard, dropped, faults, sent>>

\* unlockCallback.
EndFrame ==
    /\ ~MoreToMix
    /\ Unlock
    /\ UNCHANGED remoteVars

\* The samples of the engine's events.
Undelivered == UNION {ToSet(packets[i]) : i \in DOMAIN packets}

\* Machine::LoadRemote with a new engine: ResetRemoteAudioBuffer.
LoadRemote ==
    /\ emulation = "idle"
    /\ Fault
    /\ dropped' = dropped \cup ToSet(buffers[0] \o buffers[1]) \cup Undelivered
    /\ packets' = <<>>
    /\ buffers' = [i \in 0 .. 1 |-> <<>>] /\ next' = 0
    /\ UNCHANGED <<playerVars, slVars, listVars, mem, emulation, output, heard, sent, room>>

Driver == Play \/ Callback \/ UpdateSettings \/ Pause \/ Resume \/ Submit \/ Note

Next ==
    \/ \E n \in 1 .. MaxPacket : Arrive(n)
    \/ BeginFrame \/ Mix \/ EndFrame \/ LoadRemote
    \/ Driver /\ UNCHANGED remoteVars

Init ==
    /\ QueueInit
    /\ sent = 0 /\ packets = <<>>
    /\ buffers = [i \in 0 .. 1 |-> <<>>] /\ next = 0
    /\ room = 0

Spec == Init /\ [][Next]_vars

-----------------------------------------------------------------------------
(***************************************************************************)
(* Properties.                                                             *)
(***************************************************************************)

TypeOK ==
    /\ QueueTypeOK
    /\ sent \in 0 .. MaxSamples
    /\ packets \in Seq(Seq(Sample))
    /\ buffers \in [0 .. 1 -> Seq(Sample)] /\ next \in 0 .. 1
    /\ room \in 0 .. NumSubBuffers * SubSize

\* What was written and what may still be written fits into the sub-buffers that
\* are not queued, as Lock promised: Unlock never takes one from an empty list.
RoomIsThere ==
    emulation # "idle" =>
        Len(output) + (IF emulation = "mix" THEN room ELSE 0) <= Len(unqueued) * SubSize

\* Samples are played in order and once, and none is left out but for those that
\* a new player, a new connection or a failure of OpenSL gave up: neither
\* the buffers used in turn nor the sub-buffers mix them up, however packets,
\* frames, callbacks, pauses and Resets follow each other.
HeardIsTrue ==
    /\ \A i, j \in DOMAIN heard : i < j => heard[i] < heard[j]
    /\ heard # <<>> => 1 .. Last(heard) \subseteq ToSet(heard) \cup dropped

\* What is less than a frame's room is kept back until another packet comes.
KeptBack(s) == packets = <<>> /\ s \in ToSet(buffers[next])

\* While there is a player that plays, what came from the host is heard, but for
\* what is kept back: the sub-buffers never run out for good.
SoundIsHeard ==
    \A s \in Sample :
        s <= sent ~> \/ s \in ToSet(heard) \cup dropped
                     \/ KeptBack(s)
                     \/ ~playing \/ player # "made"
=============================================================================
