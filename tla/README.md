# A TLA+ development for Multiness

Multiness is a port of the Nestopia NES emulator to Android, iOS, WinRT, Windows
and Unix, to which it adds playing over the network: one player hosts, runs the
emulator and sends its picture and sound; a guest sends its buttons. What is
new in it, and hard, is concurrent and distributed code: NAT punch-through with
fall-backs, sessions that survive a lost connection, video compressed by several
threads for an unreliable network, a microphone and a loudspeaker served by threads
of their own. This
directory models that code, checks it with TLC and proves the main invariants
with TLAPS. Paths below are relative to `src/`; `RakNet.cpp` is short for
`source/remote_control/ConnectionHandlerRakNet.cpp`, `Zlib.cpp` for
`source/core/NstFrameCompressorZlib.cpp`.

## 1. Inventory

| Component | State it keeps | Operations | Modelled by |
|---|---|---|---|
| Ring buffer (`core/NstRingBuffer.hpp`) | begin, end, full flag, cells | `BeginWrite/EndWrite`, `BeginRead/EndRead`, `Push`, `Pop`, `Clear`, `Size` | `RingBuffer` |
| Android audio input (`mobile/android/AudioDriver.cpp`) | ring, recorder thread and its flag, recorder object, capturing and permission flags, two mutexes, a condition variable | `EnableInput`, `ReadInput`, `InputPermissionChanged`, `UpdateSettings`, `Reset`, `Release`, the recorder's loop | `AudioInput` |
| Connection handler: base (`RakNet.cpp` 201-1130) | packet queue, NAT server connection and its attempts, port forwarding, error | `pollingProc`, `onConnected`, `tryReconnectToNatServer`, `restart`, `doPortForwardingAsync` | `NatConnection` |
| Connection handler: host (`RakNet.cpp` 1196-1399) | session address, waiting timer, invitation key | requests, losses, invitations, giving up | `HostHandler` |
| Connection handler: guest (`RakNet.cpp` 1402-1752) | session path, ways tried, attempts left | punching, LAN, relay, LAN search, reconnection, connectivity test | `GuestHandler` |
| GUID checker (`RakNet.cpp` 1755-1795) | buffered queries | query, send on connection | `GuidChecker` |
| Port forwarding (`RakNet.cpp` 385-421, 444-588) | the handler's port, a reference from each thread to its handler and back, two global locks | `stopImpl`, `doPortForwardingAsync`, `removePortForwardingAsync` and their threads | `PortForwarding` |
| Remote video (`Zlib.cpp`, `core/NstFrameCompressorCommon.hpp`) | last keyframe and its id, threads, adaptive resolution; the client's screen and keyframe | `compress`, `Stop`, `Decompress`, `Start` | `FrameCompressor`, `FrameDecompressor`, `RemoteVideo` |
| Remote session (`core/NstMachine.cpp`, `core/NstCpu.cpp` 500-553) | `clientState` of both machines, client's info, input ids | handshake, mode change, loss and replacement of a guest, inputs, `Load`, `LoadRemote`, enabling and disabling | `RemoteSession` |
| Mobile wrapper (`mobile/NesSystemWrapper.cpp`) | `m_loaded`, `m_loadedFile`, its machine | `LoadGame`, `LoadRemote`, `Shutdown`, `EVENT_UNLOAD`, remote control | `SystemWrapper`, part of `RemoteSession` |
| Remote sound, client's side (`core/NstMachine.cpp` 843-975) | two buffers of remainders used in turn | `HandleRemoteAudio`, `ConsumeRemoteAudioBuffer`, `ResetRemoteAudioBuffer` | `RemoteSound` |
| OpenSL ES play queue (`mobile/android/AudioDriver.cpp`) | two lists of sub-buffers, the player and its state | `Lock`, `Unlock`, callback, `Reset`, `UpdateSettings`, pause and resume | `PlayQueue`, part of `RemoteSound` |
| Rewinder (`core/NstTrackerRewinder.cpp`) | ring of keys, recorded input, direction, pictures in reverse | `Execute`, `ChangeDirection`, `Start`, `Stop`, `Reset` | `Rewinder` |
| Movie (`core/NstTrackerMovie.cpp`) | recorder or player, its key, the two ports' buffers, the file | record, append, play, stop, keys and their lengths | `Movie` |
| Tracker (`core/NstTracker.cpp`) | rewinder or movie or neither | `Execute`, enabling, `Reset`, `Resync`, locking | `Tracker`, which implements `Timeline` |
| OpenAL output (`mobile/AudioDriverAL.cpp`) | pool of buffers, the source's queue | `Lock`, `Unlock`, `Release` | not modelled |
| NAT punch-through server (`RakNetNATServer/main.cpp`) | RakNet's sample server | accepts users, answers GUID queries | environment only |
| RakNet, HQRemote | git submodules, absent | queues, connections, engine threads | environment only, marked external |
| Emulation core, user interfaces, Kaillera (Win32), iOS/WinRT drivers | | | not modelled |

How they interact: the wrapper creates a machine and a connection handler; the
handler runs on RakNet's thread and hands a connected socket to HQRemote's engine.
The emulation thread calls `Machine::Execute`, which first drains the engine's
events (`HandleRemoteEventsAsServer/AsClient`), then runs a frame and gives the
picture to the frame compressor on the engine's threads; the engine sends what
`compress` returns. The guest's machine decompresses frames in its own frame
loop. Captured voice goes from the audio driver's ring into the machine's frame
loop and over the engine.

What is hard here:

* *threads*: the recorder copies into a ring without its lock; compression
  threads wait for the keyframe another one builds, give its lock back and go on
  using it; user threads ask the NAT connection while it comes up; handlers
  hold a non-recursive mutex while calling their own operations;
* *ordering and loss*: frames and inputs are sent over unreliable channels;
  connection events of several guests are queued and handled late; a guest may
  be replaced between two frames of the host;
* *timeouts and retries*: bounded reconnection attempts, 20 seconds of waiting
  for a lost guest, 5 seconds of waiting for a keyframe;
* *counting*: both machines count handshake events instead of checking them;
* *long histories*: the rewinder turns around at any frame of a key, any number of
  times, on a ring of keys that are overwritten; a movie is recorded, cut off, appended
  to and played, with resets and loaded states in between;
* *roles*: one machine is host, guest or neither, and one variable, `clientState`,
  serves both roles.

The hazards in `PROJECT.json` list each of these at its line.

What makes each component correct: a *ring* never hands out a readable cell for
writing and accounts for each element; *audio input* has a thread exactly when it
should and can always stop it; *sound* is heard in order, once and without gaps; a *host* stays reachable, keeps its guest, and
lets go of a guest that is gone; a *guest* has one way at a time and either
resumes or ends; *queries* are sent; a handler that is gone is
not called back; a *delta frame* belongs to the keyframe it names, and the mark to
the frame on the screen, so *pictures* are true; the *handshake* means what its counters say; a game that is
*rewound* is seen picture by picture and goes on from any of them; a *movie* is played as
it was recorded.

## 2. Modules

| Module | Contents |
|---|---|
| `RingBuffer` | The two-phase ring as pure operators on `[begin, end, full]`, and regions; its lemmas are in `AudioInputProofs`. |
| `AudioInput`, `AudioInputProofs` | Recorder thread, popping emulation thread and UI thread around one ring. |
| `NatConnection` | The packet queue and NAT server half, shared by the three handlers below (EXTENDS). |
| `HostHandler`, `HostHandlerProofs` | The host, composed with any number of guests. |
| `HostSession` | What a host promises to the game above it, which `HostHandler` implements. |
| `GuestHandler`, `GuestHandlerProofs` | The guest, composed with the host over three paths. |
| `GuidChecker` | The checker of GUIDs, composed with the NAT server and user threads. |
| `PortForwarding` | Handlers made one after the other, with the threads they leave behind. |
| `HandlerThreads`, `HandlerThreadsProofs` | `GuidChecker` or `PortForwarding`: one run for the two. |
| `FrameFormat`, `FrameCompressor` | The compression threads; their lemmas are in `RemoteVideoProofs`. |
| `FrameDecompressor` | The client's decoder. |
| `RemoteVideo`, `RemoteVideoProofs` | Compressor, lossy and reordering network, decoder, composed. |
| `SystemWrapper` | What the wrapper believes of its machine, and what the machine is. |
| `RemoteSession`, `RemoteSessionProofs` | Host's wrapper and machine, guest's machine and the engine between them (EXTENDS `SystemWrapper`). |
| `PlayQueue` | The Android driver's sub-buffers between the emulation thread and OpenSL ES. |
| `RemoteSound`, `RemoteSoundProofs` | Packets of sound from the engine to the loudspeaker (EXTENDS `PlayQueue`). |
| `AudioDriver` | `AudioInput` or `RemoteSound`, the driver's two halves: one run for the two. |
| `Game` | A game as states and the states they were played from. |
| `Rewinder`, `Movie` | The two parts that play a game again. |
| `Tracker`, `Timeline`, `TrackerProofs` | The tracker, composed of both, and what it promises to who watches the screen. |

Each action stands for a whole handler; a handler is split only where the code
releases a lock or where another thread may run in the middle and see the
difference. Operators named "Mutant" in their comment are plausible bugs of
the definition that follows them; nothing in the specifications uses them.

**AudioInput.** A lap of `InputBufferFillingProc` is `Read` (AudioRecord.read),
`Reserve` (`BeginWrite` under `m_recBufferLock`, or the wait), `Copy` (no lock)
and `Commit` (`EndWrite`). `ReadInput` is one step, because it holds both locks.
The UI thread's `Stopping`, `StopNotify` and `StopJoin` are the flag, the
notification and the join of `StopInputBufferFillingThread`, with what `Release`
and `Reset` do after it in the same critical section as `StopJoin`. Samples are
numbered as they are copied, so order and staleness can be seen.

**NatConnection, HostHandler.** `inbox` is RakNet's packet queue. `phase` is the
polling thread's: packets enter while it is `"network"`, are all handled in
`"receive"`, after which `additionalUpdateProc` ends the poll; packets the
program sends to itself enter at any time. `"stuck"` is the polling thread
blocked on a mutex it holds. `timer` has the values that the 20 seconds
distinguish. `left` and `inviting` are history.

**GuestHandler.** The three paths to a host (punched, LAN, relay) each have a
RakNet connection; `asked` holds searches whose answers are still possible, so an
answer may come after the next way was begun. `testOnly` is chosen initially.

**HostSession.** A guest, whether it is gone (for a short or a long time), and whether it
left or is to be kicked. A step of `HostHandler` is one of `HostSession`, or a stutter:
`guest` is the session's address, `absence` is the timer, `left` the history variable.

**PortForwarding.** `stopImpl` is three steps: letting go of the forwarding thread under
`g_globalLock`, beginning to remove the mapping, and the end of RakNet's thread.
A forwarding thread asks the router and then calls its handler back; it and the threads
that remove mappings take turns under `g_asyncLock`. `late` is history: forwarding was
begun by RakNet's thread after `stopImpl` had let go (section 6).

**FrameCompressor.** A thread in `compress` is at one of its points of
interaction: waiting for `m_lock`, building the keyframe cell by cell, waiting
for the condition variable, reading the keyframe's id after giving the lock back,
subtracting cell by cell, packing. A pixel is the id of the frame it comes from,
which is all that tells pictures apart here. `overlapped` is history: another
thread began a keyframe while this one used the last.

**RemoteVideo.** `net` is the set of frames under way. A frame is received
at any time or never; the client may restart its decoder. The renderer reads the screen in
every frame, and from `marked` which lines of it to show: all, or every second. `shown` and
`refused` are history: the frame that was decoded last, and whether one was refused since.

**RemoteSession, SystemWrapper.** `hState` and `gState` are the two `clientState`s; `hq`
holds what the host's engine has for it, `up` and `down` what is on the wire, `inputs`
the unreliable inputs. One step handles one event, as the frames' loops do.
`inFrame` says that the host is between the check of the connection and the end of
that loop, where a loss or a new guest is not seen. The operators of `SystemWrapper` are
what `LoadGame`, `LoadRemote`, `Shutdown` and `EVENT_UNLOAD` do to `m_loaded`,
`m_loadedFile` and the machine's state; `RemoteSession` adds what they do to the engine
and to `clientState`, which the constructor leaves uninitialised and so has any of its
values initially. The value of the television mode does not matter to any property; the
events that tell it do, since they are counted.

**AudioDriver.** The microphone and the loudspeaker share the driver's object, its
`m_threadSafetyLock` and its `Reset`, but no data: each half has the `Reset` as an action of
its own, and what the other half does with the lock can only delay it. A behaviour follows one half.

**PlayQueue, RemoteSound.** A sample is its number in what the host sent. `Submit` and
`Note` are the two halves of a turn of `Unlock`'s loop: OpenSL may play what it was given
before the driver has moved it to the other list, but its callback waits for
`m_playBufferLock`. A call of `Lock` that finds another mode resets the player. `Mix` is a turn
of `HandleRemoteAudio`'s loop. The machine has 256 KiB reserved for remainders, so inserting
there does not fail; the number and the size of sub-buffers are constants; packets reach
the machine in order.

**Rewinder.** One call of `Execute` plays up to 180 frames when the direction has
changed; each is a step here, `stage` says where in `Execute` or
`ChangeDirection` the thread is and `todo` how many frames its loop still plays. A
state of the machine, and its picture, is a number; `origin` gives the state it was
played from, so a recorded frame played from another state is seen to be wrong. The
refinement maps the picture on the screen and the states that led to it to
`past`, and `rewinding` to `backward`; the frames played out of sight stutter.

**Movie, Tracker.** The byte a game reads in a frame is the number of the state the frame leads
to, which ports it reads depends on the state, and some frames read none: so a
key's length and the positions in the ports' buffers matter. The file is its keys and its
length, which is written only when a recording is stopped; memory may run out while
input is kept, and the program may be killed. `Tracker` has the machine's `Reset`, `LoadState` and
power, which may all come while a movie or the rewinder is active, if the API lets them.
Games are cartridges; the file is one that a recorder wrote; a reset or a loaded state leads
to the state the game boots with.

## 3. Runs

| Run | Module and bounds | What it shows |
|---|---|---|
| `audio` | microphone: ring of 3, reads of at most 2, 6 samples per ring; loudspeaker: 3 sub-buffers of 2 samples, 7 samples in packets of up to 5, one fault | microphone: `NoOverlap`, `Accounting`, `FifoUnlessDrained`, `ThreadHasRecorder`, `CapturingIsServed`, and that a join returns (`StopReturns`); loudspeaker: what is heard is what was sent, in order and without gaps, and the sub-buffers never run out |
| `audio_input_fifo` | the microphone alone, 6 samples | `Fifo` is violated: see section 6 |
| `host` | 2 guests, 1 reconnection attempt, budget 4 | it implements `HostSession` (`SessionSpec`); a gone guest is timed and dropped, only guests that left are not awaited, no takeover, reachability, invitations |
| `host_invite` | 1 guest, budget 4 | `InvitationIsMade` is violated |
| `guest` | 2 attempts, LAN address and relay, tests included, budget 6 | one way at a time, a session keeps its path, a gone host is noticed, sessions settle, tests let go |
| `guest_forced` | budget 4 | `ForcedCloseIsFinal` is violated |
| `handler_threads` | 3 queries, budget 3; 3 handlers | queries before or after the announcement arrive; no stopped handler is called back, and no mapping survives its handler |
| `video` | 2 threads, groups of 2, 2 pixels, 4 frames | a delta frame is of its keyframe, no lost wake-up, every `compress` returns, what the client's renderer shows is one picture (`PictureIsTrue`) |
| `video_mark` | same | `MarkIsOfTheFrame` is violated |
| `compressor_lock` | 1 pixel, 4 frames | `KeyframeIsLocked` is violated |
| `session` | 2 guests, 2 games, 2 loads, 2 changes of role, 2 inputs | handshake complete on both sides, inputs heard, voice started, wrapper and machine agree |
| `tracker` | 4 keys of 3 frames, 16 states; movies of 5 frames with buffers of 2 bytes, one fault; 8 states once something was recorded | replay is exact, a movie is played as it was recorded, what is seen implements `Timeline`, what locks the machine ends by itself |

Each property of a passing run is accompanied in `PROJECT.json` by a mutant of
the code that breaks it, found by TLC under the same bounds.

*Why the bounds are enough.* The ring's size 3 with regions of up to 2 gives wrap
around, split regions, full and empty rings; 6 samples go round it
twice. The host's budget counts connections, requests, faults and user requests;
losses, expiring timers and progress are free. With 4, one guest can be admitted
and another connect and ask, or a session, a NAT fault and an invitation
coincide. The guest's budget 6 allows every way to fail, a session, and more
losses than attempts. Groups of 2 make each second frame a keyframe, so 4 frames
hold two groups and two threads can be in different groups; 2 pixels suffice for
mixtures. Two guests are a replacement; two loads are a failed one and another game;
two changes of role are disabling and enabling, or playing elsewhere and hosting again. Four keys are the least with which the key being recorded, the one
before, the oldest and another differ; with three frames a key has a first, an
inner and a last one; 16 states fill the ring and wrap it, and a replay may
be followed by new input and another replay. With 5 frames and buffers of 2 bytes a movie has
keys that end because a buffer is full, because of a reset and because of the end. Three
sub-buffers are one that is played, one that waits and one that is written; packets of
up to 5 samples are less than a sub-buffer, several, and not a multiple. Three handlers
are two predecessors whose threads are still about. (In the code both numbers are 60;
`Rewinder::Reset` counts the keys with `NUM_FRAMES`.) The safety properties of host, audio and video are proved
for every value of these constants (section 5).

*Deadlock* is checked in `audio` and `video`. It is not
in the netplay runs, since a handler whose budget is spent and whose queue is empty
may stay as it is, a host may be `"stuck"` (a real stop, reported by
`host_invite`), and handlers may all be gone; nor in the session run, where users and
guests may stop doing anything; nor in `tracker`, which stops when its states are spent.

*Bounds inside the specifications*: `MaxRecorded`, `MaxSamples`, `Budget`, `MaxId`, `MaxGuests`,
`MaxLoads`, `MaxToggles`, `MaxInputs`, `MaxHandlers`, `MaxFaults`, `MaxPacket`,
`MaxStates`, `MaxTaped`, `MaxFrames`, `MaxAfterMovie`. They cap only what the
environment starts. (`Start` leaves room under `MaxStates` for what turning around
plays.)
`MaxId` has one further effect: with finitely many frames, a thread cannot be kept
from `m_lock` for ever by newer frames, so `CompressReturns` says nothing about an
unfair mutex.

### Fairness

* `AudioDriver`, microphone: weak fairness of the recorder's steps and of the stopping
  thread's. The operating system runs runnable threads and `AudioRecord.read`
  returns. Nobody has to press a button or pop a sample.
* `HostHandler`: weak fairness of the poll, the port-forwarding thread, the
  clock, the NAT connection's progress, and closing connections. RakNet runs its
  thread periodically and its connections time out. Guests, faults and users owe
  nothing.
* `GuestHandler`: weak fairness of the poll, and of each attempt's end: RakNet
  reports success or failure of every attempt. Servers need not answer.
* `FrameCompressor`: weak fairness of each thread and of each wait's time-out
  (`wait_for` with 5 seconds).
* `RemoteSession`: weak fairness of the host's frames, of event delivery while the
  connection lives, and of the guest's frames. Reliable channels deliver.
* `HandlerThreads`: weak fairness of each handler's threads: they are runnable, and
  routers answer. Nobody has to stop a handler.
* `Tracker`: weak fairness of `Execute`, which the emulation thread calls for each
  frame. Nobody has to press a button.
* `AudioDriver`, loudspeaker: weak fairness of OpenSL's player and callback and of the emulation
  thread's frames. No packet has to come.

## 4. What the properties mean for a reader of the code

* `NoOverlap`, `Accounting`: the comment "we don't really need to lock the buffer
  while writing into it" is right about memory and about counting.
* `FifoUnlessDrained`: it is right about order except in one case, named exactly.
* `CapturingIsServed`: whatever the order of permission dialogs, settings and
  switches, capture that is on is served by a live thread.
* `GoneGuestIsTimed`: no zombie session, although packets of several guests and
  of old connections of the same guest are handled late.
* `HostIsReachable`: every path of failures of the NAT server and of port
  forwarding ends in a host that is known, on its way, or has reported an error.
* `InvitationOrBlocked` is the strongest form of "a new invitation is made" that
  holds: the exception is the self-deadlock of section 6.
* `OneWayAtATime`: late answers never give the guest a second connection.
* `DeltaIsOfItsKeyframe`, `PictureIsTrue`: a group check on both sides makes loss and
  reordering harmless but for two sources of false pictures, which `PictureIsTrue` names:
  the host's race (`compressor_lock`), and the mark of a downsampled picture that a
  refused frame took away (`video_mark`).
* `InfoIsComplete`, `HostKnowsGuest`, `VoiceStarts`: counting is enough, when the host noticed
  the guest (if not, section 6), whatever `clientState` was before and whatever else the machine was between.
* `RunsWhatItSays`: the wrapper never runs frames of a machine that is off, and never names
  a game that its machine does not play.
* `SessionSpec`: whatever order packets, losses, timers and invitations come in, the game
  above the handler sees one guest at a time, who keeps its session.
* `NoCallbackAfterStop`, `MappingIsRemoved`: detaching the forwarding thread is enough, but
  for one case that they name (`late`, section 6).
* `AskedInTimeIsReceived`: no query is lost before or after the announcement; one made between
  the two stays in the buffer (section 6).
* `QueuesAgree`, `RoomIsThere`: the driver takes it that OpenSL's queue and its own list
  agree, and that `Unlock` finds the room `Lock` saw; both hold in spite of callbacks and resets.
* `HeardIsTrue`, `SoundIsHeard`: remainders that change buffers neither swap, repeat nor lose
  samples.
* `PlaybackIsExact`: for every movie whose recording was stopped, also if it is appended to.
* `ReplayIsExact`: a second is replayed from its own state with its own input, and
  ends where the next begins, also after the game went on in another way.
* `WatchedSpec`: although one second is played forward while the second after
  it is shown in reverse from the same buffer, nothing is skipped or repeated at the
  border of keys, when the ring has wrapped, or when the direction changes. When
  the keys run out, the picture shown last is played anew, with new input.

## 5. Proofs

Proved for all values of the constants (subject only to the named assumptions:
a positive ring, natural bounds, addresses that differ, positive group length and
pixels):

* **AudioInputProofs**: first the ring buffer's lemmas (which cells readable and writable
  regions cover, that they are disjoint, that `EndWrite` and `EndRead` keep the shape and
  change `Size` by what was moved); then `InputTypeOK`, `NoOverlap`, `Accounting`, `FifoUnlessDrained`,
  `ThreadHasRecorder`, `CapturingIsServed`, and that a sleeping recorder has a full ring to
  wait for or a notification coming (`NoLostWakeup`). `NoOverlap` is not inductive: readers move
  both indices between `BeginWrite` and `EndWrite`. The inductive `RingInv` adds that
  indices and full flag are consistent, that the pending region fits into the free
  cells and starts at the write index unless nothing is readable (`PendingOK`: the
  ring may have been emptied during the copy), and that regions never ask for more
  samples than remain (`RemainOK`). `ControlInv` lists, for each stage of the
  thread that stops the recorder, which flags and recorder states are possible.
  `FifoInv` adds which number each readable or pending cell holds.
* **HostHandlerProofs**: `TypeOK`, `SessionShape`, `LostGuestIsAwaited`,
  `NoTakeover`, `HostIsReachable`, `GoneGuestIsTimed`, and `SessionSpec`, the refinement of
  `HostSession`, for any number of guests. Its step lemma goes through the disjuncts of
  `Next` and names the abstract step of each; it needs `SessionShape` for the steps
  that end a session, and `TypeOK`.
  `HostIsReachable` speaks of states with an empty queue; its induction needs
  `ReachInv`, which says of every state that a NAT connection that is up is known or
  its announcement waits in the queue, and that one that is down is so for a reason
  the host has answered or has still in its queue. `TimedInv` strengthens
  `GoneGuestIsTimed` to the order of the queue (`EndsFollow`): behind every packet
  of a guest whose connection is down there is the packet that ends it.
* **GuestHandlerProofs**: `TypeOK`, `OneWayAtATime`, `GoneHostIsNoticed`, and the action
  property `SessionKeepsPath`. `GuestInv` strengthens them. `TurnInv`: looking for the
  host is one turn, which is at any time in one place only (a search that may be
  answered, a path that is not down, or a packet in the queue that says how either ended).
  `Followed`: behind every packet of a path that is down its end is queued.
  `SessionHeld`: while in session, the path is not down or its end is queued. `NatInv`
  is the NAT server's half: it is connected, nothing was begun yet, or it is over.
* **RemoteVideoProofs**: the compressor's `TypeOK`, `DeltaIsOfItsKeyframe` and `NoLostWakeup`
  from `Inv == TypeOK /\ LockInv /\ KeyInv /\ DeltaInv /\ WaitInv`: who holds the
  lock in which stage; what the last keyframe's cells are while nobody builds;
  what a thread that subtracts has read so far; that a sleeping thread has not been
  overlapped and is not ready. Then `VideoTypeOK` and `PictureIsTrue` of the composition,
  from `VideoInv`: the compressor's `Inv`, `TakenInv` (ids in use were given out),
  `FullInv` (what is made a delta frame is of full resolution, also when a frame begins anew
  because it was too large), `NetInv` (a frame under way is what a thread may return),
  `ClientKeyInv` (the client's keyframe is the one it names), `DecodedInv` (the lines written
  of the frame decoded last are its own) and `MarkInv` (the mark is exactly that of this frame,
  or was taken away by a refused one). Only the last two together say what the
  renderer shows.
* **HandlerThreadsProofs**: `NoCallbackAfterStop` for any number of handlers, with
  `RefIsCurrent`: a forwarding thread that knows its handler is the one the handler
  knows, so the one that `stopImpl` lets go of is the only one there is.
  `AskedInTimeIsReceived` for any number of queries, with `CheckerInv`: while no fault has
  happened the connection takes one course, which announces it once, and every query is in the
  buffer or was received, those made early both once the connection is announced.
* **RemoteSessionProofs**: `RunsWhatItSays` (from the wrapper's variables alone),
  `TypeOK`, `InfoIsComplete`, `HostKnowsGuest` and `InputsAreHeard`, for any number of guests, games and
  loads. The two machines count events and do not check them, so the induction has to say
  which events there can be. `SessionInv` does: each request and
  each answer is in one queue at most, once, and not where it was handled already
  (`Requests`, `Answers`); a mode told again comes behind the answers (`Spares`); what each
  machine counted is how many kinds it has got (`GuestCount`, `HostCount`), once the host has begun
  with this guest; a guest that did not ask has nothing but such modes (`Ungreeted`);
  nothing is left of a guest that is gone (`Roles`, `Phases`); and whose name and inputs the host
  holds (`NameIsGuests`, `Inputs`).
* **RemoteSoundProofs**: `TypeOK`, `RoomIsThere`, `QueuesAgree` and `HeardIsTrue`, for any
  number and size of sub-buffers, of samples and of faults. `QueueInv` is about the driver:
  its two lists are a permutation of the sub-buffers (`ListInv`); what OpenSL holds is the
  newest part of the driver's line, and callbacks are due for exactly the rest (`LineInv`);
  a sub-buffer holds at least what OpenSL was told (`StoredInv`). `SoundInv` adds the
  samples: one of the two buffers of remainders is empty (`TurnsInv`); what is heard comes before
  what OpenSL has, that before the rest of the frame's output, that before the remainders,
  those before what was not delivered, each part rising (`OrderInv`, `RiseInv`); and every sample
  that was delivered is in one of those places or was dropped (`CoverInv`). "In order", "once"
  and "without gaps" follow together from the three.

* **TrackerProofs**: `TypeOK`, `ReplayIsExact`, `PlaybackIsExact` and `WatchedSpec`, for a ring of any number of
  keys from three, of any length, buffers of any size and games of any length. `TrackerInv` has
  three parts beside `TypeOK`. `GameInv`: a state was played from an older one. `RewindInv`:
  every key but the present one that can be rewound to is whole, its input leads from its state
  by states each played from the one before, to that of the next key (`RestInv`); and for each
  stage of turning around, how far the present key was replayed, which picture is in which slot of
  the buffer, which pictures are still to be shown, and what the one on the screen is (`ForwardInv`
  to `ResumeInv`). Without the pictures nothing says that the machine comes to the picture that is
  shown when the direction changes again. `MovieInv`: there is a run of the player through the
  file's keys that leads through the recorded states and ends with the file (`TapeInv`); the same
  of what is being recorded, its open key included (`RecInv`); the player is in that run, as far
  as it has played (`PlayInv`). `ReplayIsExact` needs the rewinder's part only; the two parts
  meet in `taped`, below which no state is ever forgotten (`Grows`).
  `WatchedSpec`, the refinement of `Timeline`, rests on `TrackerInv`: its map `PastOf` is a recursive
  function, so first that there is a function that satisfies its equation, and that states played
  later do not change its values (`PastIs`, `PastLasts`, both from a least counterexample:
  a state is played from an older one). Then each step: `BackInv` says that the next picture of the
  buffer is the state the one on the screen was played from, `BackAgainInv` that just after
  turning it is the one on the screen; `ForwardInv` that the machine is at the picture on
  the screen whenever it goes on (`ForwardSeen`, `BackSeen`, `RunOutSeen`, `TurningSeen`).

Only model-checked: all liveness properties, which need fairness and are beyond the prover.
The type invariants of `AudioInput`, `GuestHandler`, `RemoteSession`,
`RemoteSound` and `Tracker`, which are proved, are in no run: they are in the modules for the proofs.

## 6. Deviations met while modelling

With a run (see the findings in `PROJECT.json` for the lines quoted):

* **Order of voice samples** (`audio_input_fifo`): `ReadInput` empties the ring while
  the recorder copies; `EndRead` resets both indices, and `EndWrite` publishes
  cells from 0 instead of those written.
* **Self-deadlock of the host** (`host_invite`): `additionalUpdateProc` restarts
  with `m_sendingLock` held; if the NAT server is connected then, `onConnected`
  locks it again.
* **Forced close** (`guest_forced`): the guest begins to reconnect before it
  notes that it must not.
* **Keyframe race** (`compressor_lock`): delta threads give `m_lock` back before
  they read the keyframe.
* **Mark of a refused frame** (`video_mark`): a delta frame that the client refuses
  (`Zlib.cpp` 717) has already changed the mark for downsampled pictures (677, 688); every frame
  is blitted (604), so every line of a downsampled picture is shown, half of them of an older one.

Without a run; they follow from the modelled definitions and are noted here for
a reader of the code:

* a GUID query made between `onNatServerConnected(true)` and `m_natServerConnected = true`
  (`RakNet.cpp` 809-811) stays buffered until the next reconnection; `AskedInTimeIsReceived` is about
  all other queries, and says of this one that it is in the buffer;
* RakNet's thread may begin to forward the port after `stopImpl` has let go of the forwarding
  thread (`RakNet.cpp` 387-401 before the `Shutdown`): then the new thread calls a stopped
  handler back, and its mapping may stay (`late` in `PortForwarding`, which `NoCallbackAfterStop`
  and `MappingIsRemoved` except);
* a guest that takes the place of another before the host looks at its connection is never told
  to start sending its voice (`NstMachine.cpp` 1043), since `clientState` is still the one's before:
  so the properties about a guest ask that the host noticed it;
* the invitation key is replaced under a running session when the host has
  reconnected to the NAT server (`RakNet.cpp` 1247), although
  `ConnectionHandlerRakNet.hpp` 225 says a key belongs to a session;
* a guest that has its answer to `REMOTE_MODE` when a game of the other mode is
  loaded, but whose audio info has not come, is not told of the mode, then or later
  (`NstMachine.cpp` 1486-1487, which notes "race condition" itself);
* appending to a movie whose recording was never stopped (memory ran out, the program was
  killed) loses the file: its length is 0, and the new keys are written after a chunk that is not
  the file's (`NstState.cpp` 78-83, where `NstApiMovie.hpp` says "Keep any previous content");
  `inside` in `Movie`;
* `LoadGame` of an archive without a game clears `m_loaded` but keeps `m_loadedFile`
  (`NesSystemWrapper.cpp` 387): loading the former game again returns "already loaded"
  (341) while no frame is executed; and if the machine was a guest, it stays connected, since
  `Shutdown` believes that nothing is shown;
* `clientState` (`NstMachine.hpp` 210) is not initialised: a first guest that comes before the
  host's first frame may be taken for one that was greeted already;
* `VerifyGame` unsets the static event callback of all machines while it tries a file
  (`NesSystemWrapper.cpp` 318-327): an `EVENT_UNLOAD` of the running machine, in another thread,
  is lost meanwhile;
* what is less than the room of a frame's output is kept back until another packet comes
  (`KeptBack` in `RemoteSound`), and a player that could not register its callback is silent for
  good (`"deaf"` in `PlayQueue`);
* a failed attempt to record or play a movie forgets the rewinder's keys, and powering off
  while rewinding leaves the machine locked until it is on again (`Tracker`);
* `m_reliableBuffer` is reset when a handler starts (`RakNet.cpp` 350), not when a connection is
  lost: what was written before and not flushed is sent over the next connection (713-760).

## 7. Assumptions about code outside the repository

RakNet: packets of one connection keep their order; `Connect` to an address that
has a connection does nothing; `CloseConnection` is reported later; each attempt
ends with one packet; replies on a lost connection are lost. HQRemote: reliable
events arrive in order; `HOST_INFO` is answered by the engine; the events of a lost
guest are forgotten; frames and inputs may be lost or reordered.

## 8. Not modelled

* The connection handler's payload buffers and multicast sockets, and what is sent over
  a lost connection (the code itself notes that it is not sent again).
* Frames' half-byte codec and colour tables; the H.264 alternative.
* Bandwidth detection, text messages and capturing of sound in `NstMachine.cpp`; the host's
  mixing of the guest's voice uses the same `HandleRemoteAudio` as `RemoteSound`, with
  another way to copy.
* Failures of memory allocation in the audio driver (if the recorder's buffers cannot be made,
  `m_jAudioRecord` stays set and the next enable starts a thread without them) and the rewinder;
  the rewinder's reverse sound; what a movie does with a corrupt file.
* OpenAL output: it needs OpenAL's source, whose queue and counters are outside the
  repository. Reading shows that `Unlock` drops what does not fill a buffer, and that `Release`
  unqueues pending buffers without stopping the source.
* `VerifyGame`, speed, cheats, saved states and input of the wrapper.
* The emulation core: sequential arithmetic on data that a model checker cannot
  enumerate. It is most of the repository's lines, with video filters, boards and platform
  code. User interfaces; Kaillera; iOS and WinRT drivers.

## 9. Plan

What is left:

* Outgoing payload buffers of the connection handler; bandwidth detection in `RemoteSession`.
