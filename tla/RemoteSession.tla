---------------------------- MODULE RemoteSession ----------------------------
(***************************************************************************)
(* The netplay session of two Machines (source/core/NstMachine.cpp): the   *)
(* host's emulator, which a guest plays on, and the guest's, which only    *)
(* shows what the host sends.                                              *)
(*                                                                         *)
(* Both machines count the handshake's events in clientState, and start to *)
(* exchange data when they have counted enough of them.  They handle       *)
(* events in their frames only, so the host learns late, or not at all,    *)
(* that its guest was lost; it handles none while its wrapper has nothing  *)
(* loaded.  The host's user may leave the session to be a guest elsewhere: *)
(* both roles share clientState.                                           *)
(*                                                                         *)
(* The remote engine is outside the repository: it carries events in order *)
(* from one machine to the other (inputs in any order, and maybe never),   *)
(* answers HOST_INFO itself, and forgets the events of a lost guest.       *)
(* Bandwidth detection, the frames' own settings and the value of the      *)
(* television mode are left out; the events that tell it are counted.      *)
(***************************************************************************)
EXTENDS SystemWrapper, Integers, Sequences

CONSTANTS
    MaxGuests,  \* bound: connections of a guest
    MaxLoads,   \* bound: games that the host's user loads or tries to
    MaxToggles, \* bound: changes of the host's role: guest, host or neither
    MaxInputs   \* bound: inputs sent by a guest

ASSUME SessionAssumption ==
    /\ MaxGuests \in Nat /\ MaxLoads \in Nat
    /\ MaxToggles \in Nat /\ MaxInputs \in Nat

VARIABLES
    hosting,  \* hostEngine # null
    hState,   \* the host's clientState
    info,     \* clientInfo: the guest of that name, or 0
    lastId,   \* lastReceivedRemoteInputId
    buttons,  \* remoteInput: the guest who pressed them, or 0
    inFrame,  \* the host is in HandleRemoteEventsAsServer
    hq,       \* the events it may get from hostEngine
    guest,    \* the guest that is connected, or 0
    guests,   \* the guests so far
    gState,   \* the guest's clientState
    sentId,   \* its lastSentInputId
    up,       \* events on their way to the host
    down,     \* events on their way to the guest
    inputs,   \* inputs on their way, by id
    got,      \* history: kinds of events the guest has counted
    heard,    \* history: kinds of events the host has counted from this guest
    told,     \* history: the guest was told to send its voice
    noticed,  \* history: the host began the session with this guest
    loads, toggles

hostVars   == <<wrapperVars, hosting, hState, info, lastId, buttons, inFrame, heard>>
guestVars  == <<gState, sentId, got, told>>
wireVars   == <<hq, up, down, inputs>>
boundVars  == <<loads, toggles>>
sessionVars == <<hostVars, guestVars, wireVars, guest, guests, noticed, boundVars>>

\* CLIENT_CONNECTED_STATE, and CLIENT_EXCHANGE_DATA_STATE for the integer that
\* is greater than all others.
Connected    == 1
ExchangeData == 100

Event(type)  == [type |-> type, id |-> 0]
Input(i)     == [type |-> "input", id |-> i]

Counted(n) == IF n < ExchangeData THEN n + 1 ELSE n

\* What hostEngine->sendEvent does: without a guest the event is dropped.
Tell(events) == down' = IF guest = 0 THEN down ELSE down \o events

-----------------------------------------------------------------------------
\* The host: one frame at a time, in HandleRemoteEventsAsServer.

NoticeGuest ==
    /\ hState = 0 /\ guest # 0
    /\ hState' = Connected
    /\ inFrame' = TRUE
    /\ noticed' = TRUE

NoticeLoss ==
    /\ hState # 0 /\ guest = 0
    /\ hState' = 0
    /\ UNCHANGED <<inFrame, noticed>>

Resume ==
    /\ hState # 0 /\ guest # 0 /\ hq # <<>>
    /\ inFrame' = TRUE
    /\ UNCHANGED <<hState, noticed>>

HostPoll ==
    /\ loaded /\ on /\ hosting /\ ~inFrame
    /\ NoticeGuest \/ NoticeLoss \/ Resume
    /\ UNCHANGED <<wrapperVars, hosting, info, lastId, buttons, heard, guest, guests,
                   guestVars, wireVars, boundVars>>

\* Mutant: one event too few is waited for.
HostReadyEarly(n) == n = Connected + 2

\* The end of HandleGenericRemoteEventAsServer: all info was received.
HostReady(n) == n = Connected + 3

\* A handled event that is counted, and the answers to it.
HostCounts(type, answers) ==
    LET n == Counted(hState)
        ready == n < ExchangeData /\ HostReady(n)
    IN /\ hState' = IF ready THEN ExchangeData ELSE n
       /\ heard' = heard \cup {type}
       /\ Tell(answers \o IF ready THEN <<Event("start")>> ELSE <<>>)

HandleName ==
    /\ info' = guest
    /\ HostCounts("name", <<Event("name")>>)
    /\ UNCHANGED <<lastId, buttons>>

HandleMode ==
    /\ HostCounts("mode", <<Event("mode")>>)
    /\ UNCHANGED <<info, lastId, buttons>>

HandleAudio ==
    /\ HostCounts("audio", <<>>)
    /\ UNCHANGED <<info, lastId, buttons>>

\* Cpu::OnRemoteEvent.
HandleInput(i) ==
    /\ IF lastId < i THEN lastId' = i /\ buttons' = guest
                     ELSE UNCHANGED <<lastId, buttons>>
    /\ UNCHANGED <<hState, info, heard, down>>

\* Mutant: the buttons are released, but older inputs are still compared with.
ResetButtonsOnly ==
    /\ buttons' = 0
    /\ UNCHANGED <<lastId, hState, info, heard, down>>

ResetRemoteInput ==
    /\ buttons' = 0 /\ lastId' = 0
    /\ UNCHANGED <<hState, info, heard, down>>

HostEvent ==
    /\ inFrame /\ hq # <<>>
    /\ LET e == Head(hq) IN
          \/ e.type = "name"  /\ HandleName
          \/ e.type = "mode"  /\ HandleMode
          \/ e.type = "audio" /\ HandleAudio
          \/ e.type = "input" /\ HandleInput(e.id)
          \/ e.type = "reset" /\ ResetRemoteInput
    /\ hq' = Tail(hq)
    /\ UNCHANGED <<wrapperVars, hosting, inFrame, guest, guests, noticed, guestVars,
                   up, inputs, boundVars>>

EndFrame ==
    /\ inFrame /\ hq = <<>>
    /\ inFrame' = FALSE
    /\ UNCHANGED <<wrapperVars, hosting, hState, info, lastId, buttons, heard, guest, guests,
                   noticed, guestVars, wireVars, boundVars>>

-----------------------------------------------------------------------------
\* The host's user, between two frames.

\* UpdateModels, called n times, tells a guest that exchanges data, and no other.
UpdateModels(n) ==
    Tell(IF hosting /\ hState = ExchangeData THEN [i \in 1 .. n |-> Event("mode")] ELSE <<>>)

\* StopRemoteControl forgets the state of the machine's own session as a guest.
StopRemoteControl == hState' = IF remote THEN 0 ELSE hState

\* LoadGame of a file that is not the loaded one: it has no game, or a bad one,
\* or the game is started; UpdateModels is called again when SetMode changes the mode.
LoadGame ==
    /\ ~inFrame /\ loads < MaxLoads
    /\ loads' = loads + 1
    /\ \E g \in Games \ {file} :
          \/ Unreadable /\ UNCHANGED <<hState, down>>
          \/ Unload /\ StopRemoteControl /\ UNCHANGED down
          \/ /\ Insert(g) /\ StopRemoteControl
             /\ \E n \in 1 .. 2 : UpdateModels(n)
    /\ UNCHANGED <<hosting, info, lastId, buttons, inFrame, heard, guest, guests,
                   noticed, guestVars, hq, up, inputs, toggles>>

\* What is on its way is lost; the guest's machine unloads and forgets its session.
Disconnected ==
    /\ guest' = 0 /\ gState' = 0 /\ sentId' = 0
    /\ hq' = <<>> /\ up' = <<>> /\ down' = <<>> /\ inputs' = {}
    /\ got' = {} /\ heard' = {} /\ told' = FALSE /\ noticed' = FALSE

\* SetRemoteControllerIdx.
ForgetInput == lastId' = 0 /\ buttons' = 0

ChangeRole ==
    /\ ~inFrame /\ toggles < MaxToggles
    /\ toggles' = toggles + 1
    /\ UNCHANGED <<inFrame, guests, loads>>

\* By the user, or by HandleRemoteEventsAsServer after an error of the connection.
DisableRemoteController ==
    /\ ChangeRole
    /\ hosting /\ hosting' = FALSE
    /\ Disconnected /\ ForgetInput
    /\ UNCHANGED <<wrapperVars, hState, info>>

\* A new engine, but clientState is what it was, unless the machine was a guest.
EnableRemoteController ==
    /\ ChangeRole
    /\ Disconnected /\ ForgetInput /\ StopRemoteControl
    /\ \/ hosting' = TRUE /\ info' = 0
       \/ hosting' = FALSE /\ UNCHANGED info
    /\ remote' = FALSE /\ UNCHANGED <<loaded, file, game, on>>

\* LoadRemote: the user plays on another host, if the connection can be started.
LoadRemote ==
    /\ ChangeRole
    /\ hosting' = FALSE /\ Disconnected /\ ForgetInput
    /\ \/ ShowRemote /\ hState' = 0
       \/ Unload /\ StopRemoteControl
    /\ UNCHANGED info

\* Shutdown, which leaves a game of this machine alone.
Shutdown ==
    /\ ChangeRole
    /\ RemoteControlling /\ PowerOffRemote /\ StopRemoteControl
    /\ UNCHANGED <<hosting, info, lastId, buttons, guest, guestVars, wireVars, heard, noticed>>

\* HandleRemoteEventsAsClient, when the other host is gone.
LoseRemote ==
    /\ ~inFrame /\ RemoteControlling
    /\ Unload /\ StopRemoteControl
    /\ UNCHANGED <<hosting, info, lastId, buttons, inFrame, heard, guest, guests,
                   noticed, guestVars, wireVars, boundVars>>

-----------------------------------------------------------------------------
\* The remote engines.

\* LoadRemote in a guest, and the connection made.
Join ==
    /\ hosting /\ guest = 0 /\ guests < MaxGuests
    /\ guest' = guests + 1 /\ guests' = guests + 1
    /\ UNCHANGED <<hostVars, guestVars, noticed, wireVars, boundVars>>

\* The connection is closed or lost for good.
Lose ==
    /\ guest # 0
    /\ Disconnected
    /\ UNCHANGED <<wrapperVars, hosting, hState, info, lastId, buttons, inFrame, guests,
                   boundVars>>

Deliver ==
    /\ up # <<>>
    /\ up' = Tail(up)
    /\ IF Head(up).type = "hostInfo"
          THEN Tell(<<Event("hostInfo"), Event("audio")>>) /\ UNCHANGED hq
          ELSE hq' = Append(hq, Head(up)) /\ UNCHANGED down
    /\ UNCHANGED <<hostVars, guestVars, inputs, guest, guests, noticed, boundVars>>

DeliverInput ==
    /\ \E i \in inputs : inputs' = inputs \ {i} /\ hq' = Append(hq, Input(i))
    /\ UNCHANGED <<hostVars, guestVars, up, down, guest, guests, noticed, boundVars>>

-----------------------------------------------------------------------------
\* The guest: HandleRemoteEventsAsClient.

Greet ==
    /\ guest # 0 /\ gState = 0
    /\ gState' = Connected
    /\ up' = up \o <<Event("name"), Event("reset"), Event("hostInfo"), Event("mode")>>
    /\ UNCHANGED <<hostVars, sentId, got, told, hq, down, inputs, guest, guests,
                   noticed, boundVars>>

\* Mutant: one event too few is waited for.
GuestReadyEarly(n) == n >= Connected + 3

GuestReady(n) == n >= Connected + 4

GuestCounts(type) ==
    LET n == Counted(gState)
    IN /\ gState' = IF GuestReady(n) THEN ExchangeData ELSE n
       /\ got' = got \cup {type}

\* Mutant: the guest does not tell what its own audio is like.
AnswerNoAudio(e) == UNCHANGED up

AnswerAudio(e) == up' = IF e.type = "audio" THEN Append(up, Event("audio")) ELSE up

GuestEvent ==
    /\ guest # 0 /\ gState # 0 /\ down # <<>>
    /\ down' = Tail(down)
    /\ LET e == Head(down) IN
          /\ told' = (told \/ e.type = "start")
          /\ IF e.type = "start" THEN UNCHANGED <<gState, got>> ELSE GuestCounts(e.type)
          /\ AnswerAudio(e)
    /\ UNCHANGED <<hostVars, sentId, hq, inputs, guest, guests, noticed, boundVars>>

\* Machine::Execute, when buttons changed or the routine interval is over.
SendInput ==
    /\ guest # 0 /\ gState = ExchangeData /\ sentId < MaxInputs
    /\ sentId' = sentId + 1
    /\ inputs' = inputs \cup {sentId + 1}
    /\ UNCHANGED <<hostVars, gState, got, told, hq, up, down, guest, guests,
                   noticed, boundVars>>

-----------------------------------------------------------------------------

Init ==
    /\ WrapperInit /\ hosting = TRUE
    /\ hState \in {0, Connected, ExchangeData}  \* Machine's constructor does not set it
    /\ info = 0 /\ lastId = 0 /\ buttons = 0 /\ inFrame = FALSE
    /\ hq = <<>> /\ up = <<>> /\ down = <<>> /\ inputs = {}
    /\ guest = 0 /\ guests = 0 /\ noticed = FALSE
    /\ gState = 0 /\ sentId = 0 /\ got = {} /\ heard = {} /\ told = FALSE
    /\ loads = 0 /\ toggles = 0

Host == HostPoll \/ HostEvent \/ EndFrame
User == LoadGame \/ DisableRemoteController \/ EnableRemoteController \/ LoadRemote
        \/ Shutdown \/ LoseRemote
Wire == Join \/ Lose \/ Deliver \/ DeliverInput
Player == Greet \/ GuestEvent \/ SendInput

Next == Host \/ User \/ Wire \/ Player

Spec == Init /\ [][Next]_sessionVars

\* Frames are executed as long as something is loaded, events of a living connection
\* arrive.  Nothing is assumed of users, inputs, or the connection's life.
FairSpec ==
    /\ Spec
    /\ WF_sessionVars(Host) /\ WF_sessionVars(Deliver)
    /\ WF_sessionVars(Greet) /\ WF_sessionVars(GuestEvent)

-----------------------------------------------------------------------------
(***************************************************************************)
(* Properties.                                                             *)
(***************************************************************************)

States   == 0 .. Connected + 4 \cup {ExchangeData}
Asked    == {"name", "hostInfo", "audio", "mode"}
Required == {"name", "mode", "audio"}

TypeOK ==
    /\ WrapperTypeOK /\ hosting \in BOOLEAN
    /\ hState \in States /\ gState \in States
    /\ info \in 0 .. MaxGuests /\ buttons \in 0 .. MaxGuests
    /\ lastId \in 0 .. MaxInputs /\ sentId \in 0 .. MaxInputs
    /\ inFrame \in BOOLEAN /\ noticed \in BOOLEAN /\ told \in BOOLEAN
    /\ hq \in Seq([type : {"name", "mode", "audio", "input", "reset"}, id : 0 .. MaxInputs])
    /\ up \in Seq([type : {"name", "mode", "audio", "reset", "hostInfo"}, id : {0}])
    /\ down \in Seq([type : Asked \cup {"start"}, id : {0}])
    /\ inputs \in SUBSET (1 .. MaxInputs)
    /\ guest \in 0 .. MaxGuests /\ guests \in 0 .. MaxGuests
    /\ got \in SUBSET Asked /\ heard \in SUBSET Required
    /\ loads \in 0 .. MaxLoads /\ toggles \in 0 .. MaxToggles

\* "We have all info needed from host": a guest that exchanges data, in a session
\* that the host began with it, has counted four events of the four kinds it
\* asked for, not the same kind several times.
InfoIsComplete == noticed /\ gState = ExchangeData => got = Asked

\* "We have all required info from client": a host that exchanges data with a
\* guest it noticed has counted the three kinds of events it needs from this
\* guest, and knows its name, not the one's before.
HostKnowsGuest ==
    noticed /\ hState = ExchangeData /\ guest # 0 => heard = Required /\ info = guest

\* A guest that sends inputs is heard: they are not compared with the ids of a
\* guest before it, and nobody else's buttons are held.
InputsAreHeard ==
    noticed /\ guest # 0 /\ gState = ExchangeData =>
        lastId <= sentId /\ buttons \in {0, guest}

\* A guest whose connection lasts is told to send its voice, if the host noticed
\* it, keeps its game loaded and its remote control.
VoiceStarts ==
    \A g \in 1 .. MaxGuests :
        guest = g /\ noticed ~> told \/ guest # g \/ ~loaded
=============================================================================
