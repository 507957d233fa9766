------------------------- MODULE RemoteSessionProofs -------------------------
(***************************************************************************)
(* Proofs about RemoteSession for every set of games and any number of     *)
(* guests, loads, changes of role and inputs.                              *)
(***************************************************************************)
EXTENDS RemoteSession, TLAPS, SequenceTheorems

-----------------------------------------------------------------------------
\* The wrapper and its machine.

LEMMA WrapperStep ==
    ASSUME RunsWhatItSays, WrapperTypeOK,
           \/ UNCHANGED wrapperVars \/ Unload \/ Unreadable \/ ShowRemote \/ PowerOffRemote
           \/ \E g \in Games : Insert(g)
           \/ remote' = FALSE /\ UNCHANGED <<loaded, file, game, on>>
    PROVE  RunsWhatItSays' /\ WrapperTypeOK'
<1>1. CASE UNCHANGED wrapperVars
  BY <1>1 DEF RunsWhatItSays, WrapperTypeOK, wrapperVars
<1>2. CASE Unload
  BY <1>2 DEF RunsWhatItSays, WrapperTypeOK, Unload, Nothing
<1>3. CASE Unreadable
  BY <1>3 DEF RunsWhatItSays, WrapperTypeOK, Unreadable
<1>4. CASE ShowRemote
  BY <1>4 DEF RunsWhatItSays, WrapperTypeOK, ShowRemote
<1>5. CASE PowerOffRemote
  BY <1>5 DEF RunsWhatItSays, WrapperTypeOK, PowerOffRemote
<1>6. CASE \E g \in Games : Insert(g)
  BY <1>6 DEF RunsWhatItSays, WrapperTypeOK, Insert
<1>7. CASE remote' = FALSE /\ UNCHANGED <<loaded, file, game, on>>
  BY <1>7 DEF RunsWhatItSays, WrapperTypeOK
<1> QED
  BY <1>1, <1>2, <1>3, <1>4, <1>5, <1>6, <1>7

LEMMA WrapperOfNext ==
    ASSUME [Next]_sessionVars
    PROVE  \/ UNCHANGED wrapperVars \/ Unload \/ Unreadable \/ ShowRemote \/ PowerOffRemote
           \/ \E g \in Games : Insert(g)
           \/ remote' = FALSE /\ UNCHANGED <<loaded, file, game, on>>
<1>1. CASE Host \/ Wire \/ Player \/ UNCHANGED sessionVars
  BY <1>1 DEF Host, HostPoll, HostEvent, EndFrame, Wire, Join, Lose, Deliver, DeliverInput,
              Player, Greet, GuestEvent, SendInput, sessionVars, hostVars
<1>2. CASE User
  BY <1>2 DEF User, LoadGame, DisableRemoteController, EnableRemoteController, LoadRemote,
              Shutdown, LoseRemote
<1> QED
  BY <1>1, <1>2 DEF Next

\* A wrapper that is loaded runs what it says, whichever role the machine has
\* had, whatever could not be loaded and however its sessions ended.
THEOREM WrapperRunsWhatItSays == Spec => []RunsWhatItSays
<1> DEFINE Inv == RunsWhatItSays /\ WrapperTypeOK
<1>1. Init => Inv
  <2>1. ASSUME Init PROVE WrapperTypeOK
    <3>1. on \in BOOLEAN
      BY <2>1 DEF Init, WrapperInit
    <3> QED
      BY <2>1, <3>1 DEF Init, WrapperInit, WrapperTypeOK
  <2>2. ASSUME Init PROVE RunsWhatItSays
    BY <2>2 DEF Init, WrapperInit, RunsWhatItSays
  <2> QED
    BY <2>1, <2>2
<1>2. Inv /\ [Next]_sessionVars => Inv'
  BY WrapperOfNext, WrapperStep
<1> QED
  BY <1>1, <1>2, PTL DEF Spec

-----------------------------------------------------------------------------
\* Types.

HostEvents  == [type : {"name", "mode", "audio", "input", "reset"}, id : 0 .. MaxInputs]
UpEvents    == [type : {"name", "mode", "audio", "reset", "hostInfo"}, id : {0}]
DownEvents  == [type : Asked \cup {"start"}, id : {0}]


HostTypeOK ==
    /\ hosting \in BOOLEAN /\ inFrame \in BOOLEAN /\ noticed \in BOOLEAN
    /\ hState \in 0 .. 3 \cup {ExchangeData}
    /\ info \in 0 .. MaxGuests /\ buttons \in 0 .. MaxGuests
    /\ lastId \in 0 .. MaxInputs
    /\ heard \in SUBSET Required
GuestTypeOK ==
    /\ guest \in 0 .. MaxGuests /\ guests \in 0 .. MaxGuests
    /\ gState \in 0 .. 4 \cup {ExchangeData}
    /\ sentId \in 0 .. MaxInputs /\ told \in BOOLEAN
    /\ got \in SUBSET Asked
WireTypeOK ==
    /\ hq \in Seq(HostEvents) /\ up \in Seq(UpEvents) /\ down \in Seq(DownEvents)
    /\ inputs \in SUBSET (1 .. MaxInputs)
BoundTypeOK == loads \in 0 .. MaxLoads /\ toggles \in 0 .. MaxToggles

TypeInv == WrapperTypeOK /\ HostTypeOK /\ GuestTypeOK /\ WireTypeOK /\ BoundTypeOK

LEMMA TypeInvMeans == TypeInv => TypeOK
BY DEF TypeInv, HostTypeOK, GuestTypeOK, WireTypeOK, BoundTypeOK, TypeOK, States, Connected,
       ExchangeData, HostEvents, UpEvents, DownEvents

LEMMA EventTypes ==
    /\ \A t \in Asked \cup {"start"} : Event(t) \in DownEvents
    /\ \A t \in {"name", "mode", "audio", "reset", "hostInfo"} : Event(t) \in UpEvents
    /\ \A t \in {"name", "mode", "audio", "reset"} : Event(t) \in HostEvents
    /\ \A i \in 1 .. MaxInputs : Input(i) \in HostEvents
    /\ \A e \in UpEvents : e.type # "hostInfo" => e \in HostEvents
BY SessionAssumption DEF Event, Input, DownEvents, UpEvents, HostEvents, Asked

LEMMA TellType ==
    ASSUME WireTypeOK, NEW s \in Seq(DownEvents), Tell(s)
    PROVE  down' \in Seq(DownEvents)
BY ConcatProperties DEF WireTypeOK, Tell

LEMMA CountsType ==
    ASSUME HostTypeOK, WireTypeOK, NEW type \in Required, NEW answers \in Seq(DownEvents),
           HostCounts(type, answers)
    PROVE  /\ hState' \in 0 .. 3 \cup {ExchangeData}
           /\ heard' \in SUBSET Required
           /\ down' \in Seq(DownEvents)
<1> DEFINE n == Counted(hState)
           ready == n < ExchangeData /\ HostReady(n)
           s == answers \o IF ready THEN <<Event("start")>> ELSE <<>>
<1>1. hState' = IF ready THEN ExchangeData ELSE n
  BY DEF HostCounts
<1>2. n \in 1 .. 4 \cup {ExchangeData} /\ (n = 4 => ready)
  BY DEF HostTypeOK, Counted, HostReady, Connected, ExchangeData
<1>3. s \in Seq(DownEvents)
  BY EventTypes, ConcatProperties, EmptySeq
<1>4. Tell(s)
  BY DEF HostCounts
<1>5. hState' \in 0 .. 3 \cup {ExchangeData}
  <2> HIDE DEF n, ready
  <2> QED
    BY <1>1, <1>2
<1>6. heard' \in SUBSET Required
  BY DEF HostCounts, HostTypeOK
<1>7. down' \in Seq(DownEvents)
  <2> HIDE DEF s
  <2> QED
    BY <1>3, <1>4, TellType
<1> QED
  BY <1>5, <1>6, <1>7

LEMMA HostEventType == TypeInv /\ HostEvent => TypeInv'
<1> SUFFICES ASSUME TypeInv, HostEvent PROVE TypeInv'
  OBVIOUS
<1> DEFINE e == Head(hq)
<1>1. e \in HostEvents /\ hq' \in Seq(HostEvents)
  BY HeadTailProperties DEF TypeInv, WireTypeOK, HostEvent
<1>2. WrapperTypeOK' /\ GuestTypeOK' /\ BoundTypeOK'
  BY DEF TypeInv, HostEvent, wrapperVars, WrapperTypeOK, guestVars, GuestTypeOK, boundVars,
         BoundTypeOK
<1>3. /\ hState' \in 0 .. 3 \cup {ExchangeData}
      /\ heard' \in SUBSET Required
      /\ down' \in Seq(DownEvents)
  <2>1. /\ <<Event("name")>> \in Seq(DownEvents) /\ <<Event("mode")>> \in Seq(DownEvents)
        /\ << >> \in Seq(DownEvents)
    BY EventTypes, EmptySeq DEF Asked
  <2>2. /\ HandleName => HostCounts("name", <<Event("name")>>)
        /\ HandleMode => HostCounts("mode", <<Event("mode")>>)
        /\ HandleAudio => HostCounts("audio", << >>)
        /\ "name" \in Required /\ "mode" \in Required /\ "audio" \in Required
    BY DEF HandleName, HandleMode, HandleAudio, Required
  <2>3. \/ HandleName \/ HandleMode \/ HandleAudio
        \/ UNCHANGED <<hState, heard, down>>
    BY DEF HostEvent, HandleInput, ResetRemoteInput
  <2>4. CASE UNCHANGED <<hState, heard, down>>
    BY <2>4 DEF TypeInv, HostTypeOK, WireTypeOK
  <2>5. CASE HandleName
    BY <2>1, <2>2, <2>5, CountsType DEF TypeInv
  <2>6. CASE HandleMode
    BY <2>1, <2>2, <2>6, CountsType DEF TypeInv
  <2>7. CASE HandleAudio
    BY <2>1, <2>2, <2>7, CountsType DEF TypeInv
  <2> QED
    BY <2>3, <2>4, <2>5, <2>6, <2>7
<1>4. info' \in 0 .. MaxGuests /\ buttons' \in 0 .. MaxGuests /\ lastId' \in 0 .. MaxInputs
  BY <1>1, SessionAssumption, SMTT(30)
    DEF TypeInv, HostTypeOK, GuestTypeOK, HostEvent, HandleName, HandleMode, HandleAudio,
        HandleInput, ResetRemoteInput, HostEvents
<1> QED
  BY <1>1, <1>2, <1>3, <1>4 DEF TypeInv, HostTypeOK, WireTypeOK, HostEvent

LEMMA TypeOfInit == Init => TypeInv
<1> SUFFICES ASSUME Init PROVE TypeInv
  OBVIOUS
<1>1. WrapperTypeOK
  <2>1. on \in BOOLEAN
    BY DEF Init, WrapperInit
  <2> QED
    BY <2>1 DEF Init, WrapperInit, WrapperTypeOK
<1>2. 0 \in 0 .. MaxGuests /\ 0 \in 0 .. MaxInputs /\ {0, 1, ExchangeData} \subseteq 0 .. 3 \cup {ExchangeData}
      /\ 0 \in 0 .. 4 \cup {ExchangeData}
  BY SessionAssumption
<1>4. HostTypeOK
  BY <1>2 DEF Init, HostTypeOK, Connected
<1>5. GuestTypeOK
  BY <1>2 DEF Init, GuestTypeOK
<1>3. WireTypeOK /\ BoundTypeOK
  BY SessionAssumption, EmptySeq DEF Init, WireTypeOK, BoundTypeOK
<1> QED
  BY <1>1, <1>3, <1>4, <1>5 DEF TypeInv

\* The user's operations change the wires only by losing what is on them or by
\* telling the guest of changed modes.
LEMMA ModesType ==
    ASSUME NEW n \in Nat
    PROVE  [i \in 1 .. n |-> Event("mode")] \in Seq(DownEvents)
BY EventTypes, SeqDef DEF Asked

LEMMA UpdateType ==
    ASSUME WireTypeOK, NEW n \in Nat, UpdateModels(n)
    PROVE  down' \in Seq(DownEvents)
BY ModesType, EmptySeq, TellType DEF UpdateModels

LEMMA UserType == TypeInv /\ User => TypeInv'
<1> SUFFICES ASSUME TypeInv, User PROVE TypeInv'
  OBVIOUS
<1>1. WrapperTypeOK'
  <2>1. Next
    BY DEF Next
  <2>2. CASE UNCHANGED wrapperVars
    BY <2>2 DEF TypeInv, WrapperTypeOK, wrapperVars
  <2>3. CASE Unload \/ Unreadable \/ ShowRemote \/ PowerOffRemote
    BY <2>3 DEF TypeInv, WrapperTypeOK, Unload, Nothing, Unreadable, ShowRemote, PowerOffRemote
  <2>4. CASE \E g \in Games : Insert(g)
    BY <2>4 DEF TypeInv, WrapperTypeOK, Insert
  <2>5. CASE remote' = FALSE /\ UNCHANGED <<loaded, file, game, on>>
    BY <2>5 DEF TypeInv, WrapperTypeOK
  <2> QED
    BY <2>1, <2>2, <2>3, <2>4, <2>5, WrapperOfNext
<1>2. BoundTypeOK'
  BY SessionAssumption
    DEF TypeInv, BoundTypeOK, User, LoadGame, ChangeRole, DisableRemoteController,
        EnableRemoteController, LoadRemote, Shutdown, LoseRemote, boundVars
<1>3. hState' \in {0, hState} /\ hosting' \in {TRUE, FALSE, hosting}
      /\ info' \in {0, info} /\ lastId' \in {0, lastId} /\ buttons' \in {0, buttons}
      /\ inFrame' = inFrame /\ guests' = guests
      /\ noticed' \in {FALSE, noticed} /\ heard' \in {{}, heard}
      /\ guest' \in {0, guest} /\ gState' \in {0, gState} /\ sentId' \in {0, sentId}
      /\ told' \in {FALSE, told} /\ got' \in {{}, got}
  BY DEF User, LoadGame, StopRemoteControl, ChangeRole, Disconnected, ForgetInput,
         DisableRemoteController, EnableRemoteController, LoadRemote, Shutdown, LoseRemote,
         guestVars
<1>4. HostTypeOK' /\ GuestTypeOK'
  <2>1. 0 \in 0 .. MaxGuests /\ 0 \in 0 .. MaxInputs /\ 0 \in 0 .. 3 /\ 0 \in 0 .. 4
    BY SessionAssumption
  <2>2. HostTypeOK /\ GuestTypeOK
    BY DEF TypeInv
  <2>3. HostTypeOK'
    BY <1>3, <2>1, <2>2 DEF HostTypeOK
  <2> QED
    BY <1>3, <2>1, <2>2, <2>3 DEF GuestTypeOK
<1>5. /\ hq' \in {<< >>, hq} /\ up' \in {<< >>, up} /\ inputs' \in {{}, inputs}
      /\ down' \in {<< >>, down} \/ \E n \in 1 .. 2 : UpdateModels(n)
  BY DEF User, LoadGame, Disconnected, DisableRemoteController, EnableRemoteController,
         LoadRemote, Shutdown, LoseRemote, wireVars
<1>6. WireTypeOK'
  <2>1. WireTypeOK
    BY DEF TypeInv
  <2>2. down' \in Seq(DownEvents)
    <3>1. CASE \E n \in 1 .. 2 : UpdateModels(n)
      BY <2>1, <3>1, UpdateType
    <3> QED
      BY <1>5, <2>1, <3>1, EmptySeq DEF WireTypeOK
  <2> QED
    BY <1>5, <2>1, <2>2, EmptySeq DEF WireTypeOK
<1> QED
  BY <1>1, <1>2, <1>4, <1>6 DEF TypeInv

LEMMA WireAndPlayerType == TypeInv /\ (Wire \/ Player) => TypeInv'
<1> SUFFICES ASSUME TypeInv, Wire \/ Player PROVE TypeInv'
  OBVIOUS
<1> USE SessionAssumption
<1>1. WrapperTypeOK' /\ BoundTypeOK'
  BY DEF TypeInv, WrapperTypeOK, BoundTypeOK, Wire, Join, Lose, Deliver, DeliverInput, Player,
         Greet, GuestEvent, SendInput, hostVars, wrapperVars, boundVars
<1>2. HostTypeOK'
  BY DEF TypeInv, HostTypeOK, Wire, Join, Lose, Disconnected, Deliver, DeliverInput, Player,
         Greet, GuestEvent, SendInput, hostVars
<1>3. CASE Join
  <2>1. guest' \in 0 .. MaxGuests /\ guests' \in 0 .. MaxGuests
    BY <1>3 DEF TypeInv, GuestTypeOK, Join
  <2>2. GuestTypeOK'
    BY <1>3, <2>1 DEF TypeInv, GuestTypeOK, Join, guestVars
  <2> QED
    BY <1>1, <1>2, <1>3, <2>2 DEF TypeInv, WireTypeOK, Join, wireVars
<1>4. CASE Lose
  <2>1. 0 \in 0 .. MaxGuests /\ 0 \in 0 .. MaxInputs /\ 0 \in 0 .. 4
    OBVIOUS
  <2>2. GuestTypeOK'
    BY <1>4, <2>1 DEF TypeInv, GuestTypeOK, Lose, Disconnected
  <2>3. WireTypeOK'
    BY <1>4, EmptySeq DEF WireTypeOK, Lose, Disconnected
  <2> QED
    BY <1>1, <1>2, <2>2, <2>3 DEF TypeInv
<1>5. CASE Deliver
  <2>1. Head(up) \in UpEvents /\ up' \in Seq(UpEvents)
    BY <1>5, HeadTailProperties DEF TypeInv, WireTypeOK, Deliver
  <2>2. hq' \in Seq(HostEvents)
    <3>1. hq \in Seq(HostEvents)
      BY DEF TypeInv, WireTypeOK
    <3>2. CASE Head(up).type = "hostInfo"
      BY <1>5, <3>1, <3>2 DEF Deliver
    <3>3. CASE Head(up).type # "hostInfo"
      <4>1. Head(up) \in HostEvents
        BY <2>1, <3>3, EventTypes
      <4>2. hq' = Append(hq, Head(up))
        BY <1>5, <3>3 DEF Deliver
      <4> QED
        BY <3>1, <4>1, <4>2, AppendProperties
    <3> QED
      BY <3>2, <3>3
  <2>3. <<Event("hostInfo"), Event("audio")>> \in Seq(DownEvents)
    BY EventTypes DEF Asked
  <2>4. down' \in Seq(DownEvents)
    BY <1>5, <2>3, TellType DEF TypeInv, WireTypeOK, Deliver
  <2> QED
    BY <1>1, <1>2, <1>5, <2>1, <2>2, <2>4
      DEF TypeInv, GuestTypeOK, WireTypeOK, Deliver, guestVars
<1>6. CASE DeliverInput
  <2>1. hq' \in Seq(HostEvents) /\ inputs' \in SUBSET (1 .. MaxInputs)
    <3>1. PICK i \in inputs : inputs' = inputs \ {i} /\ hq' = Append(hq, Input(i))
      BY <1>6 DEF DeliverInput
    <3>2. inputs \in SUBSET (1 .. MaxInputs) /\ hq \in Seq(HostEvents)
      BY DEF TypeInv, WireTypeOK
    <3>3. Input(i) \in HostEvents
      BY <3>2, EventTypes
    <3> QED
      BY <3>1, <3>2, <3>3, AppendProperties
  <2> QED
    BY <1>1, <1>2, <1>6, <2>1 DEF TypeInv, GuestTypeOK, WireTypeOK, DeliverInput, guestVars
<1>7. CASE Greet
  <2>1. <<Event("name"), Event("reset"), Event("hostInfo"), Event("mode")>> \in Seq(UpEvents)
    BY EventTypes
  <2>2. up' \in Seq(UpEvents)
    BY <1>7, <2>1, ConcatProperties DEF TypeInv, WireTypeOK, Greet
  <2>3. GuestTypeOK'
    BY <1>7 DEF TypeInv, GuestTypeOK, Greet, Connected
  <2> QED
    BY <1>1, <1>2, <1>7, <2>2, <2>3 DEF TypeInv, WireTypeOK, Greet
<1>8. CASE GuestEvent
  <2>1. Head(down) \in DownEvents /\ down' \in Seq(DownEvents)
    BY <1>8, HeadTailProperties DEF TypeInv, WireTypeOK, GuestEvent
  <2>2. up' \in Seq(UpEvents)
    BY <1>8, EventTypes, AppendProperties DEF TypeInv, WireTypeOK, GuestEvent, AnswerAudio
  <2>3. gState' \in 0 .. 4 \cup {ExchangeData}
    BY <1>8 DEF TypeInv, GuestTypeOK, GuestEvent, GuestCounts, Counted, GuestReady, Connected,
                ExchangeData
  <2>4. got' \in SUBSET Asked
    BY <1>8, <2>1 DEF TypeInv, GuestTypeOK, GuestEvent, GuestCounts, DownEvents
  <2>5. told' \in BOOLEAN
    BY <1>8 DEF GuestEvent
  <2> QED
    BY <1>1, <1>2, <1>8, <2>1, <2>2, <2>3, <2>4, <2>5
      DEF TypeInv, GuestTypeOK, WireTypeOK, GuestEvent
<1>9. CASE SendInput
  BY <1>1, <1>2, <1>9 DEF TypeInv, GuestTypeOK, WireTypeOK, SendInput
<1> QED
  BY <1>3, <1>4, <1>5, <1>6, <1>7, <1>8, <1>9 DEF Wire, Player

LEMMA TypeStep == TypeInv /\ [Next]_sessionVars => TypeInv'
<1> SUFFICES ASSUME TypeInv, [Next]_sessionVars PROVE TypeInv'
  OBVIOUS
<1>1. CASE HostPoll
  <2>1. hState' \in {0, 1, hState} /\ inFrame' \in {TRUE, inFrame} /\ noticed' \in {TRUE, noticed}
    BY <1>1 DEF HostPoll, NoticeGuest, NoticeLoss, Resume, Connected
  <2>2. HostTypeOK'
    <3>1. hState' \in 0 .. 3 \cup {ExchangeData}
      BY <2>1 DEF TypeInv, HostTypeOK
    <3>2. HostTypeOK /\ inFrame' \in BOOLEAN /\ noticed' \in BOOLEAN
      BY <2>1 DEF TypeInv, HostTypeOK
    <3> QED
      BY <1>1, <3>1, <3>2 DEF HostPoll, HostTypeOK
  <2> QED
    BY <1>1, <2>2
      DEF HostPoll, TypeInv, WrapperTypeOK, GuestTypeOK, WireTypeOK, BoundTypeOK, wrapperVars,
          guestVars, wireVars, boundVars
<1>2. CASE EndFrame
  BY <1>2, ZenonT(40)
    DEF EndFrame, TypeInv, WrapperTypeOK, HostTypeOK, GuestTypeOK, WireTypeOK, BoundTypeOK,
        wrapperVars, guestVars, wireVars, boundVars
<1>3. CASE UNCHANGED sessionVars
  BY <1>3
    DEF sessionVars, TypeInv, WrapperTypeOK, HostTypeOK, GuestTypeOK, WireTypeOK, BoundTypeOK,
        hostVars, wrapperVars, guestVars, wireVars, boundVars
<1> QED
  BY <1>1, <1>2, <1>3, HostEventType, UserType, WireAndPlayerType DEF Next, Host

\* Both machines' states, their session's events and what they remember of each
\* other are what the code expects, for any number of guests and loads: no event
\* is counted beyond what the machines wait for.
THEOREM SessionTypeCorrect == Spec => []TypeOK
<1>1. Spec => []TypeInv
  BY TypeOfInit, TypeStep, PTL DEF Spec
<1> QED
  BY <1>1, TypeInvMeans, PTL

-----------------------------------------------------------------------------
\* Kinds of events in a queue.

\* An event of the kind is in the queue; at most one is; every one is behind
\* an event of another kind.
In(q, k)     == \E i \in 1 .. Len(q) : q[i].type = k
Once(q, k)   == \A i, j \in 1 .. Len(q) : q[i].type = k /\ q[j].type = k => i = j
Led(q, k, x) == \A i \in 1 .. Len(q) :
                    q[i].type = k => \E j \in 1 .. i - 1 : q[j].type = x

LEMMA NoKinds ==
    /\ \A k : ~In(<< >>, k) /\ Once(<< >>, k)
    /\ \A k, x : Led(<< >>, k, x)
BY DEF In, Once, Led

LEMMA LedByNone ==
    ASSUME NEW q, NEW k, ~In(q, k) PROVE \A x : Led(q, k, x)
BY DEF In, Led

LEMMA OneKind ==
    ASSUME NEW e
    PROVE  /\ \A k : (In(<<e>>, k) <=> e.type = k) /\ Once(<<e>>, k)
           /\ \A k, x : Led(<<e>>, k, x) <=> e.type # k
BY DEF In, Once, Led

LEMMA ConcatKinds ==
    ASSUME NEW S, NEW q \in Seq(S), NEW s \in Seq(S)
    PROVE  /\ \A k : In(q \o s, k) <=> In(q, k) \/ In(s, k)
           /\ \A k : Once(q, k) /\ Once(s, k) /\ ~(In(q, k) /\ In(s, k)) => Once(q \o s, k)
           /\ \A k, x : Led(q, k, x) /\ (In(q, x) \/ Led(s, k, x)) => Led(q \o s, k, x)
<1> DEFINE t == q \o s
           m == Len(q)
<1>1. /\ m \in Nat /\ Len(s) \in Nat /\ Len(t) = m + Len(s)
      /\ \A i \in 1 .. m : t[i] = q[i]
      /\ \A i \in 1 .. Len(s) : t[m + i] = s[i]
  BY ConcatProperties, LenProperties
<1>2. \A i \in 1 .. Len(t) :
         i \in 1 .. m \/ (i > m /\ i - m \in 1 .. Len(s) /\ t[i] = s[i - m])
  BY <1>1
<1> HIDE DEF t, m
<1>3. ASSUME NEW k PROVE In(t, k) <=> In(q, k) \/ In(s, k)
  <2>1. In(q, k) => In(t, k)
    BY <1>1 DEF In, m
  <2>2. In(s, k) => In(t, k)
    <3> SUFFICES ASSUME NEW i \in 1 .. Len(s), s[i].type = k PROVE In(t, k)
      BY DEF In
    <3>1. m + i \in 1 .. Len(t) /\ t[m + i].type = k
      BY <1>1
    <3> QED
      BY <3>1 DEF In
  <2>3. In(t, k) => In(q, k) \/ In(s, k)
    BY <1>1, <1>2 DEF In, m
  <2> QED
    BY <2>1, <2>2, <2>3
<1>4. ASSUME NEW k, Once(q, k), Once(s, k), ~(In(q, k) /\ In(s, k)) PROVE Once(t, k)
  <2> SUFFICES ASSUME NEW i \in 1 .. Len(t), NEW j \in 1 .. Len(t),
                      t[i].type = k, t[j].type = k
               PROVE  i = j
    BY DEF Once
  <2>1. CASE i \in 1 .. m /\ j \in 1 .. m
    BY <1>1, <1>4, <2>1 DEF Once, m
  <2>2. CASE i > m /\ j > m
    <3>1. i - m \in 1 .. Len(s) /\ j - m \in 1 .. Len(s) /\ t[i] = s[i - m] /\ t[j] = s[j - m]
      BY <1>1, <1>2, <2>2
    <3>2. i - m = j - m
      BY <1>4, <3>1 DEF Once
    <3> QED
      BY <1>1, <3>2
  <2>3. CASE (i \in 1 .. m /\ j > m) \/ (j \in 1 .. m /\ i > m)
    <3>1. In(q, k)
      BY <1>1, <2>3 DEF In, m
    <3>2. In(s, k)
      BY <1>1, <1>2, <2>3, SMTT(30) DEF In
    <3> QED
      BY <1>4, <3>1, <3>2
  <2> QED
    BY <1>1, <1>2, <2>1, <2>2, <2>3
<1>5. ASSUME NEW k, NEW x, Led(q, k, x), In(q, x) \/ Led(s, k, x) PROVE Led(t, k, x)
  <2> SUFFICES ASSUME NEW i \in 1 .. Len(t), t[i].type = k
               PROVE  \E j \in 1 .. i - 1 : t[j].type = x
    BY DEF Led
  <2>1. CASE i \in 1 .. m
    <3>1. PICK j \in 1 .. i - 1 : q[j].type = x
      BY <1>1, <1>5, <2>1 DEF Led, m
    <3> QED
      BY <1>1, <2>1, <3>1
  <2>2. CASE i > m /\ In(q, x)
    <3>1. PICK j \in 1 .. m : q[j].type = x
      BY <2>2 DEF In, m
    <3> QED
      BY <1>1, <2>2, <3>1
  <2>3. CASE i > m /\ Led(s, k, x)
    <3>1. i - m \in 1 .. Len(s) /\ s[i - m].type = k
      BY <1>1, <1>2, <2>3
    <3>2. PICK j \in 1 .. (i - m) - 1 : s[j].type = x
      BY <2>3, <3>1 DEF Led
    <3>3. m + j \in 1 .. i - 1 /\ t[m + j] = s[j]
      BY <1>1, <3>1, <3>2
    <3> QED
      BY <3>2, <3>3
  <2> QED
    BY <1>1, <1>2, <1>5, <2>1, <2>2, <2>3
<1> QED
  BY <1>3, <1>4, <1>5 DEF t

LEMMA AppendKinds ==
    ASSUME NEW S, NEW q \in Seq(S), NEW e \in S
    PROVE  /\ \A k : In(Append(q, e), k) <=> In(q, k) \/ e.type = k
           /\ \A k : Once(q, k) /\ (e.type = k => ~In(q, k)) => Once(Append(q, e), k)
           /\ \A k, x : Led(q, k, x) /\ (e.type = k => In(q, x)) => Led(Append(q, e), k, x)
<1> DEFINE a == Append(q, e)
           o == <<e>>
<1>1. a = q \o o /\ o \in Seq(S)
  BY AppendIsConcat
<1>3. /\ \A k : (In(o, k) <=> e.type = k) /\ Once(o, k)
      /\ \A k, x : Led(o, k, x) <=> e.type # k
  BY OneKind
<1> HIDE DEF a, o
<1>2. /\ \A k : In(a, k) <=> In(q, k) \/ In(o, k)
      /\ \A k : Once(q, k) /\ Once(o, k) /\ ~(In(q, k) /\ In(o, k)) => Once(a, k)
      /\ \A k, x : Led(q, k, x) /\ (In(q, x) \/ Led(o, k, x)) => Led(a, k, x)
  BY <1>1, ConcatKinds
<1>4. \A k : In(a, k) <=> In(q, k) \/ e.type = k
  BY <1>2, <1>3
<1>5. \A k : Once(q, k) /\ (e.type = k => ~In(q, k)) => Once(a, k)
  BY <1>2, <1>3
<1>6. \A k, x : Led(q, k, x) /\ (e.type = k => In(q, x)) => Led(a, k, x)
  BY <1>2, <1>3
<1> QED
  BY <1>4, <1>5, <1>6 DEF a

LEMMA TailKinds ==
    ASSUME NEW S, NEW q \in Seq(S), q # << >>
    PROVE  /\ \A k : In(q, k) <=> Head(q).type = k \/ In(Tail(q), k)
           /\ \A k : Once(q, k) => Once(Tail(q), k) /\ (Head(q).type = k => ~In(Tail(q), k))
           /\ \A k, x : Led(q, k, x) =>
                  /\ Head(q).type # k
                  /\ Head(q).type = x \/ Led(Tail(q), k, x)
<1> DEFINE t == Tail(q)
<1>1. /\ Len(q) \in Nat /\ Len(q) > 0 /\ Len(t) = Len(q) - 1 /\ Head(q) = q[1]
      /\ \A i \in 1 .. Len(t) : t[i] = q[i + 1]
  BY HeadTailProperties, LenProperties, EmptySeq
<1>2. \A i \in 2 .. Len(q) : i - 1 \in 1 .. Len(t) /\ t[i - 1] = q[i]
  BY <1>1
<1> HIDE DEF t
<1>3. ASSUME NEW k PROVE In(q, k) <=> Head(q).type = k \/ In(t, k)
  <2>1. In(q, k) => Head(q).type = k \/ In(t, k)
    BY <1>1, <1>2 DEF In
  <2>2. In(t, k) => In(q, k)
    BY <1>1 DEF In
  <2>3. Head(q).type = k => In(q, k)
    BY <1>1 DEF In
  <2> QED
    BY <2>1, <2>2, <2>3
<1>4. ASSUME NEW k, Once(q, k) PROVE Once(t, k) /\ (Head(q).type = k => ~In(t, k))
  BY <1>1, <1>4, SMTT(30) DEF Once, In
<1>5. ASSUME NEW k, NEW x, Led(q, k, x)
      PROVE  Head(q).type # k /\ (Head(q).type = x \/ Led(t, k, x))
  <2>1. Head(q).type # k
    BY <1>1, <1>5 DEF Led
  <2>2. ASSUME Head(q).type # x, NEW i \in 1 .. Len(t), t[i].type = k
        PROVE  \E j \in 1 .. i - 1 : t[j].type = x
    <3>1. i + 1 \in 1 .. Len(q) /\ q[i + 1].type = k
      BY <1>1, <2>2
    <3>2. PICK j \in 1 .. i : q[j].type = x
      BY <1>5, <3>1 DEF Led
    <3>3. j - 1 \in 1 .. i - 1 /\ t[j - 1] = q[j]
      BY <1>1, <1>2, <2>2, <3>1, <3>2
    <3> QED
      BY <3>2, <3>3
  <2> QED
    BY <2>1, <2>2 DEF Led
<1> QED
  BY <1>3, <1>4, <1>5 DEF t

\* A mode that the guest need not count: one that follows another.
Spare(q, S, i) ==
    q[i].type = "mode" /\ ("mode" \in S \/ \E j \in 1 .. i - 1 : q[j].type = "mode")

\* When a guest that counted the kinds S gets a spare mode from q, it has counted
\* all the rest.
SparesAreLate(q, S) ==
    \A i \in 1 .. Len(q) :
        Spare(q, S, i) => \A k \in Asked : k \in S \/ \E j \in 1 .. i - 1 : q[j].type = k

LEMMA ConcatSpares ==
    ASSUME NEW T, NEW q \in Seq(T), NEW s \in Seq(T), NEW S, SparesAreLate(q, S),
           \/ ~In(s, "mode")
           \/ \A k \in Asked : k \in S \/ In(q, k)
           \/ "mode" \notin S /\ ~In(q, "mode") /\ Once(s, "mode")
    PROVE  SparesAreLate(q \o s, S)
<1> DEFINE t == q \o s
           m == Len(q)
<1>1. /\ m \in Nat /\ Len(s) \in Nat /\ Len(t) = m + Len(s)
      /\ \A i \in 1 .. m : t[i] = q[i]
      /\ \A i \in 1 .. Len(s) : t[m + i] = s[i]
  BY ConcatProperties, LenProperties
<1>2. \A i \in 1 .. Len(t) :
         i \in 1 .. m \/ (i > m /\ i - m \in 1 .. Len(s) /\ t[i] = s[i - m])
  BY <1>1
<1> HIDE DEF t, m
<1> SUFFICES ASSUME NEW i \in 1 .. Len(t), Spare(t, S, i), NEW k \in Asked
             PROVE  k \in S \/ \E j \in 1 .. i - 1 : t[j].type = k
  BY DEF SparesAreLate, t
<1>3. CASE i \in 1 .. m
  <2>1. Spare(q, S, i)
    BY <1>1, <1>3 DEF Spare
  <2>2. k \in S \/ \E j \in 1 .. i - 1 : q[j].type = k
    BY <1>3, <2>1 DEF SparesAreLate, m
  <2> QED
    BY <1>1, <1>3, <2>2
<1>4. CASE i > m
  <2>1. i - m \in 1 .. Len(s) /\ s[i - m].type = "mode"
    BY <1>2, <1>4, <1>1 DEF Spare
  <2>2. In(s, "mode")
    BY <2>1 DEF In
  <2>3. ASSUME In(q, k) PROVE \E j \in 1 .. i - 1 : t[j].type = k
    <3>1. PICK j \in 1 .. m : q[j].type = k
      BY <2>3 DEF In, m
    <3> QED
      BY <1>1, <1>4, <3>1
  <2>4. ~("mode" \notin S /\ ~In(q, "mode") /\ Once(s, "mode"))
    <3> SUFFICES ASSUME "mode" \notin S, ~In(q, "mode"), Once(s, "mode") PROVE FALSE
      OBVIOUS
    <3>1. PICK j \in 1 .. i - 1 : t[j].type = "mode"
      BY DEF Spare
    <3>2. j \in 1 .. Len(t)
      BY <1>1, <3>1
    <3>3. j > m /\ j - m \in 1 .. Len(s) /\ s[j - m].type = "mode"
      BY <1>1, <1>2, <3>1, <3>2 DEF In, m
    <3>4. j - m = i - m
      BY <2>1, <3>3 DEF Once
    <3> QED
      BY <1>1, <3>1, <3>4
  <2> QED
    BY <2>2, <2>3, <2>4
<1> QED
  BY <1>1, <1>2, <1>3, <1>4

LEMMA TailSpares ==
    ASSUME NEW T, NEW q \in Seq(T), q # << >>, NEW S, SparesAreLate(q, S),
           NEW R, \A k \in Asked : k \in R <=> k \in S \/ Head(q).type = k
    PROVE  /\ SparesAreLate(Tail(q), R)
           /\ Head(q).type = "mode" /\ "mode" \in S => Asked \subseteq S
<1> DEFINE t == Tail(q)
<1>1. /\ Len(q) \in Nat /\ Len(q) > 0 /\ Len(t) = Len(q) - 1 /\ Head(q) = q[1]
      /\ \A i \in 1 .. Len(t) : t[i] = q[i + 1]
  BY HeadTailProperties, LenProperties, EmptySeq
<1>2. \A i \in 2 .. Len(q) : i - 1 \in 1 .. Len(t) /\ t[i - 1] = q[i]
  BY <1>1
<1> HIDE DEF t
<1>3. ASSUME NEW i \in 1 .. Len(t), Spare(t, R, i), NEW k \in Asked
      PROVE  k \in R \/ \E j \in 1 .. i - 1 : t[j].type = k
  <2>1. i + 1 \in 1 .. Len(q) /\ q[i + 1].type = "mode" /\ 1 \in 1 .. (i + 1) - 1
    BY <1>1, <1>3 DEF Spare
  <2>2. ASSUME NEW j \in 1 .. i - 1 PROVE j + 1 \in 1 .. (i + 1) - 1 /\ q[j + 1] = t[j]
    BY <1>1, <2>2
  <2>3. Spare(q, S, i + 1)
    <3>1. CASE "mode" \in R
      BY <1>1, <2>1, <3>1 DEF Spare, Asked
    <3>2. CASE \E j \in 1 .. i - 1 : t[j].type = "mode"
      BY <2>1, <2>2, <3>2 DEF Spare
    <3> QED
      BY <1>3, <3>1, <3>2 DEF Spare
  <2>4. k \in S \/ \E j \in 1 .. (i + 1) - 1 : q[j].type = k
    BY <2>1, <2>3 DEF SparesAreLate
  <2>5. ASSUME NEW j \in 1 .. (i + 1) - 1, q[j].type = k
        PROVE  k \in R \/ \E l \in 1 .. i - 1 : t[l].type = k
    <3>1. CASE j = 1
      BY <1>1, <2>5, <3>1
    <3>2. CASE j # 1
      <4>1. j - 1 \in 1 .. i - 1 /\ t[j - 1] = q[j]
        BY <1>2, <2>1, <2>5, <3>2
      <4> QED
        BY <2>5, <4>1
    <3> QED
      BY <3>1, <3>2
  <2> QED
    BY <2>4, <2>5
<1>4. ASSUME Head(q).type = "mode", "mode" \in S PROVE Asked \subseteq S
  <2>1. 1 \in 1 .. Len(q) /\ Spare(q, S, 1) /\ 1 .. 1 - 1 = {}
    BY <1>1, <1>4 DEF Spare
  <2> QED
    BY <2>1 DEF SparesAreLate
<1> QED
  BY <1>3, <1>4 DEF SparesAreLate, t

-----------------------------------------------------------------------------
\* What holds of a session.

\* Nothing is left of a guest that is gone, nor anywhere else.
Quiet ==
    /\ hq = << >> /\ up = << >> /\ down = << >> /\ inputs = {}
    /\ gState = 0 /\ sentId = 0 /\ got = {} /\ heard = {} /\ ~told /\ ~noticed

Roles ==
    /\ guest # 0 => hosting
    /\ remote => ~hosting
    /\ guest = 0 => Quiet

Phases ==
    /\ inFrame => hState # 0
    /\ noticed => hState # 0
    /\ hState = 0 => heard = {}

\* The host has begun the session with this guest, or will: what it counted with
\* the guest before is forgotten.
Fresh == noticed \/ hState = 0

\* A guest that did not ask gets nothing but modes, and these only from a host that
\* believes to exchange data with it.
Ungreeted ==
    gState = 0 =>
        /\ up = << >> /\ hq = << >> /\ inputs = {} /\ heard = {} /\ got = {}
        /\ \A k \in {"hostInfo", "audio"} : ~In(down, k)
        /\ Fresh => down = << >>

\* The host is told and asked everything once.
Requests ==
    /\ \A k \in Required :
           /\ Once(up, k) /\ Once(hq, k)
           /\ In(up, k) => ~In(hq, k) /\ k \notin heard
           /\ In(hq, k) => k \notin heard
    /\ Once(up, "hostInfo")
    /\ In(up, "hostInfo") =>
           \A k \in {"hostInfo", "audio"} : k \notin got /\ ~In(down, k)

\* It answers each request once, and audio only follows the answer to hostInfo;
\* it may tell a mode again, but not before it was asked.
Answers ==
    /\ \A k \in {"name", "hostInfo", "audio"} : Once(down, k) /\ (In(down, k) => k \notin got)
    /\ "name" \in heard <=> In(down, "name") \/ "name" \in got
    /\ "mode" \in heard => In(down, "mode") \/ "mode" \in got
    /\ Fresh => (In(down, "mode") \/ "mode" \in got => "mode" \in heard)
    /\ In(up, "audio") \/ In(hq, "audio") \/ "audio" \in heard => "audio" \in got
    /\ "hostInfo" \in got \/ Led(down, "audio", "hostInfo")
    /\ "audio" \in got => "hostInfo" \in got

Spares == Fresh => SparesAreLate(down, got)

Bit(S, k) == IF k \in S THEN 1 ELSE 0

\* What the two machines have counted is as many kinds as they have got.
GuestCount ==
    Fresh =>
        /\ gState = ExchangeData => got = Asked
        /\ gState \notin {0, ExchangeData} =>
              gState = 1 + Bit(got, "name") + Bit(got, "hostInfo") + Bit(got, "audio")
                         + Bit(got, "mode")
HostCount ==
    noticed =>
        /\ hState = ExchangeData => heard = Required
        /\ hState # ExchangeData =>
              hState = 1 + Bit(heard, "name") + Bit(heard, "mode") + Bit(heard, "audio")

NameIsGuests == "name" \in heard => info = guest

\* Before the guest's mode is handled, its reset is; after it inputs are the guest's.
InputReset == lastId <= sentId /\ buttons \in {0, guest}

Inputs ==
    /\ \A i \in 1 .. Len(hq) : hq[i].type = "input" => hq[i].id \in 1 .. sentId
    /\ inputs \subseteq 1 .. sentId
    /\ "mode" \in heard => InputReset
    /\ InputReset \/ Led(hq, "mode", "reset")
    /\ InputReset \/ In(hq, "reset") \/ Led(up, "mode", "reset")

SessionInv ==
    /\ Roles /\ Phases /\ Ungreeted /\ Requests /\ Answers /\ Spares
    /\ GuestCount /\ HostCount /\ NameIsGuests /\ Inputs

LEMMA QuietInv == Roles /\ Phases /\ Quiet => SessionInv
<1> SUFFICES ASSUME Roles, Phases, Quiet PROVE SessionInv
  OBVIOUS
<1>1. Ungreeted /\ Requests /\ Answers
  BY NoKinds DEF Quiet, Ungreeted, Requests, Answers
<1>2. Spares
  BY EmptySeq DEF Quiet, Spares, SparesAreLate
<1>3. GuestCount /\ HostCount /\ NameIsGuests
  BY DEF Quiet, GuestCount, HostCount, NameIsGuests, ExchangeData
<1>4. Inputs
  BY NoKinds, EmptySeq DEF Quiet, Inputs
<1> QED
  BY <1>1, <1>2, <1>3, <1>4 DEF SessionInv

LEMMA QuietInvNext == Roles' /\ Phases' /\ Quiet' => SessionInv'
BY QuietInv, PTL

LEMMA SessionInvInit == Init => SessionInv
<1> SUFFICES ASSUME Init PROVE SessionInv
  OBVIOUS
<1>1. Roles /\ Phases /\ Quiet
  BY DEF Init, WrapperInit, Roles, Phases, Quiet
<1> QED
  BY <1>1, QuietInv

LEMMA DisconnectedIsQuiet == Disconnected => Quiet' /\ guest' = 0
BY DEF Disconnected, Quiet

\* Steps that leave the session alone.
LEMMA SessionStill ==
    ASSUME SessionInv, Roles', Phases', UNCHANGED <<guest, info, lastId, buttons, heard, noticed,
           hState, guestVars, wireVars>>
    PROVE  SessionInv'
<1>1. Ungreeted' /\ Requests' /\ Answers' /\ Spares'
  BY DEF SessionInv, Ungreeted, Requests, Answers, Spares, Fresh, guestVars, wireVars
<1>2. GuestCount' /\ HostCount' /\ NameIsGuests' /\ Inputs'
  BY DEF SessionInv, GuestCount, HostCount, NameIsGuests, Inputs, InputReset, Fresh, guestVars,
         wireVars
<1> QED
  BY <1>1, <1>2 DEF SessionInv

-----------------------------------------------------------------------------
\* The host's frames.

LEMMA HostPollKeeps == TypeInv /\ SessionInv /\ HostPoll => SessionInv'
<1> SUFFICES ASSUME TypeInv, SessionInv, HostPoll PROVE SessionInv'
  OBVIOUS
<1>1. CASE NoticeLoss
  BY <1>1, QuietInvNext
    DEF SessionInv, Roles, Phases, Quiet, HostPoll, NoticeLoss, guestVars, wireVars, wrapperVars
<1>2. CASE Resume
  <2>1. Roles' /\ Phases'
    BY <1>2 DEF SessionInv, Roles, Phases, Quiet, HostPoll, Resume, guestVars, wireVars,
                wrapperVars
  <2> QED
    BY <1>2, <2>1, SessionStill DEF HostPoll, Resume
<1>3. CASE NoticeGuest
  <2>1. heard = {} /\ heard' = {} /\ hState' = 1 /\ Fresh /\ Fresh'
    BY <1>3 DEF SessionInv, Phases, HostPoll, NoticeGuest, Connected, Fresh
  <2>2. Roles' /\ Phases'
    BY <1>3, <2>1 DEF SessionInv, Roles, Phases, Quiet, HostPoll, NoticeGuest, guestVars,
                      wireVars, wrapperVars
  <2>3. Ungreeted' /\ Requests' /\ Answers' /\ Spares'
    BY <1>3, <2>1
      DEF SessionInv, HostPoll, Ungreeted, Requests, Answers, Spares, guestVars, wireVars
  <2>4. GuestCount' /\ NameIsGuests' /\ Inputs'
    BY <1>3, <2>1
      DEF SessionInv, HostPoll, GuestCount, NameIsGuests, Inputs, InputReset, guestVars, wireVars
  <2>5. HostCount'
    BY <2>1 DEF HostCount, Bit, ExchangeData
  <2> QED
    BY <2>2, <2>3, <2>4, <2>5 DEF SessionInv
<1> QED
  BY <1>1, <1>2, <1>3 DEF HostPoll

LEMMA EndFrameKeeps == SessionInv /\ EndFrame => SessionInv'
<1> SUFFICES ASSUME SessionInv, EndFrame PROVE SessionInv'
  OBVIOUS
<1>1. Roles' /\ Phases'
  BY DEF SessionInv, EndFrame, Roles, Phases, Quiet, guestVars, wireVars, wrapperVars
<1> QED
  BY <1>1, SessionStill DEF EndFrame

\* The host counts an event: what it sends are the answers and, when it has all it
\* needs, the word to start, which no one counts.
LEMMA HostCountsSends ==
    ASSUME TypeInv, guest # 0, NEW type \in Required, NEW answers \in Seq(DownEvents),
           HostCounts(type, answers)
    PROVE  \E s \in Seq(DownEvents) :
              /\ down' = down \o s
              /\ \A k \in Asked : In(s, k) <=> In(answers, k)
              /\ \A k \in Asked : Once(answers, k) => Once(s, k)
<1> DEFINE n == Counted(hState)
           ready == n < ExchangeData /\ HostReady(n)
           start == IF ready THEN <<Event("start")>> ELSE << >>
           s == answers \o start
<1>1. start \in Seq(DownEvents) /\ \A k \in Asked : ~In(start, k) /\ Once(start, k)
  <2>1. <<Event("start")>> \in Seq(DownEvents) /\ << >> \in Seq(DownEvents)
    BY EventTypes, EmptySeq
  <2>2. \A k \in Asked : ~In(<<Event("start")>>, k) /\ Once(<<Event("start")>>, k)
    BY OneKind DEF Event, Asked
  <2> HIDE DEF ready
  <2> QED
    BY <2>1, <2>2, NoKinds
<1>2. down' = down \o s
  BY DEF HostCounts, Tell
<1> HIDE DEF start
<1>3. s \in Seq(DownEvents)
  BY <1>1, ConcatProperties
<1>4. \A k \in Asked : In(s, k) <=> In(answers, k)
  BY <1>1, ConcatKinds
<1>5. \A k \in Asked : Once(answers, k) => Once(s, k)
  BY <1>1, ConcatKinds
<1> HIDE DEF s
<1> QED
  BY <1>2, <1>3, <1>4, <1>5

\* Facts about the head of hq.
LEMMA HqHead ==
    ASSUME TypeInv, SessionInv, HostEvent
    PROVE  /\ guest # 0 /\ gState # 0 /\ hState # 0
           /\ \A k : In(hq, k) <=> Head(hq).type = k \/ In(hq', k)
           /\ \A k \in Required : Once(hq', k) /\ (Head(hq).type = k => ~In(hq', k))
           /\ \A k, x : Led(hq, k, x) =>
                  Head(hq).type # k /\ (Head(hq).type = x \/ Led(hq', k, x))
           /\ \A i \in 1 .. Len(hq') : hq'[i].type = "input" => hq'[i].id \in 1 .. sentId
           /\ Head(hq).type = "input" => Head(hq).id \in 1 .. sentId
<1>1. hq \in Seq(HostEvents) /\ hq # << >> /\ hq' = Tail(hq)
  BY DEF TypeInv, WireTypeOK, HostEvent
<1>2. guest # 0 /\ gState # 0 /\ hState # 0
  BY <1>1 DEF SessionInv, Roles, Quiet, Ungreeted, Phases, HostEvent
<1>3. /\ \A k : In(hq, k) <=> Head(hq).type = k \/ In(hq', k)
      /\ \A k : Once(hq, k) => Once(hq', k) /\ (Head(hq).type = k => ~In(hq', k))
      /\ \A k, x : Led(hq, k, x) =>
             Head(hq).type # k /\ (Head(hq).type = x \/ Led(hq', k, x))
  BY <1>1, TailKinds
<1>4. /\ Len(hq) \in Nat /\ Len(hq) > 0 /\ Len(hq') = Len(hq) - 1 /\ Head(hq) = hq[1]
      /\ \A i \in 1 .. Len(hq') : hq'[i] = hq[i + 1]
  BY <1>1, HeadTailProperties, LenProperties, EmptySeq
<1>5. \A i \in 1 .. Len(hq) : hq[i].type = "input" => hq[i].id \in 1 .. sentId
  BY DEF SessionInv, Inputs
<1>6. \A i \in 1 .. Len(hq') : i + 1 \in 1 .. Len(hq)
  BY <1>4
<1>7. \A i \in 1 .. Len(hq') : hq'[i].type = "input" => hq'[i].id \in 1 .. sentId
  BY <1>4, <1>5, <1>6
<1>8. Head(hq).type = "input" => Head(hq).id \in 1 .. sentId
  BY <1>4, <1>5
<1>9. \A k \in Required : Once(hq, k)
  BY DEF SessionInv, Requests
<1> QED
  BY <1>2, <1>3, <1>7, <1>8, <1>9

\* The host handles one of the events it waits for.
LEMMA HostHearsKeeps ==
    ASSUME TypeInv, SessionInv, HostEvent,
           NEW type \in Required, Head(hq).type = type,
           NEW answers \in Seq(DownEvents), HostCounts(type, answers),
           \A k \in Asked : (In(answers, k) <=> k = type /\ k # "audio") /\ Once(answers, k),
           info' = IF type = "name" THEN guest ELSE info,
           UNCHANGED <<lastId, buttons>>
    PROVE  SessionInv'
<1>1. /\ guest # 0 /\ gState # 0 /\ hState # 0 /\ hState' # 0
      /\ heard' = heard \cup {type}
      /\ UNCHANGED <<guest, gState, sentId, got, told, noticed, up, inputs, hosting, remote,
                      inFrame>>
  <2>1. hState' # 0
    BY DEF HostCounts, Counted, TypeInv, HostTypeOK, HostReady, ExchangeData
  <2> QED
    BY <2>1, HqHead DEF HostEvent, HostCounts, guestVars, wrapperVars
<1>2. type \notin heard /\ ~In(up, type) /\ In(hq, type) /\ ~In(hq', type)
  BY HqHead DEF SessionInv, Requests
<1>3. PICK s \in Seq(DownEvents) :
         /\ down' = down \o s
         /\ \A k \in Asked : (In(s, k) <=> k = type /\ k # "audio") /\ Once(s, k)
  BY <1>1, HostCountsSends
<1>4. down \in Seq(DownEvents)
  BY DEF TypeInv, WireTypeOK
<1>5. /\ \A k \in Asked : In(down', k) <=> In(down, k) \/ (k = type /\ k # "audio")
      /\ \A k \in Asked :
            Once(down, k) /\ (k = type /\ k # "audio" => ~In(down, k)) => Once(down', k)
      /\ Led(down, "audio", "hostInfo") => Led(down', "audio", "hostInfo")
  <2>1. Led(s, "audio", "hostInfo")
    BY <1>3, LedByNone DEF Asked
  <2> QED
    BY <1>3, <1>4, <2>1, ConcatKinds
<1>6. Fresh' = Fresh /\ (Fresh => noticed)
  BY <1>1 DEF Fresh
<1>7. Roles' /\ Phases' /\ Ungreeted'
  BY <1>1 DEF SessionInv, Roles, Phases, Ungreeted
<1>8. Requests'
  BY <1>1, <1>2, <1>5, HqHead DEF SessionInv, Requests, Required, Asked
<1>9. Answers'
  <2>1. type = "name" => ~In(down, "name") /\ "name" \notin got
    BY <1>2 DEF SessionInv, Answers
  <2>2. \A k \in {"name", "hostInfo", "audio"} :
           Once(down', k) /\ (In(down', k) => k \notin got')
    <3>1. \A k \in {"name", "hostInfo", "audio"} :
             Once(down, k) /\ (In(down, k) => k \notin got) /\ k \in Asked
      BY DEF SessionInv, Answers, Asked
    <3>2. \A k \in {"name", "hostInfo", "audio"} : k = type /\ k # "audio" => k = "name"
      BY DEF Required
    <3> QED
      BY <1>1, <1>5, <2>1, <3>1, <3>2
  <2>3. /\ "name" \in heard' <=> In(down', "name") \/ "name" \in got'
        /\ "mode" \in heard' => In(down', "mode") \/ "mode" \in got'
        /\ Fresh' => (In(down', "mode") \/ "mode" \in got' => "mode" \in heard')
    BY <1>1, <1>5, <1>6 DEF SessionInv, Answers, Asked
  <2>4. In(up', "audio") \/ In(hq', "audio") \/ "audio" \in heard' => "audio" \in got'
    BY <1>1, <1>2, HqHead DEF SessionInv, Answers
  <2>5. "hostInfo" \in got' \/ Led(down', "audio", "hostInfo")
    BY <1>1, <1>5 DEF SessionInv, Answers
  <2>6. "audio" \in got' => "hostInfo" \in got'
    BY <1>1 DEF SessionInv, Answers
  <2> QED
    BY <2>2, <2>3, <2>4, <2>5, <2>6 DEF Answers
<1>10. Spares'
  <2> SUFFICES ASSUME Fresh PROVE SparesAreLate(down', got)
    BY <1>1, <1>6 DEF Spares
  <2>1. ~In(s, "mode") \/ ("mode" \notin got /\ ~In(down, "mode") /\ Once(s, "mode"))
    BY <1>2, <1>3 DEF SessionInv, Answers, Asked
  <2> QED
    BY <1>3, <1>4, <2>1, ConcatSpares DEF SessionInv, Spares
<1>11. GuestCount'
  BY <1>1, <1>6 DEF SessionInv, GuestCount
<1>12. HostCount'
  <2> SUFFICES ASSUME noticed, HostCount PROVE HostCount'
    BY <1>1 DEF SessionInv, HostCount
  <2>1. hState # ExchangeData
    BY <1>2 DEF HostCount
  <2>2. hState = 1 + Bit(heard, "name") + Bit(heard, "mode") + Bit(heard, "audio")
    BY <2>1 DEF HostCount
  <2>3. Bit(heard', "name") + Bit(heard', "mode") + Bit(heard', "audio")
        = Bit(heard, "name") + Bit(heard, "mode") + Bit(heard, "audio") + 1
    BY <1>1, <1>2 DEF Bit, Required
  <2>4. hState < ExchangeData /\ Counted(hState) = hState + 1
    BY <2>2 DEF Bit, Counted, ExchangeData
  <2>5. hState' = IF HostReady(hState + 1) /\ hState + 1 < ExchangeData THEN ExchangeData
                  ELSE hState + 1
    BY <2>4 DEF HostCounts
  <2>6. HostReady(hState + 1) => heard' = Required
    <3>1. HostReady(hState + 1)
          => Bit(heard', "name") + Bit(heard', "mode") + Bit(heard', "audio") = 3
      BY <2>2, <2>3 DEF HostReady, Connected, Bit
    <3>2. Bit(heard', "name") + Bit(heard', "mode") + Bit(heard', "audio") = 3
          => Required \subseteq heard'
      BY DEF Bit, Required
    <3>3. heard' \subseteq Required
      BY <1>1 DEF TypeInv, HostTypeOK
    <3> QED
      BY <3>1, <3>2, <3>3
  <2>7. hState + 1 < ExchangeData /\ hState + 1 # ExchangeData
    BY <2>2 DEF Bit, ExchangeData
  <2> QED
    BY <2>2, <2>3, <2>5, <2>6, <2>7 DEF HostCount, Bit
<1>13. NameIsGuests'
  BY <1>1 DEF SessionInv, NameIsGuests, Required
<1>14. Inputs'
  <2>1. InputReset' = InputReset
    BY <1>1 DEF InputReset
  <2>2. "mode" \in heard' => InputReset'
    BY <1>1, <2>1, HqHead DEF SessionInv, Inputs
  <2>3. InputReset' \/ Led(hq', "mode", "reset")
    BY <1>2, <2>1, HqHead DEF SessionInv, Inputs, Required
  <2>4. InputReset' \/ In(hq', "reset") \/ Led(up', "mode", "reset")
    BY <1>1, <2>1, HqHead DEF SessionInv, Inputs, Required
  <2>5. \A i \in 1 .. Len(hq') : hq'[i].type = "input" => hq'[i].id \in 1 .. sentId'
    BY <1>1, HqHead
  <2>6. inputs' \subseteq 1 .. sentId'
    BY <1>1 DEF SessionInv, Inputs
  <2> QED
    BY <2>2, <2>3, <2>4, <2>5, <2>6 DEF Inputs
<1> QED
  BY <1>7, <1>8, <1>9, <1>10, <1>11, <1>12, <1>13, <1>14 DEF SessionInv

\* The host handles an input, or the reset of the inputs before.
LEMMA HostPressesKeeps ==
    ASSUME TypeInv, SessionInv, HostEvent, Head(hq).type \in {"input", "reset"},
           UNCHANGED <<hState, info, heard, down>>,
           InputReset => InputReset', Head(hq).type = "reset" => InputReset'
    PROVE  SessionInv'
<1>1. /\ guest # 0 /\ gState # 0
      /\ UNCHANGED <<guest, gState, sentId, got, told, noticed, up, inputs, hosting, remote,
                      inFrame, hState, info, heard, down>>
      /\ Head(hq).type \notin Required /\ Head(hq).type # "mode"
  BY HqHead DEF HostEvent, guestVars, wrapperVars, Required
<1>2. Roles' /\ Phases' /\ Ungreeted' /\ Spares' /\ GuestCount' /\ HostCount' /\ NameIsGuests'
  BY <1>1 DEF SessionInv, Roles, Phases, Ungreeted, Spares, GuestCount, HostCount,
              NameIsGuests, Fresh
<1>3. \A k \in Required : Once(hq', k) /\ (In(hq', k) <=> In(hq, k))
  BY <1>1, HqHead
<1>4. Requests'
  BY <1>1, <1>3 DEF SessionInv, Requests
<1>5. Answers'
  BY <1>1, <1>3 DEF SessionInv, Answers, Required, Fresh
<1>6. Inputs'
  <2>1. "mode" \in heard' => InputReset'
    BY <1>1 DEF SessionInv, Inputs
  <2>2. InputReset' \/ Led(hq', "mode", "reset")
    BY <1>1, HqHead DEF SessionInv, Inputs
  <2>3. InputReset' \/ In(hq', "reset") \/ Led(up', "mode", "reset")
    BY <1>1, HqHead DEF SessionInv, Inputs
  <2>4. /\ \A i \in 1 .. Len(hq') : hq'[i].type = "input" => hq'[i].id \in 1 .. sentId'
        /\ inputs' \subseteq 1 .. sentId'
    BY <1>1, HqHead DEF SessionInv, Inputs
  <2> QED
    BY <2>1, <2>2, <2>3, <2>4 DEF Inputs
<1> QED
  BY <1>2, <1>4, <1>5, <1>6 DEF SessionInv

LEMMA HostEventKeeps == TypeInv /\ SessionInv /\ HostEvent => SessionInv'
<1> SUFFICES ASSUME TypeInv, SessionInv, HostEvent PROVE SessionInv'
  OBVIOUS
<1> DEFINE e == Head(hq)
<1>1. CASE e.type = "name" /\ HandleName
  <2>1. /\ <<Event("name")>> \in Seq(DownEvents)
        /\ \A k \in Asked : (In(<<Event("name")>>, k) <=> k = "name" /\ k # "audio")
                           /\ Once(<<Event("name")>>, k)
    BY EventTypes, OneKind DEF Event, Asked
  <2>2. /\ HostCounts("name", <<Event("name")>>) /\ info' = guest
        /\ UNCHANGED <<lastId, buttons>> /\ "name" \in Required
    BY <1>1 DEF HandleName, Required
  <2> QED
    BY <1>1, <2>1, <2>2, HostHearsKeeps
<1>2. CASE e.type = "mode" /\ HandleMode
  <2>1. /\ <<Event("mode")>> \in Seq(DownEvents)
        /\ \A k \in Asked : (In(<<Event("mode")>>, k) <=> k = "mode" /\ k # "audio")
                           /\ Once(<<Event("mode")>>, k)
    BY EventTypes, OneKind DEF Event, Asked
  <2>2. /\ HostCounts("mode", <<Event("mode")>>) /\ info' = info
        /\ UNCHANGED <<lastId, buttons>> /\ "mode" \in Required
    BY <1>2 DEF HandleMode, Required
  <2> QED
    BY <1>2, <2>1, <2>2, HostHearsKeeps
<1>3. CASE e.type = "audio" /\ HandleAudio
  <2>1. /\ << >> \in Seq(DownEvents)
        /\ \A k \in Asked : (In(<< >>, k) <=> k = "audio" /\ k # "audio") /\ Once(<< >>, k)
    BY EmptySeq, NoKinds
  <2>2. /\ HostCounts("audio", << >>) /\ info' = info
        /\ UNCHANGED <<lastId, buttons>> /\ "audio" \in Required
    BY <1>3 DEF HandleAudio, Required
  <2> QED
    BY <1>3, <2>1, <2>2, HostHearsKeeps
<1>4. CASE e.type = "input" /\ HandleInput(e.id)
  <2>1. e.id \in 1 .. sentId /\ sentId' = sentId /\ guest' = guest
    BY <1>4, HqHead DEF HostEvent, guestVars
  <2>2. InputReset => InputReset'
    BY <1>4, <2>1 DEF HandleInput, InputReset, TypeInv, GuestTypeOK, HostTypeOK
  <2> QED
    BY <1>4, <2>2, HostPressesKeeps DEF HandleInput
<1>5. CASE e.type = "reset" /\ ResetRemoteInput
  <2>1. InputReset'
    BY <1>5, SessionAssumption
      DEF ResetRemoteInput, InputReset, TypeInv, GuestTypeOK, HostEvent, guestVars
  <2> QED
    BY <1>5, <2>1, HostPressesKeeps DEF ResetRemoteInput
<1> QED
  BY <1>1, <1>2, <1>3, <1>4, <1>5 DEF HostEvent

-----------------------------------------------------------------------------
\* The host's user.

\* Telling a guest of changed modes: it has counted or will have counted the rest.
LEMMA UpdateModelsKeeps ==
    ASSUME TypeInv, SessionInv, NEW n \in Nat, UpdateModels(n), Roles', Phases',
           UNCHANGED <<hState, info, lastId, buttons, heard, noticed, guest, guestVars, hq, up,
                       inputs>>
    PROVE  SessionInv'
<1> DEFINE modes == [i \in 1 .. n |-> Event("mode")]
<1>1. CASE down' = down
  BY <1>1, SessionStill DEF wireVars
<1>2. CASE guest # 0 /\ hState = ExchangeData /\ down' = down \o modes
  <2>1. modes \in Seq(DownEvents) /\ down \in Seq(DownEvents)
    BY ModesType DEF TypeInv, WireTypeOK
  <2>2. \A k : In(modes, k) => k = "mode"
    BY DEF In, Event
  <2> HIDE DEF modes
  <2>3. \A k \in {"name", "hostInfo", "audio"} : Once(modes, k) /\ ~In(modes, k)
    BY <2>2 DEF Once, In
  <2>4. Led(modes, "audio", "hostInfo")
    BY <2>3, LedByNone
  <2>5. /\ \A k \in {"name", "hostInfo", "audio"} :
              (In(down', k) <=> In(down, k)) /\ (Once(down, k) => Once(down', k))
        /\ In(down, "mode") => In(down', "mode")
        /\ Led(down, "audio", "hostInfo") => Led(down', "audio", "hostInfo")
    BY <1>2, <2>1, <2>3, <2>4, ConcatKinds
  <2>6. Fresh => noticed /\ heard = Required
    BY <1>2 DEF SessionInv, HostCount, Fresh, ExchangeData
  <2>7. Fresh => \A k \in Asked : k \in got \/ In(down, k)
    BY <2>6 DEF SessionInv, Answers, Asked, Required
  <2>8. Fresh' = Fresh
    BY DEF Fresh
  <2>9. Ungreeted'
    <3>1. gState = 0 => ~Fresh
      BY <2>7, NoKinds DEF SessionInv, Ungreeted, Asked
    <3> QED
      BY <2>5, <2>8, <3>1 DEF SessionInv, Ungreeted, guestVars
  <2>10. Requests'
    BY <2>5 DEF SessionInv, Requests, guestVars
  <2>11. Answers'
    <3>1. Fresh => "mode" \in heard
      BY <2>6 DEF Required
    <3> QED
      BY <2>5, <2>8, <3>1 DEF SessionInv, Answers, guestVars
  <2>12. Spares'
    BY <1>2, <2>1, <2>7, <2>8, ConcatSpares DEF SessionInv, Spares, guestVars
  <2>13. GuestCount' /\ HostCount' /\ NameIsGuests'
    BY <2>8 DEF SessionInv, GuestCount, HostCount, NameIsGuests, guestVars
  <2>14. Inputs'
    BY DEF SessionInv, Inputs, InputReset, guestVars
  <2> QED
    BY <2>9, <2>10, <2>11, <2>12, <2>13, <2>14 DEF SessionInv
<1>3. down' = down \/ (guest # 0 /\ hState = ExchangeData /\ down' = down \o modes)
  <2>1. down \o << >> = down
    BY ConcatEmptySeq DEF TypeInv, WireTypeOK
  <2> QED
    BY <2>1 DEF UpdateModels, Tell
<1> QED
  BY <1>1, <1>2, <1>3

LEMMA LoadGameKeeps == TypeInv /\ SessionInv /\ LoadGame => SessionInv'
<1> SUFFICES ASSUME TypeInv, SessionInv, LoadGame PROVE SessionInv'
  OBVIOUS
<1> DEFINE SameWire == UNCHANGED <<info, lastId, buttons, heard, noticed, guest, guestVars, hq,
                                   up, inputs>>
<1>1. /\ SameWire /\ UNCHANGED <<hosting, inFrame>> /\ ~inFrame
      /\ remote' => remote
      /\ hState' = hState \/ (remote /\ hState' = 0)
  BY DEF LoadGame, Unreadable, Unload, Nothing, Insert, StopRemoteControl
<1>2. remote => guest = 0 /\ Quiet
  BY DEF SessionInv, Roles
<1>3. Roles'
  <2>1. guest = 0 => down' = down
    BY DEF LoadGame, UpdateModels, Tell
  <2> QED
    <3>1. guest # 0 => hosting'
      BY <1>1 DEF SessionInv, Roles
    <3>2. remote' => ~hosting'
      BY <1>1 DEF SessionInv, Roles
    <3>3. guest = 0 => Quiet'
      BY <1>1, <2>1 DEF SessionInv, Roles, Quiet, guestVars
    <3> QED
      BY <1>1, <3>1, <3>2, <3>3 DEF Roles
<1>4. Phases'
  BY <1>1, <1>2 DEF SessionInv, Phases, Quiet
<1>5. CASE remote
  <2>1. Quiet'
    BY <1>1, <1>2, <1>3, <1>5 DEF Roles
  <2> QED
    BY <1>3, <1>4, <2>1, QuietInvNext
<1>6. CASE ~remote
  <2>1. hState' = hState
    BY <1>1, <1>6
  <2>2. down' = down \/ \E n \in 1 .. 2 : UpdateModels(n)
    BY DEF LoadGame
  <2>3. CASE down' = down
    BY <1>1, <1>3, <1>4, <2>1, <2>3, SessionStill DEF wireVars
  <2>4. CASE \E n \in 1 .. 2 : UpdateModels(n)
    <3>1. PICK n \in 1 .. 2 : UpdateModels(n)
      BY <2>4
    <3>2. n \in Nat
      OBVIOUS
    <3> QED
      BY <1>1, <1>3, <1>4, <2>1, <3>1, <3>2, UpdateModelsKeeps
  <2> QED
    BY <2>2, <2>3, <2>4
<1> QED
  BY <1>5, <1>6

LEMMA RoleChangesKeep ==
    SessionInv /\ (DisableRemoteController \/ EnableRemoteController \/ LoadRemote)
        => SessionInv'
<1> SUFFICES ASSUME SessionInv,
                    DisableRemoteController \/ EnableRemoteController \/ LoadRemote
             PROVE  SessionInv'
  OBVIOUS
<1>1. Quiet' /\ guest' = 0
  BY DisconnectedIsQuiet DEF DisableRemoteController, EnableRemoteController, LoadRemote
<1>2. heard' = {} /\ ~noticed' /\ inFrame' = FALSE
  BY <1>1 DEF Quiet, DisableRemoteController, EnableRemoteController, LoadRemote, ChangeRole
<1>3. remote' => ~hosting'
  BY DEF SessionInv, Roles, DisableRemoteController, EnableRemoteController, LoadRemote,
         ShowRemote, Unload, Nothing, wrapperVars
<1>4. Roles' /\ Phases'
  BY <1>1, <1>2, <1>3 DEF Roles, Phases
<1> QED
  BY <1>1, <1>4, QuietInvNext

LEMMA RemoteEndsKeep == SessionInv /\ (Shutdown \/ LoseRemote) => SessionInv'
<1> SUFFICES ASSUME SessionInv, Shutdown \/ LoseRemote PROVE SessionInv'
  OBVIOUS
<1>1. remote /\ ~inFrame /\ hState' = 0 /\ remote' = FALSE
      /\ UNCHANGED <<hosting, inFrame, guest, guestVars, wireVars, heard, noticed>>
  BY DEF Shutdown, LoseRemote, RemoteControlling, ChangeRole, StopRemoteControl, PowerOffRemote,
         Unload, Nothing
<1>2. guest = 0 /\ Quiet
  BY <1>1 DEF SessionInv, Roles
<1>3. Quiet'
  BY <1>1, <1>2 DEF Quiet, guestVars, wireVars
<1>4. Roles' /\ Phases'
  BY <1>1, <1>2, <1>3 DEF SessionInv, Roles, Phases, Quiet
<1> QED
  BY <1>3, <1>4, QuietInvNext

-----------------------------------------------------------------------------
\* The wires.

LEMMA JoinKeeps == SessionInv /\ Join => SessionInv'
<1> SUFFICES ASSUME SessionInv, Join PROVE SessionInv'
  OBVIOUS
<1>1. Quiet'
  BY DEF SessionInv, Roles, Join, Quiet, hostVars, guestVars, wireVars
<1>2. Roles' /\ Phases'
  BY <1>1 DEF SessionInv, Roles, Phases, Join, hostVars, guestVars, wireVars, wrapperVars
<1> QED
  BY <1>1, <1>2, QuietInvNext

LEMMA LoseKeeps == SessionInv /\ Lose => SessionInv'
<1> SUFFICES ASSUME SessionInv, Lose PROVE SessionInv'
  OBVIOUS
<1>1. Quiet' /\ guest' = 0 /\ UNCHANGED <<hosting, remote, inFrame, hState>>
  BY DisconnectedIsQuiet DEF Lose, wrapperVars
<1>2. Roles' /\ Phases'
  BY <1>1 DEF SessionInv, Roles, Phases, Quiet
<1> QED
  BY <1>1, <1>2, QuietInvNext

\* Facts about the head of up.
LEMMA UpHead ==
    ASSUME TypeInv, SessionInv, Deliver
    PROVE  /\ guest # 0 /\ gState # 0
           /\ \A k : In(up, k) <=> Head(up).type = k \/ In(up', k)
           /\ \A k \in Required \cup {"hostInfo"} :
                 Once(up', k) /\ (Head(up).type = k => ~In(up', k))
           /\ \A k, x : Led(up, k, x) =>
                  Head(up).type # k /\ (Head(up).type = x \/ Led(up', k, x))
           /\ Head(up).type \in {"name", "mode", "audio", "reset", "hostInfo"}
<1>1. up \in Seq(UpEvents) /\ up # << >> /\ up' = Tail(up)
  BY DEF TypeInv, WireTypeOK, Deliver
<1>2. guest # 0 /\ gState # 0
  BY <1>1 DEF SessionInv, Roles, Quiet, Ungreeted
<1>3. /\ \A k : In(up, k) <=> Head(up).type = k \/ In(up', k)
      /\ \A k : Once(up, k) => Once(up', k) /\ (Head(up).type = k => ~In(up', k))
      /\ \A k, x : Led(up, k, x) =>
             Head(up).type # k /\ (Head(up).type = x \/ Led(up', k, x))
  BY <1>1, TailKinds
<1>4. \A k \in Required \cup {"hostInfo"} : Once(up, k)
  BY DEF SessionInv, Requests
<1>5. Head(up) \in UpEvents
  BY <1>1, HeadTailProperties
<1> QED
  BY <1>2, <1>3, <1>4, <1>5 DEF UpEvents

LEMMA DeliverRest ==
    ASSUME SessionInv, Deliver
    PROVE  /\ Roles' /\ Phases' /\ GuestCount' /\ HostCount' /\ NameIsGuests'
           /\ Fresh' = Fresh /\ InputReset' = InputReset
           /\ UNCHANGED <<got, heard, sentId, gState, guest, inputs>>
<1>1. UNCHANGED <<hostVars, guestVars, inputs, guest, noticed>> /\ up # << >>
  BY DEF Deliver
<1>2. guest # 0
  BY <1>1 DEF SessionInv, Roles, Quiet
<1>3. Roles' /\ Phases'
  BY <1>1, <1>2 DEF SessionInv, Roles, Phases, hostVars, wrapperVars
<1>4. GuestCount' /\ HostCount' /\ NameIsGuests'
  BY <1>1 DEF SessionInv, GuestCount, HostCount, NameIsGuests, Fresh, hostVars, guestVars
<1> QED
  BY <1>1, <1>3, <1>4 DEF Fresh, InputReset, hostVars, guestVars

LEMMA DeliverKeeps == TypeInv /\ SessionInv /\ Deliver => SessionInv'
<1> SUFFICES ASSUME TypeInv, SessionInv, Deliver PROVE SessionInv'
  OBVIOUS
<1> DEFINE e == Head(up)
<1>1. hq \in Seq(HostEvents) /\ down \in Seq(DownEvents) /\ up \in Seq(UpEvents)
  BY DEF TypeInv, WireTypeOK
<1>2. Ungreeted'
  BY DeliverRest, UpHead DEF Ungreeted
<1>3. CASE e.type = "hostInfo"
  <2> DEFINE s == <<Event("hostInfo"), Event("audio")>>
  <2>1. s \in Seq(DownEvents) /\ hq' = hq /\ down' = down \o s
    BY <1>3, UpHead, EventTypes, SMTT(30) DEF Deliver, Tell, Asked
  <2>2. /\ \A k : In(s, k) <=> k \in {"hostInfo", "audio"}
        /\ \A k : Once(s, k)
        /\ Led(s, "audio", "hostInfo")
    <3> DEFINE h == <<Event("hostInfo")>>
               a == Event("audio")
    <3>1. s = Append(h, a) /\ h \in Seq(DownEvents) /\ a \in DownEvents
      BY EventTypes DEF Asked
    <3>2. /\ \A k : In(h, k) <=> k = "hostInfo"
          /\ \A k : Once(h, k)
          /\ Led(h, "audio", "hostInfo")
      BY OneKind DEF Event
    <3>3. a.type = "audio"
      BY DEF Event
    <3> HIDE DEF s, h, a
    <3>4. /\ \A k : In(s, k) <=> In(h, k) \/ a.type = k
          /\ \A k : Once(h, k) /\ (a.type = k => ~In(h, k)) => Once(s, k)
          /\ \A k, x : Led(h, k, x) /\ (a.type = k => In(h, x)) => Led(s, k, x)
      BY <3>1, AppendKinds
    <3> QED
      BY <3>2, <3>3, <3>4
  <2> HIDE DEF s
  <2>3. /\ \A k : In(down', k) <=> In(down, k) \/ k \in {"hostInfo", "audio"}
        /\ \A k : Once(down, k) /\ (k \in {"hostInfo", "audio"} => ~In(down, k))
                   => Once(down', k)
        /\ Led(down, "audio", "hostInfo") => Led(down', "audio", "hostInfo")
    BY <1>1, <2>1, <2>2, ConcatKinds
  <2>4. \A k \in {"hostInfo", "audio"} : k \notin got /\ ~In(down, k)
    BY <1>3, UpHead DEF SessionInv, Requests
  <2>5. \A k \in Required : (In(up', k) <=> In(up, k))
    BY <1>3, UpHead DEF Required
  <2>6. ~In(up', "hostInfo")
    BY <1>3, UpHead
  <2>7. Requests'
    BY <2>1, <2>5, <2>6, DeliverRest, UpHead DEF SessionInv, Requests
  <2>8. Answers'
    BY <2>1, <2>3, <2>4, <2>5, DeliverRest DEF SessionInv, Answers, Required
  <2>9. Spares'
    <3>1. ~In(s, "mode")
      BY <2>2
    <3>2. Fresh => SparesAreLate(down', got)
      BY <1>1, <2>1, <3>1, ConcatSpares DEF SessionInv, Spares
    <3> QED
      BY <3>2, DeliverRest DEF Spares
  <2>10. Inputs'
    BY <1>3, <2>1, DeliverRest, UpHead DEF SessionInv, Inputs
  <2> QED
    BY <1>2, <2>7, <2>8, <2>9, <2>10, DeliverRest DEF SessionInv
<1>4. CASE e.type # "hostInfo"
  <2>1. e \in HostEvents /\ hq' = Append(hq, e) /\ down' = down
    <3>1. e \in UpEvents
      BY <1>1, HeadTailProperties DEF Deliver
    <3> QED
      BY <1>4, <3>1, EventTypes DEF Deliver
  <2>2. /\ \A k : In(hq', k) <=> In(hq, k) \/ e.type = k
        /\ \A k : Once(hq, k) /\ (e.type = k => ~In(hq, k)) => Once(hq', k)
        /\ \A k, x : Led(hq, k, x) /\ (e.type = k => In(hq, x)) => Led(hq', k, x)
    BY <1>1, <2>1, AppendKinds
  <2>3. \A k \in Required : /\ Once(up', k) /\ Once(hq', k)
                            /\ In(up', k) => ~In(hq', k) /\ k \notin heard'
                            /\ In(hq', k) => k \notin heard'
    BY <2>2, DeliverRest, UpHead DEF SessionInv, Requests
  <2>4. Requests'
    BY <1>4, <2>1, <2>3, DeliverRest, UpHead DEF SessionInv, Requests
  <2>5. Answers'
    BY <2>1, <2>2, DeliverRest, UpHead DEF SessionInv, Answers
  <2>6. Spares'
    BY <2>1, DeliverRest DEF SessionInv, Spares
  <2>7. \A i \in 1 .. Len(hq') : hq'[i].type = "input" => hq'[i].id \in 1 .. sentId'
    <3>1. e.type # "input"
      BY UpHead
    <3>2. \A i \in 1 .. Len(hq') : (i \in 1 .. Len(hq) /\ hq'[i] = hq[i]) \/ hq'[i] = e
      BY <1>1, <2>1
    <3> QED
      BY <3>1, <3>2, DeliverRest DEF SessionInv, Inputs
  <2>8. InputReset' \/ Led(hq', "mode", "reset")
    BY <2>2, DeliverRest, UpHead DEF SessionInv, Inputs
  <2>9. InputReset' \/ In(hq', "reset") \/ Led(up', "mode", "reset")
    BY <2>2, DeliverRest, UpHead DEF SessionInv, Inputs
  <2>10. Inputs'
    BY <2>7, <2>8, <2>9, DeliverRest DEF SessionInv, Inputs
  <2> QED
    BY <1>2, <2>4, <2>5, <2>6, <2>10, DeliverRest DEF SessionInv
<1> QED
  BY <1>3, <1>4

LEMMA DeliverInputKeeps == TypeInv /\ SessionInv /\ DeliverInput => SessionInv'
<1> SUFFICES ASSUME TypeInv, SessionInv, DeliverInput PROVE SessionInv'
  OBVIOUS
<1>1. PICK i \in inputs : inputs' = inputs \ {i} /\ hq' = Append(hq, Input(i))
  BY DEF DeliverInput
<1>2. hq \in Seq(HostEvents) /\ Input(i) \in HostEvents /\ i \in 1 .. sentId
  BY EventTypes DEF TypeInv, WireTypeOK, SessionInv, Inputs
<1>3. /\ UNCHANGED <<hosting, remote, inFrame, hState, info, lastId, buttons, heard, noticed,
                      guest, guestVars, up, down>>
      /\ guest # 0 /\ gState # 0
  BY <1>1 DEF DeliverInput, hostVars, wrapperVars, SessionInv, Roles, Quiet, Ungreeted
<1>4. Input(i).type = "input" /\ Input(i).id = i
  BY DEF Input
<1>5. /\ \A k : In(hq', k) <=> In(hq, k) \/ k = "input"
      /\ \A k : Once(hq, k) /\ k # "input" => Once(hq', k)
      /\ \A k, x : Led(hq, k, x) /\ k # "input" => Led(hq', k, x)
  <2> DEFINE e == Input(i)
  <2> HIDE DEF e
  <2>1. /\ \A k : In(hq', k) <=> In(hq, k) \/ e.type = k
        /\ \A k : Once(hq, k) /\ (e.type = k => ~In(hq, k)) => Once(hq', k)
        /\ \A k, x : Led(hq, k, x) /\ (e.type = k => In(hq, x)) => Led(hq', k, x)
    BY <1>1, <1>2, AppendKinds DEF e
  <2>2. e.type = "input"
    BY <1>4 DEF e
  <2> QED
    BY <2>1, <2>2
<1>6. Roles' /\ Phases' /\ Ungreeted'
  BY <1>3 DEF SessionInv, Roles, Phases, Ungreeted, guestVars
<1>7. Spares' /\ GuestCount' /\ HostCount' /\ NameIsGuests'
  BY <1>3 DEF SessionInv, Spares, GuestCount, HostCount, NameIsGuests, Fresh, guestVars
<1>8. Requests'
  BY <1>3, <1>5 DEF SessionInv, Requests, Required, guestVars
<1>9. Answers'
  BY <1>3, <1>5 DEF SessionInv, Answers, Fresh, guestVars
<1>10. Inputs'
  <2>1. \A j \in 1 .. Len(hq') : hq'[j].type = "input" => hq'[j].id \in 1 .. sentId'
    <3>1. \A j \in 1 .. Len(hq') : (j \in 1 .. Len(hq) /\ hq'[j] = hq[j]) \/ hq'[j] = Input(i)
      BY <1>1, <1>2
    <3> QED
      BY <1>2, <1>3, <1>4, <3>1 DEF SessionInv, Inputs, guestVars
  <2>2. inputs' \subseteq 1 .. sentId'
    BY <1>1, <1>3 DEF SessionInv, Inputs, guestVars
  <2>3. InputReset' = InputReset
    BY <1>3 DEF InputReset, guestVars
  <2> QED
    BY <1>3, <1>5, <2>1, <2>2, <2>3 DEF SessionInv, Inputs
<1> QED
  BY <1>6, <1>7, <1>8, <1>9, <1>10 DEF SessionInv

-----------------------------------------------------------------------------
\* The guest.

LEMMA GreetKeeps == TypeInv /\ SessionInv /\ Greet => SessionInv'
<1> SUFFICES ASSUME TypeInv, SessionInv, Greet PROVE SessionInv'
  OBVIOUS
<1>1. /\ UNCHANGED <<hosting, remote, inFrame, hState, info, lastId, buttons, heard, noticed,
                      guest, sentId, got, told, hq, down, inputs>>
      /\ guest # 0 /\ gState = 0 /\ gState' = 1
  BY DEF Greet, hostVars, wrapperVars, Connected
<1>2. /\ up = << >> /\ hq = << >> /\ inputs = {} /\ heard = {} /\ got = {}
      /\ \A k \in {"hostInfo", "audio"} : ~In(down, k)
  BY <1>1 DEF SessionInv, Ungreeted
<1> DEFINE a == <<Event("name")>>
           b == Append(a, Event("reset"))
           c == Append(b, Event("hostInfo"))
           d == Append(c, Event("mode"))
<1>3. up' = d
  <2>1. <<Event("name"), Event("reset"), Event("hostInfo"), Event("mode")>> \in Seq(UpEvents)
    BY EventTypes
  <2> QED
    BY <1>2, <2>1, ConcatEmptySeq DEF Greet
<1>4. Event("name").type = "name" /\ Event("reset").type = "reset"
      /\ Event("hostInfo").type = "hostInfo" /\ Event("mode").type = "mode"
  BY DEF Event
<1>5. /\ a \in Seq(UpEvents) /\ \A k : (In(a, k) <=> k = "name") /\ Once(a, k)
      /\ Led(a, "mode", "reset")
  BY <1>4, EventTypes, OneKind
<1> HIDE DEF a
<1>6. /\ b \in Seq(UpEvents) /\ \A k : (In(b, k) <=> k \in {"name", "reset"}) /\ Once(b, k)
      /\ Led(b, "mode", "reset")
  BY <1>4, <1>5, EventTypes, AppendKinds
<1> HIDE DEF b
<1>7. /\ c \in Seq(UpEvents)
      /\ \A k : (In(c, k) <=> k \in {"name", "reset", "hostInfo"}) /\ Once(c, k)
      /\ Led(c, "mode", "reset")
  BY <1>4, <1>6, EventTypes, AppendKinds
<1> HIDE DEF c
<1>8. /\ \A k : (In(d, k) <=> k \in {"name", "reset", "hostInfo", "mode"}) /\ Once(d, k)
      /\ Led(d, "mode", "reset")
  BY <1>4, <1>7, EventTypes, AppendKinds
<1> HIDE DEF d
<1>9. Roles' /\ Phases' /\ Ungreeted' /\ Spares' /\ HostCount' /\ NameIsGuests'
  BY <1>1 DEF SessionInv, Roles, Phases, Ungreeted, Spares, HostCount, NameIsGuests, Fresh
<1>10. GuestCount'
  BY <1>1, <1>2 DEF GuestCount, Bit, ExchangeData
<1>11. Requests'
  BY <1>1, <1>2, <1>3, <1>8, NoKinds DEF Requests
<1>12. Answers'
  BY <1>1, <1>2, <1>3, <1>8, NoKinds DEF SessionInv, Answers, Fresh
<1>13. Inputs'
  BY <1>1, <1>2, <1>3, <1>8 DEF SessionInv, Inputs, InputReset
<1> QED
  BY <1>9, <1>10, <1>11, <1>12, <1>13 DEF SessionInv

LEMMA SendInputKeeps == TypeInv /\ SessionInv /\ SendInput => SessionInv'
<1> SUFFICES ASSUME TypeInv, SessionInv, SendInput PROVE SessionInv'
  OBVIOUS
<1>1. /\ UNCHANGED <<hosting, remote, inFrame, hState, info, lastId, buttons, heard, noticed,
                      guest, gState, got, told, hq, up, down>>
      /\ guest # 0 /\ gState # 0
      /\ sentId \in Nat /\ sentId' = sentId + 1 /\ inputs' = inputs \cup {sentId + 1}
  BY DEF SendInput, hostVars, wrapperVars, ExchangeData, TypeInv, GuestTypeOK
<1>2. Roles' /\ Phases' /\ Ungreeted' /\ Requests' /\ Answers'
  BY <1>1 DEF SessionInv, Roles, Phases, Ungreeted, Requests, Answers, Fresh
<1>3. Spares' /\ GuestCount' /\ HostCount' /\ NameIsGuests'
  BY <1>1 DEF SessionInv, Spares, GuestCount, HostCount, NameIsGuests, Fresh
<1>4. Inputs'
  <2>1. InputReset => InputReset'
    BY <1>1 DEF InputReset, TypeInv, HostTypeOK
  <2>2. 1 .. sentId \subseteq 1 .. sentId' /\ sentId + 1 \in 1 .. sentId'
    BY <1>1
  <2>3. \A i \in 1 .. Len(hq') : hq'[i].type = "input" => hq'[i].id \in 1 .. sentId'
    BY <1>1, <2>2 DEF SessionInv, Inputs
  <2>4. inputs' \subseteq 1 .. sentId'
    BY <1>1, <2>2 DEF SessionInv, Inputs
  <2> QED
    BY <1>1, <2>1, <2>3, <2>4 DEF SessionInv, Inputs
<1> QED
  BY <1>2, <1>3, <1>4 DEF SessionInv

\* Facts about the head of down.
LEMMA DownHead ==
    ASSUME TypeInv, SessionInv, GuestEvent
    PROVE  /\ \A k : In(down, k) <=> Head(down).type = k \/ In(down', k)
           /\ \A k : Once(down, k) => Once(down', k) /\ (Head(down).type = k => ~In(down', k))
           /\ \A k, x : Led(down, k, x) =>
                  Head(down).type # k /\ (Head(down).type = x \/ Led(down', k, x))
           /\ Head(down).type \in Asked \cup {"start"}
           /\ \A k \in Asked : k \in got' <=> k \in got \/ Head(down).type = k
           /\ Fresh => SparesAreLate(down', got')
           /\ Fresh /\ Head(down).type = "mode" /\ "mode" \in got => Asked \subseteq got
<1>1. down \in Seq(DownEvents) /\ down # << >> /\ down' = Tail(down)
  BY DEF TypeInv, WireTypeOK, GuestEvent
<1>2. /\ \A k : In(down, k) <=> Head(down).type = k \/ In(down', k)
      /\ \A k : Once(down, k) => Once(down', k) /\ (Head(down).type = k => ~In(down', k))
      /\ \A k, x : Led(down, k, x) =>
             Head(down).type # k /\ (Head(down).type = x \/ Led(down', k, x))
  BY <1>1, TailKinds
<1>3. Head(down).type \in Asked \cup {"start"}
  <2>1. Head(down) \in DownEvents
    BY <1>1, HeadTailProperties
  <2> QED
    BY <2>1 DEF DownEvents
<1>4. \A k \in Asked : k \in got' <=> k \in got \/ Head(down).type = k
  BY DEF GuestEvent, GuestCounts, Asked
<1>5. ASSUME Fresh
      PROVE  /\ SparesAreLate(down', got')
             /\ Head(down).type = "mode" /\ "mode" \in got => Asked \subseteq got
  <2>1. SparesAreLate(down, got)
    BY <1>5 DEF SessionInv, Spares
  <2> QED
    BY <1>1, <1>4, <2>1, TailSpares
<1> QED
  BY <1>2, <1>3, <1>4, <1>5

\* The guest counts each kind once, but for modes that come when it has counted all.
LEMMA GuestCountKeeps ==
    ASSUME TypeInv, SessionInv, GuestEvent
    PROVE  GuestCount'
<1> DEFINE type == Head(down).type
           sum(S) == Bit(S, "name") + Bit(S, "hostInfo") + Bit(S, "audio") + Bit(S, "mode")
<1>1. Fresh' = Fresh /\ gState # 0
  BY DEF Fresh, GuestEvent, hostVars
<1> SUFFICES ASSUME Fresh
             PROVE  /\ gState' = ExchangeData => got' = Asked
                    /\ gState' \notin {0, ExchangeData} => gState' = 1 + sum(got')
  <2>1. \A S, k : Bit(S, k) \in Nat
    BY DEF Bit
  <2> QED
    BY <1>1, <2>1 DEF GuestCount
<1>2. /\ gState = ExchangeData => got = Asked
      /\ gState # ExchangeData => gState = 1 + sum(got)
  <2>1. \A S, k : Bit(S, k) \in Nat
    BY DEF Bit
  <2> QED
    BY <1>1, <2>1 DEF SessionInv, GuestCount
<1>3. got \subseteq Asked /\ got' \subseteq Asked /\ gState \in 0 .. 4 \cup {ExchangeData}
  BY DownHead DEF TypeInv, GuestTypeOK, GuestEvent, GuestCounts
<1>4. CASE type = "start"
  <2>1. UNCHANGED <<gState, got>>
    BY <1>4 DEF GuestEvent
  <2> QED
    BY <1>2, <2>1
<1>5. CASE type # "start"
  <2>1. type \in Asked /\ GuestCounts(type)
    BY <1>5, DownHead DEF GuestEvent
  <2>2. CASE type \in got
    <3>1. type = "mode"
      BY <2>1, <2>2, DownHead DEF SessionInv, Answers, Asked
    <3>2. got = Asked
      BY <1>3, <2>2, <3>1, DownHead
    <3>3. gState = ExchangeData
      BY <1>2, <1>3, <3>2 DEF Bit, Asked
    <3>4. gState' = ExchangeData /\ got' = got
      BY <2>1, <2>2, <3>3 DEF GuestCounts, Counted, GuestReady, ExchangeData, Connected
    <3> QED
      BY <3>2, <3>4
  <2>3. CASE type \notin got
    <3>1. gState # ExchangeData /\ gState = 1 + sum(got)
      BY <1>2, <2>1, <2>3
    <3>2. got' = got \cup {type}
      BY <2>1 DEF GuestCounts
    <3>3. sum(got') = sum(got) + 1
      BY <2>1, <2>3, <3>2 DEF Bit, Asked
    <3>4. sum(got) \in 0 .. 4
      BY DEF Bit
    <3>5. gState' = IF gState + 1 >= 5 THEN ExchangeData ELSE gState + 1
      BY <2>1, <3>1, <3>4 DEF GuestCounts, Counted, GuestReady, Connected, ExchangeData
    <3>6. sum(got') = 4 => got' = Asked
      <4>1. sum(got') = 4 => Asked \subseteq got'
        BY DEF Bit, Asked
      <4> QED
        BY <1>3, <4>1
    <3>7. sum(got') \in 0 .. 4
      BY DEF Bit
    <3> HIDE DEF sum
    <3> QED
      BY <3>1, <3>3, <3>4, <3>5, <3>6, <3>7 DEF ExchangeData
  <2> QED
    BY <2>2, <2>3
<1> QED
  BY <1>4, <1>5

LEMMA GuestEventKeeps == TypeInv /\ SessionInv /\ GuestEvent => SessionInv'
<1> SUFFICES ASSUME TypeInv, SessionInv, GuestEvent PROVE SessionInv'
  OBVIOUS
<1> DEFINE type == Head(down).type
<1>1. /\ UNCHANGED <<hosting, remote, inFrame, hState, info, lastId, buttons, heard, noticed,
                      guest, sentId, hq, inputs>>
      /\ guest # 0 /\ gState # 0 /\ gState' # 0
  <2>1. gState' # 0
    BY DEF GuestEvent, GuestCounts, Counted, GuestReady, ExchangeData, TypeInv, GuestTypeOK
  <2> QED
    BY <2>1 DEF GuestEvent, hostVars, wrapperVars
<1>2. Fresh' = Fresh /\ InputReset' = InputReset
  BY <1>1 DEF Fresh, InputReset
<1>3. /\ \A k : In(up', k) <=> In(up, k) \/ (k = "audio" /\ type = "audio")
      /\ \A k : Once(up, k) /\ (k = "audio" /\ type = "audio" => ~In(up, k)) => Once(up', k)
      /\ Led(up, "mode", "reset") => Led(up', "mode", "reset")
  <2>1. CASE type # "audio"
    BY <2>1 DEF GuestEvent, AnswerAudio
  <2>2. CASE type = "audio"
    <3> DEFINE e == Event("audio")
    <3>1. up' = Append(up, e) /\ up \in Seq(UpEvents) /\ e \in UpEvents /\ e.type = "audio"
      BY <2>2, EventTypes DEF GuestEvent, AnswerAudio, TypeInv, WireTypeOK, Event
    <3> HIDE DEF e
    <3>2. /\ \A k : In(up', k) <=> In(up, k) \/ e.type = k
          /\ \A k : Once(up, k) /\ (e.type = k => ~In(up, k)) => Once(up', k)
          /\ \A k, x : Led(up, k, x) /\ (e.type = k => In(up, x)) => Led(up', k, x)
      BY <3>1, AppendKinds
    <3> QED
      BY <2>2, <3>1, <3>2
  <2> QED
    BY <2>1, <2>2
<1>4. type = "audio" => /\ "audio" \notin got /\ "audio" \notin heard
                        /\ ~In(up, "audio") /\ ~In(hq, "audio") /\ "hostInfo" \in got
  BY DownHead DEF SessionInv, Answers
<1>5. Roles' /\ Phases' /\ Ungreeted' /\ HostCount' /\ NameIsGuests'
  BY <1>1 DEF SessionInv, Roles, Phases, Ungreeted, HostCount, NameIsGuests
<1>6. Requests'
  <2>1. \A k \in Required : /\ Once(up', k) /\ Once(hq', k)
                            /\ In(up', k) => ~In(hq', k) /\ k \notin heard'
                            /\ In(hq', k) => k \notin heard'
    BY <1>1, <1>3, <1>4 DEF SessionInv, Requests
  <2>2. Once(up', "hostInfo")
    BY <1>3 DEF SessionInv, Requests
  <2>3. In(up, "hostInfo") =>
           \A k \in {"hostInfo", "audio"} : k \in Asked /\ k \notin got /\ ~In(down, k)
    BY DEF SessionInv, Requests, Asked
  <2>4. In(up', "hostInfo") => \A k \in {"hostInfo", "audio"} : k \notin got' /\ ~In(down', k)
    BY <1>3, <2>3, DownHead
  <2> QED
    BY <2>1, <2>2, <2>4 DEF Requests
<1>7. Answers'
  <2>1. \A k \in {"name", "hostInfo", "audio"} :
           k \in Asked /\ Once(down, k) /\ (In(down, k) => k \notin got)
    BY DEF SessionInv, Answers, Asked
  <2>2. \A k \in {"name", "hostInfo", "audio"} :
           Once(down', k) /\ (In(down', k) => k \notin got')
    BY <2>1, DownHead
  <2>3. \A k \in Asked : In(down', k) \/ k \in got' <=> In(down, k) \/ k \in got
    BY DownHead
  <2>4. /\ "name" \in heard' <=> In(down', "name") \/ "name" \in got'
        /\ "mode" \in heard' => In(down', "mode") \/ "mode" \in got'
        /\ Fresh' => (In(down', "mode") \/ "mode" \in got' => "mode" \in heard')
    BY <1>1, <1>2, <2>3 DEF SessionInv, Answers, Asked
  <2>5. In(up', "audio") \/ In(hq', "audio") \/ "audio" \in heard' => "audio" \in got'
    BY <1>1, <1>3, DownHead DEF SessionInv, Answers, Asked
  <2>6. "hostInfo" \in got' \/ Led(down', "audio", "hostInfo")
    BY DownHead DEF SessionInv, Answers, Asked
  <2>7. "audio" \in got' => "hostInfo" \in got'
    BY <1>4, DownHead DEF SessionInv, Answers, Asked
  <2> QED
    BY <2>2, <2>4, <2>5, <2>6, <2>7 DEF Answers
<1>8. Spares'
  BY <1>2, DownHead DEF Spares
<1>9. Inputs'
  BY <1>1, <1>2, <1>3 DEF SessionInv, Inputs
<1> QED
  BY <1>5, <1>6, <1>7, <1>8, <1>9, GuestCountKeeps DEF SessionInv

-----------------------------------------------------------------------------

LEMMA SessionStep == TypeInv /\ SessionInv /\ [Next]_sessionVars => SessionInv'
<1> SUFFICES ASSUME TypeInv, SessionInv, [Next]_sessionVars PROVE SessionInv'
  OBVIOUS
<1>1. CASE UNCHANGED sessionVars
  <2>1. Roles' /\ Phases'
    BY <1>1 DEF SessionInv, Roles, Phases, Quiet, sessionVars, hostVars, guestVars, wireVars,
                wrapperVars
  <2> QED
    BY <1>1, <2>1, SessionStill DEF sessionVars, hostVars
<1>2. CASE Host
  BY <1>2, HostPollKeeps, HostEventKeeps, EndFrameKeeps DEF Host
<1>3. CASE User
  BY <1>3, LoadGameKeeps, RoleChangesKeep, RemoteEndsKeep DEF User
<1>4. CASE Wire
  BY <1>4, JoinKeeps, LoseKeeps, DeliverKeeps, DeliverInputKeeps DEF Wire
<1>5. CASE Player
  BY <1>5, GreetKeeps, GuestEventKeeps, SendInputKeeps DEF Player
<1> QED
  BY <1>1, <1>2, <1>3, <1>4, <1>5 DEF Next

LEMMA SessionInvariant == Spec => [](TypeInv /\ SessionInv)
BY TypeOfInit, SessionInvInit, TypeStep, SessionStep, PTL DEF Spec

\* A guest that exchanges data, in a session that the host began with it, got every
\* answer it asked for: its count of events is a count of kinds.
THEOREM GuestsGetAll == Spec => []InfoIsComplete
<1>1. SessionInv => InfoIsComplete
  BY DEF SessionInv, GuestCount, Fresh, InfoIsComplete
<1> QED
  BY <1>1, SessionInvariant, PTL

\* A host that exchanges data with a guest it noticed heard the three kinds of events
\* from this guest, and calls it by its name.
THEOREM HostsKnowTheirGuests == Spec => []HostKnowsGuest
<1>1. SessionInv => HostKnowsGuest
  BY DEF SessionInv, HostCount, NameIsGuests, HostKnowsGuest, Required
<1> QED
  BY <1>1, SessionInvariant, PTL

\* When a guest may send inputs, the host's memory of inputs is of this guest alone.
THEOREM GuestsAreHeard == Spec => []InputsAreHeard
<1>1. SessionInv => InputsAreHeard
  <2> SUFFICES ASSUME SessionInv, noticed, gState = ExchangeData
               PROVE  lastId <= sentId /\ buttons \in {0, guest}
    BY DEF InputsAreHeard
  <2>1. "mode" \in got
    BY DEF SessionInv, GuestCount, Fresh, Asked
  <2>2. "mode" \in heard
    BY <2>1 DEF SessionInv, Answers, Fresh
  <2> QED
    BY <2>2 DEF SessionInv, Inputs, InputReset
<1> QED
  BY <1>1, SessionInvariant, PTL
=============================================================================
