-------------------------------- MODULE Movie --------------------------------
(***************************************************************************)
(* Tracker::Movie (source/core/NstTrackerMovie.cpp): records what a game   *)
(* reads from its two ports to a file, and plays it back.  The file is a   *)
(* chunk of keys.  A key has the state it begins with, unless that is what *)
(* the key before it leads to, how many frames it is played for, and what  *)
(* was read from each port.  Only when the recording is stopped is the     *)
(* length of the file's chunk written: until then it is 0, or, for one     *)
(* that is appended to, what it was before.                                *)
(*                                                                         *)
(* A byte read in a frame is the number of the state the frame leads to:   *)
(* played in another frame, or from another state, it leads nowhere.       *)
(* Which ports are read depends on the state, and in some none is.  One    *)
(* file is followed: a clean recording begins an empty one.  A file is     *)
(* what a recorder wrote: nothing else is wrong with it.                   *)
(***************************************************************************)
EXTENDS Game

CONSTANTS
    MaxBuffer, \* MAX_BUFFER_BLOCK, in bytes
    MaxFaults  \* bound: times memory runs out or the program is killed

ASSUME MovieAssumption == MaxBuffer \in Nat \ {0} /\ MaxFaults \in Nat

VARIABLES
    movie,    \* whether there is a recorder or a player
    recorder, \* its state, dead unless recording
    player,   \* its state, dead unless playing
    file,     \* the file
    tape,     \* history: the states that stopped recordings led through
    session,  \* history: those of the recording that goes on
    played,   \* history: the frames played
    taped,    \* the states up to this one are the movie's
    faults    \* what is left of MaxFaults

fileVars  == <<file, tape>>
movieVars == <<movie, recorder, player, fileVars, session, played, taped, faults>>

Ports == {0, 1}

\* The ports the frame played from state s reads.
Reads(s) == {p \in Ports : s % 3 > p}

NoInput  == [p \in Ports |-> << >>]
BadFrame == -1
Unclosed == -1
BadByte  == Nowhere

IdleRecorder ==
    [resync |-> FALSE, frame |-> 0, input |-> NoInput, sav |-> Nowhere, inside |-> TRUE]
IdlePlayer ==
    [next |-> 1, frame |-> 0, input |-> NoInput, pos |-> [p \in Ports |-> 0]]

\* Not a movie, and a file with its first chunk begun.
NoFile    == [header |-> FALSE, length |-> Unclosed, keys |-> << >>]
CleanFile == [header |-> TRUE, length |-> Unclosed, keys |-> << >>]

-----------------------------------------------------------------------------
\* Recorder.

\* Mutant: appended frames are taken to begin where the file ends.
NewRecorderAtEnd(append) ==
    [IdleRecorder EXCEPT !.resync = ~append,
                         !.inside = append => file.length # Unclosed]

\* The chunk that is open is not the file's when its length is 0.
NewRecorder(append) ==
    [IdleRecorder EXCEPT !.resync = TRUE,
                         !.inside = append => file.length # Unclosed]

\* Begin writes the file's first chunk, or passes over what it has.
OpenFile(append) ==
    IF append THEN [file EXCEPT !.keys = IF file.length = Unclosed
                                         THEN << >> ELSE SubSeq(@, 1, file.length)]
              ELSE CleanFile

\* Mutant: LEN is the number of frames the key has.
KeyOfAllFrames(r) == [sav |-> r.sav, len |-> r.frame, input |-> r.input]

\* EndKey's LEN is that of the frames after the first.
KeyOf(r) == [sav |-> r.sav, len |-> r.frame - 1, input |-> r.input]

EndKey(r) == IF r.frame > 0 THEN Append(file.keys, KeyOf(r)) ELSE file.keys

\* Mutant: the buffers are not cleared.
BeginKeyOnTop(r) ==
    [r EXCEPT !.sav = IF r.resync THEN now ELSE Nowhere,
              !.frame = 1, !.resync = FALSE]

\* The frame is counted before it is played.
BeginKey(r) ==
    [r EXCEPT !.sav = IF r.resync THEN now ELSE Nowhere,
              !.frame = 1, !.input = NoInput, !.resync = FALSE]

KeyIsOver(r) == r.resync \/ \E p \in Ports : Len(r.input[p]) >= MaxBuffer

\* Without the ports' input, a state leads to one other only.
Following(s) == {t \in 1 .. Len(origin) : origin[t] = s}

RecordedFrame ==
    LET next == IF Reads(now) = {} /\ Following(now) # {}
                THEN CHOOSE t \in Following(now) : \A u \in Following(now) : t <= u
                ELSE NewState
    IN  /\ next \in States
        /\ now' = next /\ shown' = next
        /\ origin' = IF next = NewState THEN Append(origin, now) ELSE origin

\* Execute, and the frame.  Memory may run out when what is read is kept.
Record ==
    /\ movie = "recording" /\ recorder.frame # BadFrame
    /\ RecordedFrame
    /\ LET over  == KeyIsOver(recorder)
           begun == IF over THEN BeginKey(recorder)
                    ELSE [recorder EXCEPT !.frame = @ + 1]
           kept  == [begun EXCEPT !.input =
                        [p \in Ports |-> IF p \in Reads(now) THEN Append(@[p], now') ELSE @[p]]]
       IN  /\ file' = IF over THEN [file EXCEPT !.keys = EndKey(recorder),
                                                !.header = @ /\ recorder.inside]
                      ELSE file
           /\ \/ recorder' = kept /\ UNCHANGED faults
              \/ /\ Reads(now) # {} /\ faults > 0
                 /\ recorder' = [begun EXCEPT !.frame = BadFrame]
                 /\ faults' = faults - 1
    /\ session' = Append(session, now')
    /\ taped' = Len(origin')
    /\ UNCHANGED <<movie, player, tape, played>>

\* Stop(): the last key and the length of the file are written, unless memory
\* ran out.
CloseFile ==
    IF movie = "recording" /\ recorder.frame # BadFrame /\ recorder.inside
    THEN /\ file' = [file EXCEPT !.keys = EndKey(recorder), !.length = Len(EndKey(recorder))]
         /\ tape' = tape \o session
    ELSE UNCHANGED fileVars

\* The movie is deleted.
Idle ==
    /\ movie' = "none"
    /\ recorder' = IdleRecorder /\ player' = IdlePlayer
    /\ session' = << >> /\ played' = 0

EndMovie == CloseFile /\ Idle /\ UNCHANGED <<taped, faults>>

\* Memory ran out: nothing more is written.
FailRecording ==
    /\ movie = "recording" /\ recorder.frame = BadFrame
    /\ Idle
    /\ UNCHANGED <<fileVars, taped, faults>>

-----------------------------------------------------------------------------
\* Player.

\* Mutant: the state a key begins with is not loaded.
LoadedFromHere(k) == now

\* SAV is loaded when the key has one.
LoadedFrom(k) == IF k.sav = Nowhere THEN now ELSE k.sav

\* Peek.
Byte(pl, p) ==
    IF pl.pos[p] < Len(pl.input[p]) THEN pl.input[p][pl.pos[p] + 1] ELSE BadByte

\* What the frame played from state s leads to.
Played(pl, s) ==
    {t \in Following(s) : \A p \in Reads(s) : Byte(pl, p) = t}

NothingLeft == player.frame = 0 /\ player.next > file.length

\* Execute, and the frame.
Play ==
    /\ movie = "playing" /\ ~NothingLeft
    /\ LET k     == file.keys[player.next]
           same  == player.frame > 0
           begun == IF same THEN [player EXCEPT !.frame = @ - 1]
                    ELSE [next |-> player.next + 1, frame |-> k.len,
                          input |-> k.input, pos |-> [p \in Ports |-> 0]]
           from  == IF same THEN now ELSE LoadedFrom(k)
           next  == Played(begun, from)
       IN  /\ now' = IF next = {} THEN Nowhere ELSE CHOOSE t \in next : \A u \in next : t <= u
           /\ player' = [begun EXCEPT !.pos =
                            [p \in Ports |-> IF p \in Reads(from) THEN @[p] + 1 ELSE @[p]]]
    /\ shown' = now'
    /\ played' = played + 1
    /\ UNCHANGED <<origin, movie, recorder, fileVars, session, taped, faults>>

\* The end of the file.
EndPlaying ==
    /\ movie = "playing" /\ NothingLeft
    /\ Idle
    /\ UNCHANGED <<fileVars, taped, faults>>

-----------------------------------------------------------------------------
\* The user.  The caller says what the machine forgets.

\* Record and Play while the other goes on throw, and the tracker stops that;
\* so do Append to and Play of what is not a movie.
Refused(what) ==
    \/ what = "clean" /\ movie = "playing"
    \/ what = "append" /\ (movie = "playing" \/ ~file.header)
    \/ what = "play" /\ (movie = "recording" \/ ~file.header)

\* A recording that goes on, to another file, is stopped first.
BeginRecording(append) ==
    /\ movie = "recording" => ~append
    /\ movie' = "recording"
    /\ recorder' = NewRecorder(append)
    /\ file' = OpenFile(append)
    /\ tape' = IF append THEN tape ELSE << >>
    /\ session' = << >>
    /\ taped' = Len(origin')
    /\ UNCHANGED <<player, played, faults>>

BeginPlaying ==
    /\ movie = "none"
    /\ movie' = "playing"
    /\ player' = IdlePlayer
    /\ UNCHANGED <<recorder, fileVars, session, played, taped, faults>>

Resync ==
    recorder' = IF movie = "recording" THEN [recorder EXCEPT !.resync = TRUE] ELSE recorder

-----------------------------------------------------------------------------

MovieInit ==
    /\ movie = "none"
    /\ recorder = IdleRecorder /\ player = IdlePlayer
    /\ file = NoFile /\ tape = << >>
    /\ session = << >> /\ played = 0
    /\ taped = 1 /\ faults = MaxFaults

InputType == [Ports -> Seq(States)]
KeyOfFile ==
    [sav : {Nowhere} \cup States, len : Nat, input : InputType]

MovieTypeOK ==
    /\ movie \in {"none", "recording", "playing"}
    /\ recorder \in [resync : BOOLEAN, frame : {BadFrame} \cup Nat, input : InputType,
                     sav : {Nowhere} \cup States, inside : BOOLEAN]
    /\ player \in [next : Nat, frame : Nat, input : InputType, pos : [Ports -> Nat]]
    /\ file \in [header : BOOLEAN, length : {Unclosed} \cup Nat, keys : Seq(KeyOfFile)]
    /\ tape \in Seq(States) /\ session \in Seq(States)
    /\ played \in Nat /\ taped \in States /\ faults \in 0 .. MaxFaults
=============================================================================
