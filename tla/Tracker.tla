------------------------------- MODULE Tracker -------------------------------
(***************************************************************************)
(* Tracker (source/core/NstTracker.cpp): plays the frames of the machine,  *)
(* with a rewinder or a movie or neither, and never with both.  It forgets *)
(* the one when it makes the other, and tells them when the user resets    *)
(* the machine or loads a state, which is refused while they are in the    *)
(* way.  The calls of the user's interface (source/core/api) and Execute   *)
(* come from one thread, or under one lock.  A game is loaded.             *)
(***************************************************************************)
EXTENDS Rewinder, Movie

CONSTANTS
    MaxTaped,     \* bound: states recordings to one file lead to
    MaxFrames,    \* bound: frames of one file
    MaxAfterMovie \* bound: MaxStates once something was recorded

ASSUME TrackerAssumption ==
    MaxTaped \in States /\ MaxFrames \in Nat /\ MaxAfterMovie \in States

VARIABLES
    on,      \* the machine is on
    enabled, \* rewinderEnabled
    rewinder \* there is a rewinder

trackerVars == <<on, enabled, rewinder>>
vars        == <<trackerVars, rewinderVars, movieVars, gameVars>>

Limit == IF file = NoFile THEN MaxStates ELSE MaxAfterMovie

IsRewinding == rewinder /\ rewinding

\* Mutant: nothing is locked while a movie is played.
IsRewindingOnly == IsRewinding

IsLocked == IsRewinding \/ movie = "playing"

-----------------------------------------------------------------------------
\* Mutant: the rewinder lives on beside the movie.
KeepRewinder(enable) ==
    /\ rewinder' = (rewinder \/ enabled')
    /\ UNCHANGED rewinderVars

\* UpdateRewinderState: there is one while it is enabled and there is no movie.
UpdateRewinderState(enable) ==
    /\ rewinder' = (enable /\ enabled' /\ movie' = "none")
    /\ IF rewinder /\ rewinder' THEN UNCHANGED rewinderVars ELSE ForgetKeys

\* The same before and after a movie was tried.
RenewRewinder ==
    /\ rewinder' = (enabled /\ movie' = "none")
    /\ ForgetKeys

\* Mutant: a movie is not told.
ResyncRewinder == ForgetKeys /\ UNCHANGED recorder

\* Reset and Resync: whatever there is is told that the machine's state is new.
ResyncAll == ForgetKeys /\ Resync

-----------------------------------------------------------------------------
\* Execute.

ExecuteRewinder ==
    /\ rewinder /\ RewinderExecute /\ Len(origin') <= Limit
    /\ UNCHANGED <<trackerVars, movieVars>>

ExecuteAlone ==
    /\ ~rewinder /\ movie = "none"
    /\ LiveFrame /\ Len(origin') <= Limit
    /\ UNCHANGED <<trackerVars, rewinderVars, movieVars>>

ExecuteMovie ==
    /\ \/ Record /\ taped' <= MaxTaped /\ Len(tape \o session') <= MaxFrames
       \/ Play
    /\ UNCHANGED <<trackerVars, rewinderVars>>

\* The movie is over, and the frame is played without it.
ExecuteEnd ==
    /\ EndPlaying \/ FailRecording
    /\ UNCHANGED <<on, enabled>>
    /\ UpdateRewinderState(TRUE)
    /\ LiveFrame /\ Len(origin') <= Limit

Execute ==
    on /\ (ExecuteRewinder \/ ExecuteAlone \/ ExecuteMovie \/ ExecuteEnd)

-----------------------------------------------------------------------------
\* The user, between two calls of Execute.

StartRewinding ==
    /\ on /\ rewinder
    /\ Len(origin) + NumFrames <= Limit \* bound: what it takes to turn around
    /\ Start
    /\ UNCHANGED <<trackerVars, movieVars>>

StopRewinding ==
    /\ on /\ rewinder
    /\ Stop
    /\ UNCHANGED <<trackerVars, movieVars>>

ResetRewinder ==
    /\ stage = "idle" /\ on /\ rewinder
    /\ ForgetKeys /\ Forget(taped, now)
    /\ UNCHANGED <<trackerVars, movieVars>>

EnableRewinder ==
    /\ stage = "idle"
    /\ enabled' = ~enabled
    /\ UNCHANGED <<on, movieVars>>
    /\ UpdateRewinderState(TRUE)
    /\ IF rewinder THEN Forget(taped, now) ELSE UNCHANGED gameVars

RecordMovie(append) ==
    /\ stage = "idle" /\ ~Refused(IF append THEN "append" ELSE "clean")
    /\ Forget(IF append THEN taped ELSE Boot, now)
    /\ BeginRecording(append)
    /\ taped' < MaxTaped
    /\ UNCHANGED <<on, enabled>>
    /\ UpdateRewinderState(FALSE)

\* The machine is reset, or will be when it is turned on.
PlayMovie ==
    /\ stage = "idle" /\ ~Refused("play")
    /\ BeginPlaying
    /\ Forget(taped, Boot)
    /\ UNCHANGED <<on, enabled>>
    /\ UpdateRewinderState(FALSE)

\* Whatever went on is stopped by it, and the keys of the rewinder are lost.
RefuseMovie(what) ==
    /\ stage = "idle" /\ Refused(what)
    /\ EndMovie
    /\ Forget(taped, now)
    /\ UNCHANGED <<on, enabled>>
    /\ RenewRewinder

StopMovie ==
    /\ movie # "none"
    /\ EndMovie
    /\ UNCHANGED <<on, enabled, gameVars>>
    /\ UpdateRewinderState(TRUE)

\* Machine::Reset and Machine::LoadState of the interface.
ResetOrLoad ==
    /\ stage = "idle" /\ on /\ ~IsLocked
    /\ ResyncAll
    /\ Forget(taped, Boot)
    /\ UNCHANGED <<trackerVars, movie, player, fileVars, session, played, taped, faults>>

PowerOff ==
    /\ stage = "idle" /\ on
    /\ on' = FALSE
    /\ EndMovie
    /\ UNCHANGED <<enabled, gameVars>>
    /\ UpdateRewinderState(TRUE)

PowerOn ==
    /\ ~on /\ on' = TRUE
    /\ ResyncAll
    /\ Forget(taped, Boot)
    /\ UNCHANGED <<enabled, rewinder, movie, player, fileVars, session, played, taped, faults>>

\* The program is killed while it records, and started again.
Kill ==
    /\ movie = "recording" /\ faults > 0
    /\ faults' = faults - 1
    /\ Idle /\ Forget(taped, Boot)
    /\ on' = TRUE /\ enabled' = TRUE /\ rewinder' = TRUE
    /\ ForgetKeys
    /\ UNCHANGED <<fileVars, taped>>

-----------------------------------------------------------------------------

Init ==
    /\ GameInit /\ RewinderInit /\ MovieInit
    /\ on = TRUE /\ enabled = TRUE /\ rewinder = TRUE

Next ==
    \/ Execute
    \/ StartRewinding \/ StopRewinding \/ ResetRewinder \/ EnableRewinder
    \/ \E append \in BOOLEAN : RecordMovie(append)
    \/ PlayMovie \/ StopMovie
    \/ \E what \in {"clean", "append", "play"} : RefuseMovie(what)
    \/ ResetOrLoad \/ PowerOff \/ PowerOn \/ Kill

Spec == Init /\ [][Next]_vars

\* The emulation thread goes on calling Execute.  Nobody has to stop a movie or
\* to turn around.
FairSpec == Spec /\ WF_vars(Execute)

-----------------------------------------------------------------------------
(***************************************************************************)
(* Properties.                                                             *)
(***************************************************************************)

TypeOK ==
    /\ GameTypeOK /\ RewinderTypeOK /\ MovieTypeOK
    /\ on \in BOOLEAN /\ enabled \in BOOLEAN
    /\ rewinder = (enabled /\ movie = "none")

\* A movie is shown as it was recorded, frame for frame and to its last one:
\* whatever keys it was cut into, whether the machine was reset or a state was
\* loaded while it was recorded, whatever frames of the game read no port, and
\* however often it was stopped, appended to, failed or cut off by the end of
\* the program.  What was recorded when that happened is lost, nothing else.
PlaybackIsExact ==
    movie = "playing" =>
        /\ played <= Len(tape)
        /\ played > 0 => now = tape[played] /\ shown = now
        /\ NothingLeft <=> played = Len(tape)

\* The pictures that led to state s, with it; those of a movie are not followed
\* one from the other.
PastOf ==
    LET past[s \in 0 .. Len(origin)] ==
            IF s = Nowhere THEN << >>
            ELSE IF s <= taped THEN <<s>> ELSE Append(past[origin[s]], s)
    IN  past

\* What is seen on the screen is a game played picture by picture in both
\* directions: it never jumps at the border of two keys, at the ends of the ring
\* or when the direction changes, and goes on from the picture shown last.
\* Only when the keys run out is that one played anew.  It jumps for a movie, a
\* reset, a loaded state, and when the rewinder goes.
Watched == INSTANCE Timeline
    WITH Pictures <- States, past <- PastOf[shown], backward <- IsRewinding

WatchedSpec == Watched!Spec

\* What locks the machine ends by itself while it is on: the ring of keys is not
\* gone round in circles, nor a movie.
LockIsReleased == on /\ IsLocked ~> ~(on /\ IsLocked)
=============================================================================
