---------------------------- MODULE SystemWrapper ----------------------------
(***************************************************************************)
(* What NesSystemWrapper (source/mobile/NesSystemWrapper.cpp) believes of  *)
(* its Machine, and what the Machine is: a game that runs here, a game of  *)
(* another machine that is only shown here (REMOTE), or nothing.           *)
(*                                                                         *)
(* The wrapper clears its belief in the event EVENT_UNLOAD and sets it     *)
(* after the call that loads.  Its frames do nothing unless loaded.        *)
(*                                                                         *)
(* Every operator below is the wrapper's part of a step of RemoteSession,  *)
(* which adds what the step does to the connections.                       *)
(***************************************************************************)
EXTENDS Naturals

CONSTANTS
    Games,  \* files of games
    None    \* no file, no image

ASSUME WrapperAssumption == None \notin Games

VARIABLES
    loaded,  \* m_loaded
    file,    \* m_loadedFile
    game,    \* the file that Machine's image is of
    on,      \* ON
    remote   \* REMOTE

wrapperVars == <<loaded, file, game, on, remote>>

\* m_loaded && Is(REMOTE)
RemoteControlling == loaded /\ remote

Nothing == file' = None /\ game' = None /\ on' = FALSE /\ remote' = FALSE

\* Mutant: the wrapper does not handle the event.
UnloadUnheard ==
    /\ game' = None /\ on' = FALSE /\ remote' = FALSE
    /\ UNCHANGED <<loaded, file>>

\* Machine::Unload, and the wrapper's handler of EVENT_UNLOAD.
Unload == loaded' = FALSE /\ Nothing

\* OpenGameFileStream finds no game in an archive.
Unreadable == loaded' = FALSE /\ UNCHANGED <<file, game, on, remote>>

\* Machine::Load, SetMode to the game's region, and Power(true).
Insert(g) ==
    /\ loaded' = TRUE /\ file' = g /\ game' = g /\ on' = TRUE /\ remote' = FALSE

\* LoadRemote, when the client engine starts.
ShowRemote ==
    /\ loaded' = TRUE /\ file' = None /\ game' = None /\ on' = TRUE /\ remote' = TRUE

\* Power(false), which ends the remote session only.
PowerOffRemote ==
    /\ loaded' = FALSE /\ file' = None /\ on' = FALSE /\ remote' = FALSE
    /\ UNCHANGED game

WrapperInit ==
    /\ file \in Games \cup {None} /\ game = file
    /\ on = (file # None) /\ loaded = on
    /\ remote = FALSE

WrapperTypeOK ==
    /\ loaded \in BOOLEAN /\ on \in BOOLEAN /\ remote \in BOOLEAN
    /\ file \in Games \cup {None} /\ game \in Games \cup {None}

\* A wrapper that is loaded runs what it says: its machine is on, and plays the
\* file that is named, in no one else's session; while another machine is shown,
\* none of its own games is in the way.
RunsWhatItSays ==
    /\ loaded => on /\ (file # None => game = file /\ ~remote)
    /\ remote => game = None
=============================================================================
