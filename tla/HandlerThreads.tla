---------------------------- MODULE HandlerThreads ----------------------------
(***************************************************************************)
(* Threads other than RakNet's that meet a connection handler, in the two  *)
(* handlers where they do: the user's thread that queries a GUID checker,  *)
(* and the user's and the port-forwarding threads of a host.  The          *)
(* program makes the one or the other; they share nothing.                 *)
(***************************************************************************)
EXTENDS GuidChecker, PortForwarding

VARIABLE made \* which handlers the program makes

threadVars == <<vars, forwardVars, made>>

ThreadsInit ==
    /\ made \in {"checker", "hosts"}
    /\ Init
    /\ ForwardInit

ThreadsNext ==
    /\ UNCHANGED made
    /\ \/ made = "checker" /\ Next /\ UNCHANGED forwardVars
       \/ made = "hosts" /\ ForwardNext /\ UNCHANGED vars

\* Threads that can run do, and routers answer; g_asyncLock goes round, since
\* each of its threads holds it once.  Nobody has to stop a handler.
ThreadsFairness ==
    \A h \in Handler : WF_threadVars(ThreadStep(h) /\ UNCHANGED <<vars, made>>)

ThreadsSpec == ThreadsInit /\ [][ThreadsNext]_threadVars /\ ThreadsFairness
=============================================================================
