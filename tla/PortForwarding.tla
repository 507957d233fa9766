---------------------------- MODULE PortForwarding ----------------------------
(***************************************************************************)
(* The threads that a host's ConnectionHandlerRakNet leaves to themselves  *)
(* (source/remote_control/ConnectionHandlerRakNet.cpp): one asks the       *)
(* router to forward the handler's port and then calls the handler back;   *)
(* others ask it to remove the mapping.  They run one at a time, under     *)
(* g_asyncLock, and outlive their handler, which the user's thread stops   *)
(* and destroys at any moment.  g_globalLock guards the reference by which *)
(* they find the handler; m_portToForward is guarded by nothing.           *)
(*                                                                         *)
(* The wrapper makes a new handler, with a port of its own, for each game  *)
(* that is hosted: handler h + 1 after handler h was destroyed.            *)
(***************************************************************************)
EXTENDS Integers

CONSTANT MaxHandlers \* bound: handlers made one after the other

ASSUME HandlersAssumption == MaxHandlers \in Nat

Handler == 1 .. MaxHandlers

VARIABLES
    life,      \* each handler's life, and how far stopImpl has come
    begun,     \* RakNet's thread: between m_portToForward and the forwarder
    port,      \* m_portToForward # 0
    current,   \* m_portForwardAsyncData # nullptr
    ref,       \* the forwarder's AsyncData::ref # nullptr
    forwarder, \* the thread of doPortForwardingAsync
    removers,  \* threads that have still to remove the port's mapping
    async,     \* the holder of g_asyncLock
    mapped,    \* the ports the router forwards
    late       \* history: forwarding began when the handler was being stopped

handlerVars == <<life, begun, port, current>>
routerVars  == <<forwarder, removers, async, mapped>>
forwardVars == <<handlerVars, ref, routerVars, late>>

\* "detached", "removing": stopImpl has let go of the forwarder, and has begun to
\* remove the mapping; "stopped": it has joined RakNet's thread.
Lives      == {"none", "running", "detached", "removing", "stopped", "gone"}
Forwarders == {"none", "waiting", "asking", "telling", "done"}
Free       == [does |-> "nothing", h |-> 0]

Set(f, h, v) == f' = [f EXCEPT ![h] = v]

-----------------------------------------------------------------------------
\* The user's thread.

Make(h) ==
    /\ life[h] = "none"
    /\ \A g \in Handler : g < h => life[g] = "gone"
    /\ Set(life, h, "running")
    /\ UNCHANGED <<begun, port, current, ref, routerVars, late>>

\* Mutant: stopImpl forgets the forwarder, but not the forwarder the handler.
DetachOneSided(h) ==
    /\ life[h] = "running"
    /\ Set(life, h, "detached")
    /\ Set(current, h, FALSE)
    /\ UNCHANGED <<begun, port, ref, routerVars, late>>

\* stopImpl, under g_globalLock.
Detach(h) ==
    /\ life[h] = "running"
    /\ Set(life, h, "detached")
    /\ Set(current, h, FALSE)
    /\ ref' = [ref EXCEPT ![h] = @ /\ ~current[h]]
    /\ UNCHANGED <<begun, port, routerVars, late>>

\* removePortForwardingAsync.
RemoveForwarding(h) ==
    /\ life[h] = "detached"
    /\ Set(life, h, "removing")
    /\ Set(removers, h, removers[h] + (IF port[h] THEN 1 ELSE 0))
    /\ UNCHANGED <<begun, port, current, ref, forwarder, async, mapped, late>>

\* Shutdown waits for RakNet's thread.
Shutdown(h) ==
    /\ life[h] = "removing" /\ ~begun[h]
    /\ Set(life, h, "stopped")
    /\ Set(port, h, FALSE)
    /\ UNCHANGED <<begun, current, ref, routerVars, late>>

Destroy(h) ==
    /\ life[h] = "stopped"
    /\ Set(life, h, "gone")
    /\ UNCHANGED <<begun, port, current, ref, routerVars, late>>

StopStep(h) == Detach(h) \/ RemoveForwarding(h) \/ Shutdown(h)

-----------------------------------------------------------------------------
\* RakNet's thread, in onConnected(NAT server, true) the first time.

BeginForwarding(h) ==
    /\ life[h] \in {"running", "detached", "removing"}
    /\ ~port[h] /\ ~begun[h]
    /\ Set(port, h, TRUE) /\ Set(begun, h, TRUE)
    /\ UNCHANGED <<life, current, ref, routerVars, late>>

\* doPortForwardingAsync, under g_globalLock.
DoPortForwardingAsync(h) ==
    /\ begun[h]
    /\ Set(begun, h, FALSE)
    /\ Set(current, h, TRUE) /\ Set(ref, h, TRUE)
    /\ Set(forwarder, h, "waiting")
    /\ Set(late, h, life[h] # "running")
    /\ UNCHANGED <<life, port, removers, async, mapped>>

-----------------------------------------------------------------------------
\* The threads.

LockAsync(does, h) == async = Free /\ async' = [does |-> does, h |-> h]
UnlockAsync        == async' = Free

Forward(h) ==
    /\ forwarder[h] = "waiting"
    /\ LockAsync("forward", h)
    /\ Set(forwarder, h, "asking")
    /\ UNCHANGED <<handlerVars, ref, removers, mapped, late>>

\* The router may be of no help.
AskRouter(h) ==
    /\ forwarder[h] = "asking"
    /\ mapped' \in {mapped, mapped \cup {h}}
    /\ Set(forwarder, h, "telling")
    /\ UNCHANGED <<handlerVars, ref, removers, async, late>>

\* Mutant: nobody removes a mapping that came after its handler was stopped.
TellQuietly(h) ==
    /\ forwarder[h] = "telling"
    /\ Set(forwarder, h, "done") /\ UnlockAsync
    /\ current' = [current EXCEPT ![h] = @ /\ ~ref[h]]
    /\ Set(ref, h, FALSE)
    /\ UNCHANGED <<life, begun, port, removers, mapped, late>>

\* Under g_globalLock: the handler is called back, which reconnects to the NAT
\* server, or the mapping is to be removed again.
Tell(h) ==
    /\ forwarder[h] = "telling"
    /\ Set(forwarder, h, "done") /\ UnlockAsync
    /\ current' = [current EXCEPT ![h] = @ /\ ~ref[h]]
    /\ Set(removers, h, removers[h] + (IF ref[h] THEN 0 ELSE 1))
    /\ Set(ref, h, FALSE)
    /\ UNCHANGED <<life, begun, port, mapped, late>>

BeginRemoval(h) ==
    /\ removers[h] > 0
    /\ LockAsync("remove", h)
    /\ UNCHANGED <<handlerVars, ref, forwarder, removers, mapped, late>>

EndRemoval(h) ==
    /\ async = [does |-> "remove", h |-> h]
    /\ mapped' = mapped \ {h}
    /\ Set(removers, h, removers[h] - 1) /\ UnlockAsync
    /\ UNCHANGED <<handlerVars, ref, forwarder, late>>

ThreadStep(h) ==
    \/ DoPortForwardingAsync(h)
    \/ Forward(h) \/ AskRouter(h) \/ Tell(h)
    \/ BeginRemoval(h) \/ EndRemoval(h)

-----------------------------------------------------------------------------

ForwardInit ==
    /\ life = [h \in Handler |-> "none"]
    /\ begun = [h \in Handler |-> FALSE] /\ port = [h \in Handler |-> FALSE]
    /\ current = [h \in Handler |-> FALSE] /\ ref = [h \in Handler |-> FALSE]
    /\ forwarder = [h \in Handler |-> "none"]
    /\ removers = [h \in Handler |-> 0]
    /\ async = Free /\ mapped = {}
    /\ late = [h \in Handler |-> FALSE]

ForwardNext ==
    \E h \in Handler :
        Make(h) \/ StopStep(h) \/ Destroy(h) \/ BeginForwarding(h) \/ ThreadStep(h)

ForwardTypeOK ==
    /\ life \in [Handler -> Lives] /\ forwarder \in [Handler -> Forwarders]
    /\ begun \in [Handler -> BOOLEAN] /\ port \in [Handler -> BOOLEAN]
    /\ current \in [Handler -> BOOLEAN] /\ ref \in [Handler -> BOOLEAN]
    /\ removers \in [Handler -> 0 .. 2]
    /\ async \in [does : {"nothing", "forward", "remove"}, h : {0} \cup Handler]
    /\ mapped \subseteq Handler /\ late \in [Handler -> BOOLEAN]

\* "Prevent port forwarding async operation from invoking a callback on this
\* instance": a forwarder may reach a handler only while that is not being stopped,
\* unless RakNet's thread began to forward when stopImpl was past its detaching.
NoCallbackAfterStop ==
    \A h \in Handler : ref[h] => life[h] = "running" \/ late[h]

\* The router forwards no port of a handler that is gone, and never will again,
\* whichever of the threads that add and remove the mapping comes first: with the
\* same exception.
MappingIsRemoved ==
    \A h \in Handler :
        life[h] = "gone" ~>
            late[h] \/ (forwarder[h] \in {"none", "done"} /\ removers[h] = 0 /\ h \notin mapped)
=============================================================================
