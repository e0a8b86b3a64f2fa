---------------------------- MODULE TurnRegistry ----------------------------
(***************************************************************************)
(* app/codex/service.py, TurnRegistry: the handle of the streamed turn of  *)
(* each thread, by which it can be interrupted.  A handle is named by the  *)
(* request whose turn it is.  The registry's own lock is never contended,  *)
(* because its critical sections do not suspend.                           *)
(***************************************************************************)
EXTENDS Domain

VARIABLES
    registry,  \* TurnRegistry._handles: thread -> handle or None
    tracked    \* the requests between their register and their unregister

registryVars == <<registry, tracked>>

RegistryInit ==
    /\ registry = [t \in Threads |-> NoRequest]
    /\ tracked = {}

\* register overwrites whatever handle the thread had.
Register(r, t) ==
    /\ registry' = [registry EXCEPT ![t] = r]
    /\ tracked' = tracked \cup {r}

\* Mutant: unregister in the outer finally, whether or not register was reached.
UnregisterAlways(r, t) ==
    /\ registry' = [registry EXCEPT ![t] = NoRequest]
    /\ tracked' = tracked \ {r}

\* The "finally: unregister" of stream_turn: nothing happens for a generator
\* that never registered, else the thread's handle is popped, whoever's it is.
Unregister(r, t) ==
    IF r \in tracked
    THEN /\ registry' = [registry EXCEPT ![t] = NoRequest]
         /\ tracked' = tracked \ {r}
    ELSE UNCHANGED registryVars

RegistryReset ==
    /\ registry' = [t \in Threads |-> NoRequest]
    /\ tracked' = {}

RegistryTypeOK ==
    /\ registry \in [Threads -> Requests \cup {NoRequest}]
    /\ tracked \subseteq Requests
=============================================================================
