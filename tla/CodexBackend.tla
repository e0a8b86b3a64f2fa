---------------------------- MODULE CodexBackend ----------------------------
(***************************************************************************)
(* The Codex app-server behind the SDK, which is not part of the           *)
(* repository: what app/codex/service.py assumes of it.  It keeps the      *)
(* threads it was asked to start, with the sandbox they were started with, *)
(* and runs the turns it was asked for.  It goes on with a turn whoever    *)
(* stops awaiting it: only turn.interrupt() ends a turn from outside.      *)
(***************************************************************************)
EXTENDS Domain

VARIABLES
    mode,             \* mode[t]: how thread t was started, "none" if it was not
    creator,          \* creator[t]: the client whose request started it
    archivedThreads,  \* the threads that were archived
    turn,             \* turn[r]: the state of the turn that request r asked for
    earlier           \* earlier[r]: the turns of the same thread begun before r's

backendVars == <<mode, creator, archivedThreads, turn, earlier>>
threadVars == <<mode, creator, archivedThreads>>

Modes == {"none", "ephemeral", "read_only", "agent"}

TurnStates == {"none", "requested", "running", "completed", "failed", "interrupted"}

Ended == {"completed", "failed", "interrupted"}
Begun == Ended \cup {"running"}

\* thread_start returns an id that was never seen before.
StartThread(t, m, c) ==
    /\ mode[t] = "none"
    /\ mode' = [mode EXCEPT ![t] = m]
    /\ creator' = [creator EXCEPT ![t] = c]
    /\ UNCHANGED archivedThreads

ArchiveThread(t) ==
    /\ archivedThreads' = archivedThreads \cup {t}
    /\ UNCHANGED <<mode, creator, turn, earlier>>

\* The server sends thread.run(prompt) or thread.turn(prompt).
RequestTurn(r) == turn' = [turn EXCEPT ![r] = "requested"]

BackendTypeOK ==
    /\ mode \in [Threads -> Modes]
    /\ creator \in [Threads -> Clients \cup {NoClient}]
    /\ archivedThreads \subseteq Threads
    /\ turn \in [Requests -> TurnStates]
    /\ earlier \in [Requests -> SUBSET Requests]
=============================================================================
