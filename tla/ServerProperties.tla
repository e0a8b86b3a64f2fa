-------------------------- MODULE ServerProperties --------------------------
(***************************************************************************)
(* What makes the request handlers of CodexServer correct, the invariant   *)
(* behind it, and what the documentation says that the code does not do.   *)
(***************************************************************************)
EXTENDS CodexServer

TypeOK ==
    /\ LimiterTypeOK /\ LocksTypeOK /\ RegistryTypeOK /\ StoreTypeOK /\ BackendTypeOK
    /\ pc \in [Requests -> Locations]
    /\ handler \in [Requests -> Handlers \cup {"none"}]
    /\ client \in [Requests -> Clients \cup {NoClient}]
    /\ thread \in [Requests -> Threads \cup {NoThread}]
    /\ victim \in [Requests -> Requests \cup {NoRequest}]
    /\ late \subseteq Requests
    /\ answer \in [Requests -> Answers]
    /\ restarts \in 0..MaxRestarts

\* The tasks that are inside "async with job_limiter.slot()".
InSlot(r) == \/ pc[r] \in InCodex \cup Yielded \cup {"closing"}
             \/ pc[r] = "saving" /\ Streams(r)

\* On every path out of a handler (return, timeout, error, disconnect at any
\* await) the slot is left exactly once, so no slot leaks and none is counted
\* twice (concurrency.py:28-38 as its callers use it).
SlotsFollowTasks == \A r \in Requests : r \in slots <=> InSlot(r)

\* A request that has been served holds no thread lock and is registered as no
\* running turn (the finally clauses of service.py:273-274 and 295-297).
NothingLeaks ==
    \A r \in Requests :
       pc[r] \in {"idle", "admission", "done"} =>
          want[r] = NoThread /\ r \notin holding /\ r \notin tracked

\* The handle that interrupt_turn finds for a thread is that of the turn which
\* holds the thread's lock, and every registered turn can be found: neither
\* register nor unregister ever hits the entry of another turn.
RegistryExact ==
    /\ \A r \in tracked : /\ thread[r] \in Threads
                          /\ registry[thread[r]] = r
                          /\ r \in holding /\ want[r] = thread[r]
    /\ \A t \in Threads : registry[t] # NoRequest =>
                             registry[t] \in tracked /\ thread[registry[t]] = t

\* The server never awaits two turns of one thread at the same time.
OneTurnPerThread ==
    \A r, q \in Requests :
       /\ r # q
       /\ pc[r] \in {"starting", "turn", "relaying"}
       /\ pc[q] \in {"starting", "turn", "relaying"}
       => thread[r] # thread[q]

\* No wake-up is lost and no wait is circular: whoever waits for the lock of a
\* thread waits for a holder that waits for no lock, or the first of the waiters
\* can go on; and that one has no lock either.
NobodyWaitsInVain ==
    \A r \in Requests : pc[r] = "waiting" =>
       \E q \in Requests :
          /\ want[q] = thread[r]
          /\ ahead[q] = {}
          /\ pc[q] = "waiting" <=> q \notin holding

\* stream_turn releases a new thread's lock without asking who holds it: that
\* is harmless because nobody can queue on a thread before its id is known.
FreshThreadsUnlocked == \A t \in Threads : mode[t] = "none" => Queue(t) = {}

\* Whatever happens between the owner check and the turn, a turn runs only on a
\* thread its own client created, and with the sandbox the thread was created
\* with: no plain chat is ever resumed with the agent's sandbox.
TurnsStayWithOwner ==
    /\ \A r \in Requests : turn[r] # "none" =>
          /\ creator[thread[r]] = client[r]
          /\ mode[thread[r]] = ModeOf(handler[r])
    /\ \A table \in Tables, t \in Threads : HasRow(table, t) =>
          /\ creator[t] = rows[table][t].owner
          /\ mode[t] = IF table = "codex_threads" THEN "agent" ELSE "read_only"

\* The handle an interrupt gets hold of, and signals only after another await,
\* is that of a turn of the caller's own, on the thread the caller named.
InterruptsOwnTurn ==
    \A r \in Requests : pc[r] = "signalling" =>
       client[victim[r]] = client[r] /\ thread[victim[r]] = thread[r]

\* A client that was told "ok", and none of whose calls of the database ran next
\* to a stray worker, finds its work in the tables: a new thread has its row, and
\* the last turn of a resumed thread is the client's turn or one that began after
\* it, until the conversation is deleted, be it by a request that was disturbed;
\* only a stream whose client went away may leave its own turn there late.
AnsweredIsRecorded ==
    \A r \in Requests \ disturbed :
       answer[r] = "ok" /\ handler[r] \in TurnHandlers \ {"chat"} =>
       LET row == rows[TableOf(handler[r])][thread[r]]
       IN  \/ handler[r] \in Openers /\ row.owner = client[r]
           \/ handler[r] \in Resumers /\ \/ row.lastTurn = r
                                         \/ /\ row.lastTurn # NoRequest
                                            /\ \/ r \in earlier[row.lastTurn]
                                               \/ answer[row.lastTurn] = "gone"
           \/ \E q \in Requests : /\ handler[q] = "delete_conversation"
                                  /\ thread[q] = thread[r]
                                  /\ answer[q] = "ok" \/ q \in disturbed

\* last_turn_id never goes back to a turn that began earlier, although the row
\* is written only after the lock of the thread was released: only the write of
\* a stream that was cancelled in the middle of it can come too late.
LastTurnForward ==
    [][\A table \in Tables, t \in Threads :
          LET last == rows[table][t].lastTurn
              next == rows'[table][t].lastTurn
          IN  last # next /\ last # NoRequest /\ next # NoRequest /\ next \notin stray
                 => last \in earlier[next]]_vars

\* A deletion that was confirmed is final, whatever turn of the same thread was
\* under way: the conversation's row does not come back, the thread's row stays
\* archived, unless the deletion's own calls of the database ran next to a stray
\* worker, whose rollback takes the change with it.  And a row says archived only
\* of a thread the backend archived, strays or not.
DeletedStaysDeleted ==
    /\ \A r \in Requests \ disturbed : answer[r] = "ok" =>
          /\ handler[r] = "delete_conversation" =>
                ~HasRow("chat_conversations", thread[r])
          /\ handler[r] = "delete_thread" => rows["codex_threads"][thread[r]].archived
    /\ \A table \in Tables, t \in Threads :
          rows[table][t].archived => t \in archivedThreads

(***************************************************************************)
(* The handlers implement TurnGate.  A turn runs while the server awaits   *)
(* it; an error or a timeout on its way to the client is a refusal.        *)
(***************************************************************************)
Phase(r) ==
    IF pc[r] = "idle" \/ handler[r] \notin TurnHandlers THEN "away"
    ELSE CASE pc[r] \in {"starting", "turn", "relaying"} -> "running"
           [] pc[r] \in {"saving", "finishing"} -> "ended"
           [] pc[r] = "done" -> IF answer[r] = "ok" THEN "ok" ELSE "refused"
           [] pc[r] \in {"failing", "closing", "zombie"} -> "refused"
           [] OTHER -> "asked"

OfTurnRequest(r, value, none) == IF handler[r] \in TurnHandlers THEN value ELSE none

Gate == INSTANCE TurnGate WITH
    owner <- creator,
    caller <- [r \in Requests |-> OfTurnRequest(r, client[r], NoClient)],
    place <- [r \in Requests |-> OfTurnRequest(r, thread[r], NoThread)],
    phase <- [r \in Requests |-> Phase(r)]

\* Whatever limiter, locks, deadlines and disconnects do, turns keep to TurnGate:
\* one at a time per thread, on threads of the caller, "ok" only for a turn that
\* ran (app/routes/threads.py and chat.py as a whole).
TurnGateSpec == Gate!GateSpec

(***************************************************************************)
(* The inductive invariant: what the position of each task says about its  *)
(* handler, its thread, and the slot, lock and registry entry it has.      *)
(***************************************************************************)
HandlerFits(r) ==
    /\ pc[r] = "idle" => thread[r] = NoThread
    /\ pc[r] # "idle" => handler[r] \in AllHandlers /\ client[r] \in Clients
    /\ pc[r] = "checking" => handler[r] \in OwnedHandlers
    /\ pc[r] \in {"admission", "turn"} => handler[r] \in TurnHandlers
    /\ pc[r] = "opening" => handler[r] \in Openers
    /\ pc[r] \in {"waiting", "resuming"} => handler[r] \in Resumers
    /\ pc[r] \in {"archiving", "marking"} => handler[r] \in Deleters
    /\ pc[r] \in {"interrupting", "signalling"} => handler[r] = "interrupt_thread"
    /\ pc[r] \in {"starting", "closing", "zombie"} \cup Yielded => Streams(r)
    /\ pc[r] = "saving" => handler[r] \in TurnHandlers \ {"chat"}

\* Past thread_start or thread_resume, with a thread to show for it.
WithThread == {"starting", "turn", "announcing", "relaying", "finishing", "saving", "zombie"}

ThreadFits(r) ==
    /\ handler[r] \in OwnedHandlers /\ pc[r] # "idle" => thread[r] \in Threads
    /\ handler[r] \in OwnedHandlers /\ pc[r] \notin {"idle", "checking", "done"}
          => mode[thread[r]] # "none"
    /\ pc[r] \in WithThread => thread[r] \in Threads /\ mode[thread[r]] # "none"

HoldsItsLock(r) ==
    /\ r \in holding
    /\ want[r] = thread[r]
    /\ thread[r] \in Threads
    /\ mode[thread[r]] # "none"

\* The locations at which a task surely holds the lock of its thread.
Locked(r) ==
    \/ pc[r] \in {"resuming", "starting", "announcing", "relaying", "finishing", "zombie"}
    \/ pc[r] = "turn" /\ handler[r] # "chat"
    \/ pc[r] = "saving" /\ Streams(r)

LockFits(r) ==
    /\ Locked(r) => HoldsItsLock(r)
    /\ pc[r] = "waiting" => want[r] = thread[r] /\ r \notin holding
    /\ pc[r] \in {"failing", "closing"} => want[r] = NoThread \/ HoldsItsLock(r)
    /\ ~Locked(r) /\ pc[r] \notin {"waiting", "failing", "closing"} => want[r] = NoThread

TrackedFits(r) ==
    /\ Streams(r) /\ pc[r] \in {"turn", "relaying"} => r \in tracked
    /\ r \in tracked => Streams(r) /\ pc[r] \in {"turn", "relaying", "closing", "zombie"}

TaskInv(r) ==
    /\ r \in slots <=> InSlot(r)
    /\ HandlerFits(r) /\ ThreadFits(r) /\ LockFits(r) /\ TrackedFits(r)

\* The task of a stray write was cancelled with a thread to write about.
StrayFits ==
    \A r \in stray : /\ pc[r] \in {"zombie", "done"}
                     /\ thread[r] \in Threads
                     /\ mode[thread[r]] # "none"

RowsKnown == \A table \in Tables, t \in Threads : HasRow(table, t) => mode[t] # "none"

\* Where a task is suspended, in any handler, tells exactly what it holds; this
\* is what makes every other property of the resources inductive.
ServerInv ==
    /\ TypeOK /\ SlotsExact /\ QueuesOrdered /\ RegistryExact /\ RowsKnown
    /\ StrayFits
    /\ \A r \in Requests : TaskInv(r)

\* Every slot is given back, though the backend may never answer.
SlotsReturned == \A r \in Requests : r \in slots ~> r \notin slots

\* Every thread lock is given back, and nobody waits for one forever.
LocksReturned == \A r \in Requests : want[r] # NoThread ~> want[r] = NoThread

\* Every turn request that reaches the limiter is served to its end.
TurnRequestsServed == \A r \in Requests : pc[r] = "admission" ~> pc[r] = "done"
----------------------------------------------------------------------------
(* What the documentation says and the code does not do. *)

\* concurrency.py:11, "Global cap on concurrent Codex turns across all clients".
TurnsWithinCap == Cardinality({r \in Requests : turn[r] = "running"}) <= MaxJobs

\* concurrency.py:19-20, "Requests that arrive once capacity is full fail fast
\* with 429" (README.md:352 says the same).
OverCapacityIs429 ==
    [][\A r \in Requests :
          pc[r] = "admission" /\ pc'[r] = "done" /\ AtCapacity => answer'[r] = "busy"]_vars
=============================================================================
