------------------------------ MODULE Database ------------------------------
(***************************************************************************)
(* Database.run (app/db/connection.py): the tasks of the event loop take   *)
(* turns at one sqlite3 connection, each with a function that runs in a    *)
(* worker thread.  A task holds an asyncio.Lock while it awaits its        *)
(* worker.  Cancelling the task frees the lock, but a worker that has      *)
(* begun goes on.                                                          *)
(*                                                                         *)
(* A function of app/db either reads, or writes one row inside "with       *)
(* conn".  The SELECTs that some put before or after their write are left  *)
(* out: they change nothing, and a write is what the others can undo.      *)
(* Python's sqlite3 sends BEGIN before the first INSERT, UPDATE or DELETE  *)
(* if no transaction is open, and the exit of the with statement commits,  *)
(* or rolls back, whatever transaction the connection has then.  It looks  *)
(* first and sends the statement afterwards; between the two another       *)
(* thread may get in.                                                      *)
(***************************************************************************)
EXTENDS Integers, Sequences, SequencesExt

CONSTANTS
    Tasks,       \* calls of Database.run
    Cancellable  \* those in a stream, which a client cancels by leaving

ASSUME DatabaseAssumption == Cancellable \subseteq Tasks

VARIABLES
    queue,      \* the tasks that hold (the first) or wait for the lock
    kind,       \* kind[t]: "read" or "write"
    job,        \* job[t]: how far the worker of t has come
    result,     \* result[t]: how the await of t ended
    open,       \* the connection has a transaction open
    pending,    \* the writes in that transaction, in order
    log,        \* the committed writes, in order
    dirty,      \* the reads that saw a write which was not committed
    asked,      \* history: the tasks in the order of their calls
    disturbed   \* history: tasks whose worker ran next to another one

connectionVars == <<open, pending, log, dirty>>
dbVars == <<queue, kind, job, result, connectionVars, asked, disturbed>>

\* A worker that is using the connection.
Using == {"looking", "beginning", "executing", "leaving", "committing", "failing"}
Jobs == Using \cup {"none", "queued", "submitted", "dropped", "returned", "raised"}

Active == {t \in Tasks : job[t] \in Using}

DbInit ==
    /\ queue = <<>> /\ asked = <<>> /\ log = <<>> /\ pending = <<>>
    /\ kind = [t \in Tasks |-> "read"]
    /\ job = [t \in Tasks |-> "none"]
    /\ result = [t \in Tasks |-> "none"]
    /\ open = FALSE
    /\ dirty = {} /\ disturbed = {}

Advance(t, j) == job' = [job EXCEPT ![t] = j]
----------------------------------------------------------------------------
(* The event loop. *)

\* Mutant: the last task that asked is the first to get the lock.
AskOutOfTurn(t, k) ==
    /\ job[t] = "none"
    /\ kind' = [kind EXCEPT ![t] = k]
    /\ queue' = IF queue = <<>> THEN <<t>> ELSE <<Head(queue), t>> \o Tail(queue)
    /\ asked' = Append(asked, t)
    /\ Advance(t, "queued")
    /\ UNCHANGED <<result, connectionVars>>

\* await db.run(fn): the task gets in line for the lock.
Ask(t, k) ==
    /\ job[t] = "none"
    /\ kind' = [kind EXCEPT ![t] = k]
    /\ queue' = Append(queue, t)
    /\ asked' = Append(asked, t)
    /\ Advance(t, "queued")
    /\ UNCHANGED <<result, connectionVars>>

\* Mutant: no lock.
SubmitUnlocked(t) ==
    /\ job[t] = "queued"
    /\ Advance(t, "submitted")
    /\ UNCHANGED <<queue, kind, result, asked, connectionVars>>

\* With the lock, fn is handed to the thread pool.
Submit(t) ==
    /\ queue # <<>> /\ t = Head(queue)
    /\ job[t] = "queued"
    /\ Advance(t, "submitted")
    /\ UNCHANGED <<queue, kind, result, asked, connectionVars>>

LeaveQueue(t) == \E i \in DOMAIN queue : queue[i] = t /\ queue' = RemoveAt(queue, i)

\* Mutant: acquire and release by hand, and no release on an error.
DeliverLocked(t) ==
    /\ result[t] = "none"
    /\ job[t] \in {"returned", "raised"}
    /\ result' = [result EXCEPT ![t] = IF job[t] = "returned" THEN "ok" ELSE "error"]
    /\ IF job[t] = "returned" THEN LeaveQueue(t) ELSE UNCHANGED queue
    /\ UNCHANGED <<job, kind, asked, connectionVars>>

\* The worker is done: its task goes on and leaves the lock.
Deliver(t) ==
    /\ result[t] = "none"
    /\ job[t] \in {"returned", "raised"}
    /\ result' = [result EXCEPT ![t] = IF job[t] = "returned" THEN "ok" ELSE "error"]
    /\ LeaveQueue(t)
    /\ UNCHANGED <<job, kind, asked, connectionVars>>

\* The task is cancelled: it leaves the lock, or the line.  What the pool has
\* not begun is dropped; what it has begun goes on.
Cancel(t) ==
    /\ t \in Cancellable
    /\ result' = [result EXCEPT ![t] = "cancelled"]
    /\ LeaveQueue(t)
    /\ IF job[t] \in {"queued", "submitted"} THEN Advance(t, "dropped") ELSE UNCHANGED job
    /\ UNCHANGED <<kind, asked, connectionVars>>
----------------------------------------------------------------------------
(* The worker threads. *)

\* A thread of the pool takes fn up.
Begin(t) ==
    /\ job[t] = "submitted"
    /\ Advance(t, "looking")
    /\ UNCHANGED connectionVars

\* A SELECT sees what the connection's own transaction has written.
Read(t) ==
    /\ job[t] = "looking"
    /\ kind[t] = "read"
    /\ dirty' = IF pending = <<>> THEN dirty ELSE dirty \cup {t}
    /\ Advance(t, "returned")
    /\ UNCHANGED <<open, pending, log>>

\* Before a write, sqlite3 asks whether a transaction is open ...
LookForTransaction(t) ==
    /\ job[t] = "looking"
    /\ kind[t] = "write"
    /\ Advance(t, IF open THEN "executing" ELSE "beginning")
    /\ UNCHANGED connectionVars

\* ... and if none was, sends BEGIN, which raises if one is by now.
BeginTransaction(t) ==
    /\ job[t] = "beginning"
    /\ open' = TRUE
    /\ Advance(t, IF open THEN "failing" ELSE "executing")
    /\ UNCHANGED <<pending, log, dirty>>

\* INSERT, UPDATE or DELETE.  Without a transaction it commits by itself.
Execute(t) ==
    /\ job[t] = "executing"
    /\ IF open
       THEN pending' = Append(pending, t) /\ UNCHANGED log
       ELSE log' = Append(log, t) /\ UNCHANGED pending
    /\ Advance(t, "leaving")
    /\ UNCHANGED <<open, dirty>>

\* The statement raises: a constraint, or a command holds the database locked.
ExecuteFails(t) ==
    /\ job[t] = "executing"
    /\ Advance(t, "failing")
    /\ UNCHANGED connectionVars

\* The exit of "with conn" looks for a transaction ...
LeaveWith(t) ==
    /\ job[t] = "leaving"
    /\ Advance(t, IF open THEN "committing" ELSE "returned")
    /\ UNCHANGED connectionVars

\* Mutant: no "with conn", and nobody commits.
CommitForgotten(t) ==
    /\ job[t] = "committing"
    /\ Advance(t, "returned")
    /\ open' = FALSE
    /\ pending' = <<>>
    /\ UNCHANGED <<log, dirty>>

\* ... and commits it, with everything in it; COMMIT raises if it is gone.
Commit(t) ==
    /\ job[t] = "committing"
    /\ Advance(t, IF open THEN "returned" ELSE "failing")
    /\ log' = log \o pending
    /\ open' = FALSE
    /\ pending' = <<>>
    /\ UNCHANGED dirty

\* Mutant: no "with conn", and nobody rolls back.
RollbackForgotten(t) ==
    /\ job[t] = "failing"
    /\ Advance(t, "raised")
    /\ UNCHANGED connectionVars

\* After an exception it rolls back what there is.
Rollback(t) ==
    /\ job[t] = "failing"
    /\ Advance(t, "raised")
    /\ open' = FALSE
    /\ pending' = <<>>
    /\ UNCHANGED <<log, dirty>>

Work(t) ==
    \/ Begin(t) \/ Read(t) \/ LookForTransaction(t) \/ BeginTransaction(t)
    \/ Execute(t) \/ ExecuteFails(t) \/ LeaveWith(t) \/ Commit(t) \/ Rollback(t)

WorkerStep(t) == Work(t) /\ UNCHANGED <<queue, kind, result, asked>>
----------------------------------------------------------------------------
WatchDisturbed ==
    disturbed' = IF \E t, u \in Active' : t # u THEN disturbed \cup Active' ELSE disturbed

DbNext ==
    /\ \E t \in Tasks :
          \/ \E k \in {"read", "write"} : Ask(t, k)
          \/ Submit(t) \/ Deliver(t) \/ Cancel(t)
          \/ WorkerStep(t)
    /\ WatchDisturbed

\* Every call has been made and every worker is done.
Quiet ==
    /\ \A t \in Tasks : job[t] \in {"dropped", "returned", "raised"} /\ result[t] # "none"
    /\ UNCHANGED dbVars

DbSpec == DbInit /\ [][DbNext \/ Quiet]_dbVars

\* The event loop runs its tasks and the operating system runs the threads.
FairDbSpec ==
    /\ DbSpec
    /\ \A t \in Tasks :
          /\ WF_dbVars((Submit(t) \/ Deliver(t)) /\ WatchDisturbed)
          /\ WF_dbVars(WorkerStep(t) /\ WatchDisturbed)
----------------------------------------------------------------------------
DbTypeOK ==
    /\ queue \in Seq(Tasks) /\ asked \in Seq(Tasks)
    /\ log \in Seq(Tasks) /\ pending \in Seq(Tasks)
    /\ kind \in [Tasks -> {"read", "write"}]
    /\ job \in [Tasks -> Jobs]
    /\ result \in [Tasks -> {"none", "ok", "error", "cancelled"}]
    /\ open \in BOOLEAN
    /\ dirty \subseteq Tasks /\ disturbed \subseteq Tasks

Stored(t) == t \in Range(log)

\* A call whose worker had the connection to itself is all or nothing: "ok" says
\* that its write is committed, an error or a dropped call that it is not, and
\* a read sees only what is committed.
UndisturbedIsAtomic ==
    \A t \in Tasks \ disturbed :
       /\ kind[t] = "write" /\ result[t] = "ok" => Stored(t)
       /\ job[t] \in {"dropped", "raised"} => ~Stored(t)
       /\ t \notin dirty

\* Two workers use the connection at once only if the task of one of them was
\* cancelled: the lock does its work for all others (connection.py:45).
OnlyStraysDisturb ==
    \A t, u \in Active : t # u => "cancelled" \in {result[t], result[u]}

\* However workers run into each other's transaction, no transaction stays open
\* behind them: the next call does not find a stranger's writes to commit.
NoTransactionLeftOpen == Active = {} => ~open /\ pending = <<>>

\* No write is committed twice, and those of undisturbed calls are committed in
\* the order of the calls; last_turn_id relies on that order (threads.py:179).
StoredInOrder ==
    /\ IsInjective(log)
    /\ \A i, j \in DOMAIN asked : \A m, n \in DOMAIN log :
          /\ i < j /\ {asked[i], asked[j]} \cap disturbed = {}
          /\ log[m] = asked[i] /\ log[n] = asked[j]
          => m < n

\* Every call returns, raises or is cancelled: whoever is cancelled, at whatever
\* point, the lock is not lost.
CallsEnd == \A t \in Tasks : job[t] = "queued" ~> result[t] # "none"

\* The docstring of Database, connection.py:22-25: "never hand the same
\* sqlite3.Connection to two threads concurrently".
OneThreadPerConnection == \A t, u \in Active : t = u
=============================================================================
