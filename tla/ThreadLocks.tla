---------------------------- MODULE ThreadLocks ----------------------------
(***************************************************************************)
(* CodexService._thread_locks: one asyncio.Lock per thread id, created on  *)
(* demand and never removed.  asyncio.Lock is fair: whoever asks while the *)
(* lock is held, or while somebody waits, joins a FIFO queue.  The queue   *)
(* of a thread is kept as "who is ahead of me": ahead[r] is the set of the *)
(* requests that asked for the same lock before r and are still there.     *)
(***************************************************************************)
EXTENDS Domain

VARIABLES
    want,     \* want[r]: the thread whose lock r waits for or holds
    holding,  \* the requests that hold the lock they asked for
    ahead     \* ahead[r]: those queued on the same lock before r

lockVars == <<want, holding, ahead>>

LocksInit ==
    /\ want = [r \in Requests |-> NoThread]
    /\ holding = {}
    /\ ahead = [r \in Requests |-> {}]

\* The holder of the lock of t and everybody who waits for it.
Queue(t) == {r \in Requests : want[r] = t}

\* Mutant: whoever asks for a lock that is free gets it, past its waiters.
AcquireWhenFree(r, t) ==
    /\ want' = [want EXCEPT ![r] = t]
    /\ ahead' = [ahead EXCEPT ![r] = Queue(t)]
    /\ holding' = IF Queue(t) \cap holding = {} THEN holding \cup {r} ELSE holding

\* _lock_for(t) and lock.acquire(): at once when nobody holds or waits.
Acquire(r, t) ==
    /\ want' = [want EXCEPT ![r] = t]
    /\ ahead' = [ahead EXCEPT ![r] = Queue(t)]
    /\ holding' = IF Queue(t) = {} THEN holding \cup {r} ELSE holding

\* The first waiter of a lock wakes up once the lock is free.
WakeUp(r) ==
    /\ want[r] # NoThread
    /\ r \notin holding
    /\ ahead[r] = {}
    /\ holding' = holding \cup {r}
    /\ UNCHANGED <<want, ahead>>

\* Mutant: a waiter that is cancelled stays in the queue.
LeaveInQueue(S) ==
    /\ want' = [r \in Requests |-> IF r \in S THEN NoThread ELSE want[r]]
    /\ ahead' = [r \in Requests |-> IF r \in S THEN {} ELSE ahead[r] \ (S \cap holding)]
    /\ holding' = holding \ S

\* The requests in S are neither holders nor waiters any more.
Leave(S) ==
    /\ want' = [r \in Requests |-> IF r \in S THEN NoThread ELSE want[r]]
    /\ ahead' = [r \in Requests |-> IF r \in S THEN {} ELSE ahead[r] \ S]
    /\ holding' = holding \ S

\* Leaving "async with lock", or being cancelled while waiting for it.
LeaveLock(r) == Leave({r})

\* stream_turn's finally clause: "if lock.locked(): lock.release()".  It does
\* not ask who holds the lock, so it takes the lock from whoever does.
ReleaseIfLocked(r) == Leave({r} \cup {q \in holding : want[q] = want[r]})

LocksReset ==
    /\ want' = [r \in Requests |-> NoThread]
    /\ holding' = {}
    /\ ahead' = [r \in Requests |-> {}]

(***************************************************************************)
(* How the service uses the locks: a request asks for one lock at a time,  *)
(* and only a holder runs the release that does not check the owner.       *)
(***************************************************************************)
LocksNext ==
    \/ \E r \in Requests, t \in Threads : want[r] = NoThread /\ Acquire(r, t)
    \/ \E r \in Requests :
          \/ WakeUp(r)
          \/ want[r] # NoThread /\ LeaveLock(r)
          \/ r \in holding /\ ReleaseIfLocked(r)
    \/ LocksReset

LocksSpec == LocksInit /\ [][LocksNext]_lockVars
----------------------------------------------------------------------------
LocksTypeOK ==
    /\ want \in [Requests -> Threads \cup {NoThread}]
    /\ holding \subseteq Requests
    /\ ahead \in [Requests -> SUBSET Requests]

\* Requests on one lock are totally ordered by arrival, holders are first, and
\* whoever left a lock is in nobody's queue (Queue order of asyncio.Lock).
QueuesOrdered ==
    /\ \A r \in Requests : want[r] = NoThread => ahead[r] = {} /\ r \notin holding
    /\ \A r \in Requests : ahead[r] \subseteq Queue(want[r]) \ {r}
    /\ \A r, q \in Requests :
          r # q /\ want[r] = want[q] /\ want[r] # NoThread
             => r \in ahead[q] \/ q \in ahead[r]
    /\ \A r \in holding : ahead[r] = {}

\* Whenever a lock is wanted somebody is the first in its queue, who holds it or
\* can get it.
SomebodyIsFirst ==
    \A r \in Requests : want[r] # NoThread =>
       \E q \in Requests : want[q] = want[r] /\ ahead[q] = {}

\* Same-thread requests are served in the order they asked: a request never
\* gets the lock while one that asked before it still waits or holds.
NoOvertakingStep ==
    \A r, q \in Requests :
       r \in ahead[q] /\ q \in holding' => want'[r] = NoThread
NoOvertaking == [][NoOvertakingStep]_lockVars
=============================================================================
