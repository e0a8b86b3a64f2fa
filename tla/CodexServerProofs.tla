------------------------- MODULE CodexServerProofs -------------------------
(***************************************************************************)
(* What requests compete for: the limiter counts exactly, and the locks of *)
(* the threads are given out in FIFO order.  What a release without an     *)
(* owner check leaves behind depends on the whole queue, so the invariant  *)
(* of the locks is the order of the queues, QueuesOrdered.                 *)
(*                                                                         *)
(* Then the server they are parts of: ServerInv is inductive.  All of it   *)
(* for every set of requests, threads, clients and handlers and every cap. *)
(***************************************************************************)
EXTENDS ServerProperties, FiniteSetTheorems, TLAPS

LimiterInv == LimiterTypeOK /\ SlotsExact

\* The three facts of the inductive invariant: it holds in a new limiter, and
\* entering a slot, leaving one and restarting the process keep it.
LEMMA LimiterInductive ==
    /\ LimiterInit => LimiterInv
    /\ LimiterInv /\ [LimiterNext]_limiterVars => LimiterInv'
<1>1. LimiterInit => LimiterInv
  BY FS_EmptySet DEF LimiterInit, LimiterInv, LimiterTypeOK, SlotsExact
<1>2. ASSUME LimiterInv, [LimiterNext]_limiterVars
      PROVE  LimiterInv'
  <2> USE DEF LimiterInv, LimiterTypeOK, SlotsExact
  <2>1. ASSUME NEW r \in Requests \ slots, EnterSlot(r)
        PROVE  LimiterInv'
    <3>1. IsFiniteSet(slots') /\ Cardinality(slots') = Cardinality(slots) + 1
      BY <1>2, <2>1, FS_AddElement DEF EnterSlot
    <3>2. inUse < MaxJobs
      BY <1>2, <2>1, LimiterAssumption DEF EnterSlot, AtCapacity
    <3>3. QED
      BY <1>2, <2>1, <3>1, <3>2, LimiterAssumption DEF EnterSlot
  <2>2. ASSUME NEW r \in slots, ExitSlot(r)
        PROVE  LimiterInv'
    <3>1. IsFiniteSet(slots') /\ Cardinality(slots') = Cardinality(slots) - 1
      BY <1>2, <2>2, FS_RemoveElement DEF ExitSlot
    <3>2. Cardinality(slots') \in Nat
      BY <3>1, FS_CardinalityType
    <3>3. QED
      BY <1>2, <2>2, <3>1, <3>2, LimiterAssumption DEF ExitSlot
  <2>3. CASE LimiterReset
    BY <2>3, FS_EmptySet DEF LimiterReset
  <2>4. CASE UNCHANGED limiterVars
    BY <1>2, <2>4 DEF limiterVars
  <2>5. QED
    BY <1>2, <2>1, <2>2, <2>3, <2>4 DEF LimiterNext
<1>3. QED
  BY <1>1, <1>2

\* JobLimiter.slot: the number of requests inside never exceeds
\* max_concurrent_jobs, and _in_use is that number.
THEOREM LimiterCountsExactly == LimiterSpec => []SlotsExact
<1>1. LimiterInv => SlotsExact
  BY DEF LimiterInv
<1>2. QED
  BY LimiterInductive, <1>1, PTL DEF LimiterSpec
----------------------------------------------------------------------------
LocksInv == LocksTypeOK /\ QueuesOrdered

\* asyncio.Lock has one holder; two would each have to be ahead of the other.
OneHolder == \A r, q \in holding : want[r] = want[q] => r = q

LEMMA OrderedQueuesHaveOneHolder == LocksInv => OneHolder
BY DomainAssumption DEF LocksInv, LocksTypeOK, QueuesOrdered, OneHolder, Queue

\* A holder is alone on its lock, so the release without an owner check takes
\* the lock from nobody else: it is an ordinary release.
LEMMA ReleaseIfLockedIsLeaveLock ==
    ASSUME LocksInv, NEW r \in holding
    PROVE  ReleaseIfLocked(r) <=> LeaveLock(r)
<1>1. {r} \cup {q \in holding : want[q] = want[r]} = {r}
  BY OrderedQueuesHaveOneHolder DEF LocksInv, LocksTypeOK, OneHolder
<1>2. QED
  BY <1>1 DEF ReleaseIfLocked, LeaveLock

\* Whoever leaves, leaves every queue; the others keep their order.
LEMMA LeaveKeepsOrder ==
    ASSUME LocksInv, NEW S \in SUBSET Requests, Leave(S)
    PROVE  LocksInv'
BY DomainAssumption DEF LocksInv, LocksTypeOK, QueuesOrdered, Queue, Leave

\* A newcomer joins behind the whole queue.
LEMMA AcquireKeepsOrder ==
    ASSUME LocksInv, NEW r \in Requests, NEW t \in Threads,
           want[r] = NoThread, Acquire(r, t)
    PROVE  LocksInv'
<1> USE DomainAssumption DEF LocksInv, LocksTypeOK, QueuesOrdered, Queue, Acquire
<1>1. LocksTypeOK'
  OBVIOUS
<1>2. \A q \in Requests : want'[q] = IF q = r THEN t ELSE want[q]
  OBVIOUS
<1>3. \A q \in Requests : ahead'[q] = IF q = r THEN Queue(t) ELSE ahead[q]
  OBVIOUS
<1>4. \A q \in Requests : r \notin ahead[q]
  OBVIOUS
<1>5. \A q \in Requests : ahead'[q] \subseteq {p \in Requests : want'[p] = want'[q]} \ {q}
  BY <1>2, <1>3, <1>4
<1>6. \A q \in Requests : want'[q] = NoThread => ahead'[q] = {} /\ q \notin holding'
  BY <1>2, <1>3
<1>7. \A q \in holding' : ahead'[q] = {}
  BY <1>2, <1>3
<1>8. \A p, q \in Requests :
         p # q /\ want'[p] = want'[q] /\ want'[p] # NoThread
            => p \in ahead'[q] \/ q \in ahead'[p]
  BY <1>2, <1>3
<1>9. QED
  BY <1>1, <1>5, <1>6, <1>7, <1>8

\* The first waiter becomes the holder without moving in the queue.
LEMMA WakeUpKeepsOrder ==
    ASSUME LocksInv, NEW r \in Requests, WakeUp(r)
    PROVE  LocksInv'
BY DEF LocksInv, LocksTypeOK, QueuesOrdered, Queue, WakeUp

\* A restarted process has no lock held and no queue.
LEMMA ResetKeepsOrder ==
    ASSUME LocksReset
    PROVE  LocksInv'
BY DEF LocksInv, LocksTypeOK, QueuesOrdered, Queue, LocksReset

\* The three facts of the inductive invariant of the locks.
LEMMA LocksInductive ==
    /\ LocksInit => LocksInv
    /\ LocksInv /\ [LocksNext]_lockVars => LocksInv'
<1>1. LocksInit => LocksInv
  BY DEF LocksInit, LocksInv, LocksTypeOK, QueuesOrdered, Queue
<1>2. ASSUME LocksInv, [LocksNext]_lockVars
      PROVE  LocksInv'
  <2>1. ASSUME NEW r \in Requests, NEW t \in Threads, want[r] = NoThread, Acquire(r, t)
        PROVE  LocksInv'
    BY <1>2, <2>1, AcquireKeepsOrder
  <2>2. ASSUME NEW r \in Requests, WakeUp(r)
        PROVE  LocksInv'
    BY <1>2, <2>2, WakeUpKeepsOrder
  <2>3. ASSUME NEW r \in Requests, LeaveLock(r)
        PROVE  LocksInv'
    BY <1>2, <2>3, LeaveKeepsOrder DEF LeaveLock
  <2>4. ASSUME NEW r \in Requests, r \in holding, ReleaseIfLocked(r)
        PROVE  LocksInv'
    BY <1>2, <2>4, <2>3, ReleaseIfLockedIsLeaveLock
  <2>5. CASE LocksReset
    BY <2>5, ResetKeepsOrder
  <2>6. CASE UNCHANGED lockVars
    BY <1>2, <2>6 DEF lockVars, LocksInv, LocksTypeOK, QueuesOrdered, Queue
  <2>7. QED
    BY <1>2, <2>1, <2>2, <2>3, <2>4, <2>5, <2>6 DEF LocksNext
<1>3. QED
  BY <1>1, <1>2

\* Finitely many are at the locks, and whoever is ahead of somebody ahead of me is
\* ahead of me.
Wanting == {r \in Requests : want[r] # NoThread}
LinesFit ==
    /\ IsFiniteSet(Wanting)
    /\ \A r \in Requests : \A q \in ahead[r] : ahead[q] \subseteq ahead[r]

\* A queue without a first would have a smallest set of predecessors, and any of
\* these would have a smaller one.
LEMMA LinesHaveAFirst ==
    ASSUME LocksInv, LinesFit
    PROVE  SomebodyIsFirst
<1> SUFFICES ASSUME NEW r \in Requests, want[r] # NoThread
             PROVE  \E q \in Requests : want[q] = want[r] /\ ahead[q] = {}
  BY DEF SomebodyIsFirst
<1> DEFINE F == {ahead[q] : q \in Queue(want[r])}
           order == StrictSubsetOrdering(Wanting)
<1>1. ASSUME NEW q \in Queue(want[r])
      PROVE  ahead[q] \subseteq Wanting /\ ahead[q] \subseteq Queue(want[r]) \ {q}
  BY DEF LocksInv, LocksTypeOK, QueuesOrdered, Queue, Wanting
<1>2. F \subseteq FiniteSubsetsOf(Wanting)
  BY <1>1, FS_Subset DEF FiniteSubsetsOf, LinesFit
<1>3. F # {}
  BY DEF Queue
<1>4. IsWellFoundedOn(order, FiniteSubsetsOf(Wanting))
  BY FS_StrictSubsetOrderingWellFounded
<1>5. \E S \in F : \A U \in F : <<U, S>> \notin order
  <2> HIDE DEF F, order
  <2> QED
    BY <1>2, <1>3, <1>4, WFMin
<1>6. PICK q \in Queue(want[r]) : \A U \in F : <<U, ahead[q]>> \notin order
  BY <1>5
<1>7. ASSUME NEW p \in ahead[q]
      PROVE  FALSE
  <2>1. p \in Queue(want[r]) /\ p \notin ahead[p] /\ ahead[p] \subseteq ahead[q]
    BY <1>1, <1>6 DEF LinesFit, Queue
  <2>2. <<ahead[p], ahead[q]>> \in order
    BY <1>1, <1>6, <2>1 DEF StrictSubsetOrdering
  <2>3. QED
    BY <1>6, <2>1, <2>2
<1>8. QED
  BY <1>6, <1>7 DEF Queue

LEMMA LinesFitKept ==
    ASSUME LocksInv, LinesFit, [LocksNext]_lockVars
    PROVE  LinesFit'
<1>1. ASSUME NEW r \in Requests, NEW t \in Threads, want[r] = NoThread, Acquire(r, t)
      PROVE  LinesFit'
  <2>1. Wanting' = Wanting \cup {r}
    BY <1>1, DomainAssumption DEF Acquire, Wanting, LocksInv, LocksTypeOK
  <2>2. IsFiniteSet(Wanting')
    BY <2>1, FS_AddElement DEF LinesFit
  <2>3. /\ \A q \in Requests : ahead'[q] = IF q = r THEN Queue(t) ELSE ahead[q]
        /\ \A q \in Requests : r \notin ahead[q] /\ ahead[q] \subseteq Queue(want[q])
        /\ r \notin Queue(t)
    BY <1>1, DomainAssumption DEF Acquire, LocksInv, LocksTypeOK, QueuesOrdered, Queue
  <2>4. ASSUME NEW p \in Requests, NEW q \in ahead'[p]
        PROVE  ahead'[q] \subseteq ahead'[p]
    <3>1. CASE p = r
      <4>1. q \in Queue(t) /\ ahead'[p] = Queue(t) /\ q \in Requests /\ want[q] = t
        BY <2>3, <3>1 DEF Queue
      <4>2. ahead'[q] = ahead[q] /\ ahead[q] \subseteq Queue(want[q])
        BY <2>3, <4>1
      <4>3. QED
        BY <4>1, <4>2
    <3>2. CASE p # r
      <4>1. q \in ahead[p] /\ ahead'[p] = ahead[p] /\ q # r /\ q \in Requests
        BY <2>3, <3>2 DEF Queue
      <4>2. ahead'[q] = ahead[q]
        BY <2>3, <4>1
      <4>3. QED
        BY <4>1, <4>2 DEF LinesFit
    <3>3. QED
      BY <3>1, <3>2
  <2>5. QED
    BY <2>2, <2>4 DEF LinesFit
<1>2. ASSUME NEW r \in Requests, WakeUp(r)
      PROVE  LinesFit'
  BY <1>2 DEF WakeUp, LinesFit, Wanting
<1>3. ASSUME NEW r \in Requests, LeaveLock(r)
      PROVE  LinesFit'
  <2>1. Wanting' \in SUBSET Wanting
    BY <1>3 DEF LeaveLock, Leave, Wanting
  <2>2. IsFiniteSet(Wanting')
    BY <2>1, FS_Subset DEF LinesFit
  <2>3. \A q \in Requests : ahead'[q] = IF q = r THEN {} ELSE ahead[q] \ {r}
    BY <1>3 DEF LeaveLock, Leave
  <2>4. ASSUME NEW p \in Requests, NEW q \in ahead'[p]
        PROVE  ahead'[q] \subseteq ahead'[p]
    BY <2>3 DEF LinesFit, LocksInv, LocksTypeOK
  <2>5. QED
    BY <2>2, <2>4 DEF LinesFit
<1>4. ASSUME NEW r \in Requests, r \in holding, ReleaseIfLocked(r)
      PROVE  LinesFit'
  BY <1>3, <1>4, ReleaseIfLockedIsLeaveLock
<1>5. CASE LocksReset
  <2>1. Wanting' = {}
    BY <1>5 DEF LocksReset, Wanting
  <2>2. QED
    BY <1>5, <2>1, FS_EmptySet DEF LocksReset, LinesFit
<1>6. CASE UNCHANGED lockVars
  BY <1>6 DEF lockVars, LinesFit, Wanting
<1>7. QED
  BY <1>1, <1>2, <1>3, <1>4, <1>5, <1>6 DEF LocksNext

\* The queue of asyncio.Lock never loses its first: a lock that is wanted is held,
\* or can be taken at once.
THEOREM LocksHaveAFirst == LocksSpec => []SomebodyIsFirst
<1>1. LocksInit => LinesFit
  <2>1. LocksInit => Wanting = {}
    BY DEF LocksInit, Wanting
  <2>2. QED
    BY <2>1, FS_EmptySet DEF LocksInit, LinesFit
<1>2. LocksInv /\ LinesFit => SomebodyIsFirst
  BY LinesHaveAFirst
<1>3. QED
  BY <1>1, <1>2, LocksInductive, LinesFitKept, PTL DEF LocksSpec

\* asyncio.Lock is fair: nobody overtakes a request that asked before it.
THEOREM LocksAreFifo == LocksSpec => NoOvertaking
<1>1. LocksInv /\ LocksInv' /\ [LocksNext]_lockVars => [NoOvertakingStep]_lockVars
  <2> SUFFICES ASSUME LocksInv, LocksInv', [LocksNext]_lockVars,
                      NEW r \in Requests, NEW q \in Requests,
                      r \in ahead[q], q \in holding', lockVars' # lockVars
               PROVE  want'[r] = NoThread
    BY DEF NoOvertakingStep
  <2>1. want[q] # NoThread /\ q # r /\ ahead'[q] = {} /\ q \notin holding
    BY DEF LocksInv, LocksTypeOK, QueuesOrdered
  <2>2. ASSUME NEW p \in Requests, NEW t \in Threads, want[p] = NoThread, Acquire(p, t)
        PROVE  FALSE
    BY <2>1, <2>2 DEF Acquire, LocksInv, LocksTypeOK
  <2>3. ASSUME NEW p \in Requests, WakeUp(p)
        PROVE  FALSE
    BY <2>1, <2>3 DEF WakeUp
  <2>4. ASSUME NEW p \in Requests, LeaveLock(p)
        PROVE  want'[r] = NoThread
    BY <2>1, <2>4 DEF LeaveLock, Leave
  <2>5. ASSUME NEW p \in Requests, p \in holding, ReleaseIfLocked(p)
        PROVE  want'[r] = NoThread
    BY <2>4, <2>5, ReleaseIfLockedIsLeaveLock
  <2>6. CASE LocksReset
    BY <2>6 DEF LocksReset
  <2>7. QED
    BY <2>2, <2>3, <2>4, <2>5, <2>6 DEF LocksNext
<1>2. QED
  BY LocksInductive, <1>1, PTL DEF LocksSpec, NoOvertaking
----------------------------------------------------------------------------
\* A step of the task of r leaves every other task where it is, with what it
\* holds, and makes no thread unknown.
OthersKeep(r) ==
    /\ \A q \in Requests \ {r} :
          /\ pc'[q] = pc[q] /\ handler'[q] = handler[q]
          /\ client'[q] = client[q] /\ thread'[q] = thread[q]
          /\ want'[q] = want[q]
          /\ q \in holding' <=> q \in holding
          /\ q \in slots' <=> q \in slots
          /\ q \in tracked' <=> q \in tracked
    /\ \A t \in Threads : mode[t] # "none" => mode'[t] = mode[t]

\* What TaskInv says of a task depends only on what OthersKeep preserves.
LEMMA OtherTasksKeepTaskInv ==
    ASSUME NEW r \in Requests, OthersKeep(r), \A q \in Requests : TaskInv(q),
           TaskInv(r)'
    PROVE  \A q \in Requests : TaskInv(q)'
<1>1. SUFFICES ASSUME NEW q \in Requests \ {r}
               PROVE  TaskInv(q)'
  OBVIOUS
<1>2. /\ pc'[q] = pc[q] /\ handler'[q] = handler[q]
      /\ client'[q] = client[q] /\ thread'[q] = thread[q]
      /\ want'[q] = want[q]
      /\ q \in holding' <=> q \in holding
      /\ q \in slots' <=> q \in slots
      /\ q \in tracked' <=> q \in tracked
  BY DEF OthersKeep
<1>3. \A t \in Threads : mode[t] # "none" => mode'[t] = mode[t]
  BY DEF OthersKeep
<1>4. Streams(q)' <=> Streams(q)
  BY <1>2 DEF Streams
<1>5. (q \in slots <=> InSlot(q))'
  BY <1>2, <1>4 DEF TaskInv, InSlot
<1>6. HandlerFits(q)'
  BY <1>2, <1>4 DEF TaskInv, HandlerFits
<1>7. ThreadFits(q)'
  BY <1>2, <1>3 DEF TaskInv, ThreadFits
<1>8. LockFits(q)'
  <2>1. HoldsItsLock(q) => HoldsItsLock(q)'
    BY <1>2, <1>3 DEF HoldsItsLock
  <2>2. Locked(q)' <=> Locked(q)
    BY <1>2, <1>4 DEF Locked
  <2>3. QED
    BY <1>2, <2>1, <2>2 DEF TaskInv, LockFits
<1>9. TrackedFits(q)'
  BY <1>2, <1>4 DEF TaskInv, TrackedFits
<1>10. QED
  BY <1>5, <1>6, <1>7, <1>8, <1>9 DEF TaskInv

----------------------------------------------------------------------------
\* Whoever leaves a lock leaves it alone for the others.
LEMMA LeaveLockEffect ==
    ASSUME LocksInv, NEW r \in Requests, LeaveLock(r)
    PROVE  /\ [LocksNext]_lockVars
           /\ want'[r] = NoThread /\ r \notin holding'
           /\ \A q \in Requests \ {r} :
                 want'[q] = want[q] /\ (q \in holding' <=> q \in holding)
<1>1. CASE want[r] # NoThread
  BY <1>1 DEF LocksNext, LeaveLock, Leave, LocksInv, LocksTypeOK
<1>2. CASE want[r] = NoThread
  <2>1. want' = want /\ holding' = holding
    BY <1>2 DEF LeaveLock, Leave, LocksInv, LocksTypeOK, QueuesOrdered
  <2>2. \A q \in Requests : ahead[q] \ {r} = ahead[q]
    BY <1>2 DEF LocksInv, LocksTypeOK, QueuesOrdered, Queue
  <2>3. ahead' = ahead
    BY <1>2, <2>2 DEF LeaveLock, Leave, LocksInv, LocksTypeOK, QueuesOrdered
  <2>4. QED
    BY <1>2, <2>1, <2>3 DEF lockVars, LocksInv, QueuesOrdered
<1>3. QED
  BY <1>1, <1>2

\* Whoever asks for a lock gets it at once exactly when nobody has a claim.
LEMMA AcquireEffect ==
    ASSUME LocksInv, NEW r \in Requests, NEW t \in Threads,
           want[r] = NoThread, Acquire(r, t)
    PROVE  /\ [LocksNext]_lockVars
           /\ want'[r] = t
           /\ Queue(t) = {} => r \in holding'
           /\ \A q \in Requests \ {r} :
                 want'[q] = want[q] /\ (q \in holding' <=> q \in holding)
BY DEF LocksNext, Acquire, LocksInv, LocksTypeOK

\* The first waiter gets the lock and nobody else's place changes.
LEMMA WakeUpEffect ==
    ASSUME LocksInv, NEW r \in Requests, WakeUp(r)
    PROVE  /\ [LocksNext]_lockVars
           /\ want'[r] = want[r] /\ r \in holding'
           /\ \A q \in Requests \ {r} :
                 want'[q] = want[q] /\ (q \in holding' <=> q \in holding)
BY DEF LocksNext, WakeUp, LocksInv, LocksTypeOK

\* The finally clauses of stream_turn are an ordinary release wherever they
\* run: the task holds its own lock, or no lock at all, or only waits.
LEMMA GeneratorEndsLeavesLock ==
    ASSUME LocksInv, NEW r \in Requests, TaskInv(r),
           pc[r] \in InCodex \cup Yielded \cup {"zombie"}, Streams(r), GeneratorEnds(r)
    PROVE  LeaveLock(r)
<1>1. CASE r \in holding
  BY <1>1, ReleaseIfLockedIsLeaveLock DEF GeneratorEnds
<1>2. CASE pc[r] = "waiting"
  BY <1>2 DEF GeneratorEnds, TaskInv, HandlerFits
<1>3. CASE r \notin holding /\ pc[r] # "waiting"
  <2>1. want[r] = NoThread
    BY <1>3 DEF TaskInv, LockFits, HoldsItsLock, Locked, InCodex, Yielded, Streams, StreamTurns
  <2>2. {r} \cup {q \in holding : want[q] = want[r]} = {r}
    BY <2>1 DEF LocksInv, LocksTypeOK, QueuesOrdered
  <2>3. QED
    BY <1>3, <2>2 DEF GeneratorEnds, ReleaseIfLocked, LeaveLock
<1>4. QED
  BY <1>1, <1>2, <1>3

\* unregister removes the entry of its own task only.
LEMMA UnregisterEffect ==
    ASSUME RegistryTypeOK, RegistryExact, NEW r \in Requests, Unregister(r, thread[r]),
           OthersKeep(r)
    PROVE  r \notin tracked' /\ RegistryTypeOK' /\ RegistryExact'
<1>1. r \notin tracked' /\ RegistryTypeOK'
  BY DomainAssumption DEF Unregister, RegistryTypeOK, registryVars
<1>2. \A q \in Requests \ {r} : thread'[q] = thread[q] /\ want'[q] = want[q] /\ (q \in holding' <=> q \in holding)
  BY DEF OthersKeep
<1>3. CASE r \in tracked
  BY <1>2, <1>3, DomainAssumption DEF Unregister, RegistryTypeOK, RegistryExact
<1>4. CASE r \notin tracked
  BY <1>2, <1>4, DomainAssumption DEF Unregister, RegistryTypeOK, RegistryExact, registryVars
<1>5. QED
  BY <1>1, <1>3, <1>4

\* A step that leaves the registry alone keeps it exact, as long as a task that
\* is registered keeps its lock.
LEMMA RegistryKept ==
    ASSUME RegistryTypeOK, RegistryExact, NEW r \in Requests, UNCHANGED registryVars,
           OthersKeep(r),
           r \in tracked => want'[r] = want[r] /\ thread'[r] = thread[r] /\ r \in holding'
    PROVE  RegistryTypeOK' /\ RegistryExact'
<1>1. \A q \in tracked : thread'[q] = thread[q] /\ want'[q] = want[q] /\ q \in holding'
  BY DEF OthersKeep, RegistryTypeOK, RegistryExact
<1>2. QED
  BY <1>1, DomainAssumption DEF RegistryTypeOK, RegistryExact, registryVars
----------------------------------------------------------------------------
(* One step of one task. *)

TasksTypeOK ==
    /\ pc \in [Requests -> Locations]
    /\ handler \in [Requests -> Handlers \cup {"none"}]
    /\ client \in [Requests -> Clients \cup {NoClient}]
    /\ thread \in [Requests -> Threads \cup {NoThread}]
    /\ victim \in [Requests -> Requests \cup {NoRequest}]
    /\ late \subseteq Requests
    /\ answer \in [Requests -> Answers]
    /\ restarts \in 0..MaxRestarts

\* What a step of the task of r does, whichever it is.
StepOK(r) ==
    /\ TaskInv(r)' /\ OthersKeep(r)
    /\ [LimiterNext]_limiterVars /\ [LocksNext]_lockVars
    /\ RegistryTypeOK' /\ RegistryExact'

\* The parts of the invariant a step of r starts from.
ContextOf(r) ==
    /\ TasksTypeOK /\ RegistryTypeOK /\ RegistryExact /\ BackendTypeOK
    /\ TaskInv(r) /\ LocksInv /\ LimiterInv

\* The invariant gives a step of any task all it starts from.
LEMMA ServerInvContext ==
    ASSUME ServerInv, NEW r \in Requests
    PROVE  ContextOf(r)
BY DEF ContextOf, ServerInv, TypeOK, TasksTypeOK, LocksInv, LimiterInv

\* Leaving a lock, as the task that leaves it and the others see it.
LockLeft(r) ==
    /\ [LocksNext]_lockVars
    /\ want'[r] = NoThread /\ r \notin holding'
    /\ \A q \in Requests \ {r} : want'[q] = want[q] /\ (q \in holding' <=> q \in holding)

\* register adds an entry for a task that holds the lock of its thread, so it
\* overwrites nobody's.
LEMMA RegisterEffect ==
    ASSUME RegistryTypeOK, RegistryExact, LocksInv, NEW r \in Requests, Register(r, thread[r]),
           OthersKeep(r), r \in holding, want[r] = thread[r], thread[r] \in Threads,
           UNCHANGED <<thread, want, holding>>
    PROVE  RegistryTypeOK' /\ RegistryExact'
<1>1. \A q \in tracked \ {r} : thread[q] # thread[r]
  BY OrderedQueuesHaveOneHolder DEF RegistryTypeOK, RegistryExact, OneHolder
<1>2. QED
  BY <1>1, DomainAssumption DEF Register, RegistryTypeOK, RegistryExact

\* A request that passes the owner check is about a thread that was started.
LEMMA CheckOwnerStep ==
    ASSUME ServerInv, NEW r \in Requests, CheckOwner(r)
    PROVE  StepOK(r)
<1>1. TasksTypeOK /\ RegistryTypeOK /\ RegistryExact /\ BackendTypeOK /\ TaskInv(r)
  BY DEF ServerInv, TypeOK, TasksTypeOK
<1>2. UNCHANGED <<requestVars, limiterVars, lockVars, registryVars, backendVars>>
  BY DEF CheckOwner
<1>3. pc[r] = "checking" /\ handler[r] \in OwnedHandlers /\ client[r] \in Clients /\ thread[r] \in Threads
  BY <1>1 DEF CheckOwner, TaskInv, HandlerFits, ThreadFits
<1>4. \/ pc' = [pc EXCEPT ![r] = "done"]
      \/ /\ mode[thread[r]] # "none"
         /\ \/ pc' = [pc EXCEPT ![r] = "admission"] /\ handler[r] \in Resumers
            \/ pc' = [pc EXCEPT ![r] = "archiving"] /\ handler[r] \in Deleters
            \/ pc' = [pc EXCEPT ![r] = "interrupting"] /\ handler[r] = "interrupt_thread"
  <2>1. PICK owner \in OwnersSeen(TableOf(handler[r]), thread[r]) :
           IF owner = client[r]
           THEN Goto(r, CASE handler[r] \in TurnHandlers -> "admission"
                          [] handler[r] \in Deleters -> "archiving"
                          [] OTHER -> "interrupting")
           ELSE Finish(r, "notFound")
    BY DEF CheckOwner
  <2>2. CASE owner = client[r]
    <3>1. mode[thread[r]] # "none"
      <4>1. CASE owner = rows[TableOf(handler[r])][thread[r]].owner
        BY <1>3, <2>2, <4>1, DomainAssumption DEF ServerInv, RowsKnown, HasRow, TableOf, Tables
      <4>2. CASE \E q \in stray : thread[q] = thread[r]
        BY <4>2 DEF ServerInv, StrayFits
      <4>3. QED
        BY <2>1, <4>1, <4>2 DEF OwnersSeen
    <3>2. QED BY <1>3, <2>1, <2>2, <3>1 DEF Goto, OwnedHandlers, TurnHandlers, PlainTurns,
            StreamTurns, PlainOpeners, PlainResumers, Resumers, Deleters
  <2>3. CASE owner # client[r]
    BY <2>1, <2>3 DEF Finish, Goto
  <2>4. QED
    BY <2>2, <2>3
<1>5. OthersKeep(r)
  BY <1>1, <1>2, <1>4 DEF TasksTypeOK, OthersKeep, limiterVars, lockVars, registryVars, requestVars, backendVars
<1>6. TaskInv(r)'
  BY <1>1, <1>2, <1>3, <1>4 DEF TasksTypeOK, limiterVars, lockVars, registryVars, requestVars, backendVars,
     TaskInv, InSlot, HandlerFits, ThreadFits, LockFits, Locked, TrackedFits, Streams, InCodex, Yielded, WithThread,
     PlainOpeners, PlainResumers, PlainTurns, StreamTurns, Resumers, TurnHandlers, Deleters, AllHandlers
<1>7. RegistryTypeOK' /\ RegistryExact'
  BY <1>1, <1>2, <1>5, RegistryKept DEF lockVars, RegistryExact, requestVars
<1>8. QED
  BY <1>2, <1>5, <1>6, <1>7 DEF StepOK

\* A refusal at capacity moves one task to its end and touches nothing else.
LEMMA RefuseStep ==
    ASSUME ServerInv, NEW r \in Requests, Refuse(r)
    PROVE  StepOK(r)
<1>1. ContextOf(r)
  BY ServerInvContext
<1>2. UNCHANGED <<requestVars, limiterVars, lockVars, registryVars, backendVars>>
  BY DEF Refuse
<1>3. pc[r] = "admission" /\ handler[r] \in TurnHandlers
  BY <1>1 DEF Refuse, ContextOf, TaskInv, HandlerFits, Streams, Yielded, InCodex,
     PlainOpeners, PlainResumers, PlainTurns, StreamTurns, Openers, Resumers,
     TurnHandlers, Deleters, AllHandlers, OwnedHandlers
<1>4. pc' = [pc EXCEPT ![r] = "done"]
  BY <1>3 DEF Refuse, Goto, Finish, Streams
<1>5. OthersKeep(r)
  BY <1>1, <1>2, <1>3, <1>4 DEF OthersKeep, ContextOf, TasksTypeOK, LockLeft,
     requestVars, limiterVars, lockVars, registryVars, threadVars, backendVars
<1>6. TaskInv(r)'
  BY <1>1, <1>2, <1>3, <1>4 DEF ContextOf, TasksTypeOK, LockLeft, requestVars, limiterVars, lockVars, registryVars, threadVars, backendVars,
     TaskInv, InSlot, HandlerFits, ThreadFits, LockFits, Locked, HoldsItsLock, TrackedFits,
     Streams, InCodex, Yielded, WithThread,
     PlainOpeners, PlainResumers, PlainTurns, StreamTurns, Openers, Resumers,
     TurnHandlers, Deleters, AllHandlers, OwnedHandlers
<1>7. RegistryTypeOK' /\ RegistryExact'
  BY <1>1, <1>2, <1>5, RegistryKept DEF ContextOf, RegistryExact, lockVars, requestVars
<1>8. QED
  BY <1>2, <1>5, <1>6, <1>7 DEF StepOK, LockLeft

\* Entering the limiter takes a slot and nothing else.
LEMMA AdmitOpenerStep ==
    ASSUME ServerInv, NEW r \in Requests, AdmitOpener(r)
    PROVE  StepOK(r)
<1>1. ContextOf(r)
  BY ServerInvContext
<1>2. UNCHANGED <<requestVars, lockVars, registryVars, backendVars>>
  BY DEF AdmitOpener
<1>3. pc[r] = "admission" /\ handler[r] \in Openers
  BY <1>1 DEF AdmitOpener, ContextOf, TaskInv, HandlerFits, Streams, Yielded, InCodex,
     PlainOpeners, PlainResumers, PlainTurns, StreamTurns, Openers, Resumers,
     TurnHandlers, Deleters, AllHandlers, OwnedHandlers
<1>4. pc' = [pc EXCEPT ![r] = "opening"]
  BY <1>3 DEF AdmitOpener, Goto, Finish, Streams
<1>5. [LimiterNext]_limiterVars /\ slots' = slots \cup {r}
  BY <1>1, <1>3 DEF AdmitOpener, EnterSlot, LimiterNext, ContextOf, TaskInv, InSlot, InCodex, Yielded
<1>6. OthersKeep(r)
  BY <1>1, <1>2, <1>3, <1>4, <1>5 DEF OthersKeep, ContextOf, TasksTypeOK, LockLeft,
     requestVars, limiterVars, lockVars, registryVars, threadVars, backendVars
<1>7. TaskInv(r)'
  BY <1>1, <1>2, <1>3, <1>4, <1>5 DEF ContextOf, TasksTypeOK, LockLeft, requestVars, limiterVars, lockVars, registryVars, threadVars, backendVars,
     TaskInv, InSlot, HandlerFits, ThreadFits, LockFits, Locked, HoldsItsLock, TrackedFits,
     Streams, InCodex, Yielded, WithThread,
     PlainOpeners, PlainResumers, PlainTurns, StreamTurns, Openers, Resumers,
     TurnHandlers, Deleters, AllHandlers, OwnedHandlers
<1>8. RegistryTypeOK' /\ RegistryExact'
  BY <1>1, <1>2, <1>6, RegistryKept DEF ContextOf, RegistryExact, lockVars, requestVars
<1>9. QED
  BY <1>2, <1>6, <1>7, <1>8, <1>5 DEF StepOK, LockLeft

\* thread_resume of a stream: the task keeps its lock and slot.
LEMMA StreamResumedStep ==
    ASSUME ServerInv, NEW r \in Requests, StreamResumed(r)
    PROVE  StepOK(r)
<1>1. ContextOf(r)
  BY ServerInvContext
<1>2. UNCHANGED <<requestVars, limiterVars, lockVars, registryVars, backendVars>>
  BY DEF StreamResumed
<1>3. pc[r] = "resuming" /\ handler[r] = "stream_existing_thread"
  BY <1>1 DEF StreamResumed, ContextOf, TaskInv, HandlerFits, Streams, Yielded, InCodex,
     PlainOpeners, PlainResumers, PlainTurns, StreamTurns, Openers, Resumers,
     TurnHandlers, Deleters, AllHandlers, OwnedHandlers
<1>4. pc' = [pc EXCEPT ![r] = "announcing"]
  BY <1>3 DEF StreamResumed, Goto, Finish, Streams
<1>5. OthersKeep(r)
  BY <1>1, <1>2, <1>3, <1>4 DEF OthersKeep, ContextOf, TasksTypeOK, LockLeft,
     requestVars, limiterVars, lockVars, registryVars, threadVars, backendVars
<1>6. TaskInv(r)'
  BY <1>1, <1>2, <1>3, <1>4 DEF ContextOf, TasksTypeOK, LockLeft, requestVars, limiterVars, lockVars, registryVars, threadVars, backendVars,
     TaskInv, InSlot, HandlerFits, ThreadFits, LockFits, Locked, HoldsItsLock, TrackedFits,
     Streams, InCodex, Yielded, WithThread,
     PlainOpeners, PlainResumers, PlainTurns, StreamTurns, Openers, Resumers,
     TurnHandlers, Deleters, AllHandlers, OwnedHandlers
<1>7. RegistryTypeOK' /\ RegistryExact'
  BY <1>1, <1>2, <1>5, RegistryKept DEF ContextOf, RegistryExact, lockVars, requestVars
<1>8. QED
  BY <1>2, <1>5, <1>6, <1>7 DEF StepOK, LockLeft

\* thread_resume of a plain request: the task keeps its lock and slot.
LEMMA ThreadResumedStep ==
    ASSUME ServerInv, NEW r \in Requests, ThreadResumed(r)
    PROVE  StepOK(r)
<1>1. ContextOf(r)
  BY ServerInvContext
<1>2. UNCHANGED <<requestVars, limiterVars, lockVars, registryVars, threadVars>>
  BY DEF ThreadResumed
<1>3. pc[r] = "resuming" /\ handler[r] \in PlainResumers
  BY <1>1 DEF ThreadResumed, ContextOf, TaskInv, HandlerFits, Streams, Yielded, InCodex,
     PlainOpeners, PlainResumers, PlainTurns, StreamTurns, Openers, Resumers,
     TurnHandlers, Deleters, AllHandlers, OwnedHandlers
<1>4. pc' = [pc EXCEPT ![r] = "turn"]
  BY <1>3 DEF ThreadResumed, Goto, Finish, Streams
<1>5. OthersKeep(r)
  BY <1>1, <1>2, <1>3, <1>4 DEF OthersKeep, ContextOf, TasksTypeOK, LockLeft,
     requestVars, limiterVars, lockVars, registryVars, threadVars, backendVars
<1>6. TaskInv(r)'
  BY <1>1, <1>2, <1>3, <1>4 DEF ContextOf, TasksTypeOK, LockLeft, requestVars, limiterVars, lockVars, registryVars, threadVars, backendVars,
     TaskInv, InSlot, HandlerFits, ThreadFits, LockFits, Locked, HoldsItsLock, TrackedFits,
     Streams, InCodex, Yielded, WithThread,
     PlainOpeners, PlainResumers, PlainTurns, StreamTurns, Openers, Resumers,
     TurnHandlers, Deleters, AllHandlers, OwnedHandlers
<1>7. RegistryTypeOK' /\ RegistryExact'
  BY <1>1, <1>2, <1>5, RegistryKept DEF ContextOf, RegistryExact, lockVars, requestVars
<1>8. QED
  BY <1>2, <1>5, <1>6, <1>7 DEF StepOK, LockLeft

\* thread.run returns: lock and slot go together, in a task registered nowhere.
LEMMA RunReturnsStep ==
    ASSUME ServerInv, NEW r \in Requests, RunReturns(r)
    PROVE  StepOK(r)
<1>1. ContextOf(r)
  BY ServerInvContext
<1>2. UNCHANGED <<requestVars, registryVars, backendVars>>
  BY DEF RunReturns
<1>3. pc[r] = "turn" /\ ~Streams(r) /\ handler[r] \in TurnHandlers
  BY <1>1 DEF RunReturns, ContextOf, TaskInv, HandlerFits, Streams, Yielded, InCodex,
     PlainOpeners, PlainResumers, PlainTurns, StreamTurns, Openers, Resumers,
     TurnHandlers, Deleters, AllHandlers, OwnedHandlers
<1>4. \/ handler[r] = "chat" /\ pc' = [pc EXCEPT ![r] = "done"]
      \/ handler[r] # "chat" /\ pc' = [pc EXCEPT ![r] = "saving"]
  BY <1>3 DEF RunReturns, Goto, Finish, Streams
<1>5. r \in slots
  BY <1>1, <1>3 DEF ContextOf, TaskInv, InSlot, InCodex, Yielded
<1>6. [LimiterNext]_limiterVars /\ slots' = slots \ {r}
  BY <1>5 DEF RunReturns, LeaveLockAndSlot, ExitSlot, LimiterNext
<1>7. LeaveLock(r)
  BY DEF RunReturns, LeaveLockAndSlot
<1>8. LockLeft(r)
  BY <1>1, <1>7, LeaveLockEffect DEF LockLeft, ContextOf
<1>9. OthersKeep(r)
  BY <1>1, <1>2, <1>3, <1>4, <1>6, <1>8 DEF OthersKeep, ContextOf, TasksTypeOK, LockLeft,
     requestVars, limiterVars, lockVars, registryVars, threadVars, backendVars
<1>10. TaskInv(r)'
  BY <1>1, <1>2, <1>3, <1>4, <1>6, <1>8 DEF ContextOf, TasksTypeOK, LockLeft, requestVars, limiterVars, lockVars, registryVars, threadVars, backendVars,
     TaskInv, InSlot, HandlerFits, ThreadFits, LockFits, Locked, HoldsItsLock, TrackedFits,
     Streams, InCodex, Yielded, WithThread,
     PlainOpeners, PlainResumers, PlainTurns, StreamTurns, Openers, Resumers,
     TurnHandlers, Deleters, AllHandlers, OwnedHandlers
<1>11. r \notin tracked
  BY <1>1, <1>3 DEF ContextOf, TaskInv, TrackedFits
<1>12. RegistryTypeOK' /\ RegistryExact'
  BY <1>1, <1>2, <1>11, <1>9, RegistryKept DEF ContextOf, RegistryExact, lockVars, requestVars
<1>13. QED
  BY <1>2, <1>9, <1>10, <1>12, <1>6, <1>8 DEF StepOK, LockLeft

\* An error out of thread.run leaves the lock, if any, and the slot.
LEMMA RunRaisesStep ==
    ASSUME ServerInv, NEW r \in Requests, RunRaises(r)
    PROVE  StepOK(r)
<1>1. ContextOf(r)
  BY ServerInvContext
<1>2. UNCHANGED <<requestVars, registryVars, backendVars>>
  BY DEF RunRaises
<1>3. pc[r] \in {"opening", "resuming", "turn"} /\ ~Streams(r)
  BY <1>1 DEF RunRaises, ContextOf, TaskInv, HandlerFits, Streams, Yielded, InCodex,
     PlainOpeners, PlainResumers, PlainTurns, StreamTurns, Openers, Resumers,
     TurnHandlers, Deleters, AllHandlers, OwnedHandlers
<1>4. pc' = [pc EXCEPT ![r] = "done"]
  BY <1>3 DEF RunRaises, Goto, Finish, Streams
<1>5. r \in slots
  BY <1>1, <1>3 DEF ContextOf, TaskInv, InSlot, InCodex, Yielded
<1>6. [LimiterNext]_limiterVars /\ slots' = slots \ {r}
  BY <1>5 DEF RunRaises, LeaveLockAndSlot, ExitSlot, LimiterNext
<1>7. LeaveLock(r)
  BY DEF RunRaises, LeaveLockAndSlot
<1>8. LockLeft(r)
  BY <1>1, <1>7, LeaveLockEffect DEF LockLeft, ContextOf
<1>9. OthersKeep(r)
  BY <1>1, <1>2, <1>3, <1>4, <1>6, <1>8 DEF OthersKeep, ContextOf, TasksTypeOK, LockLeft,
     requestVars, limiterVars, lockVars, registryVars, threadVars, backendVars
<1>10. TaskInv(r)'
  BY <1>1, <1>2, <1>3, <1>4, <1>6, <1>8 DEF ContextOf, TasksTypeOK, LockLeft, requestVars, limiterVars, lockVars, registryVars, threadVars, backendVars,
     TaskInv, InSlot, HandlerFits, ThreadFits, LockFits, Locked, HoldsItsLock, TrackedFits,
     Streams, InCodex, Yielded, WithThread,
     PlainOpeners, PlainResumers, PlainTurns, StreamTurns, Openers, Resumers,
     TurnHandlers, Deleters, AllHandlers, OwnedHandlers
<1>11. r \notin tracked
  BY <1>1, <1>3 DEF ContextOf, TaskInv, TrackedFits
<1>12. RegistryTypeOK' /\ RegistryExact'
  BY <1>1, <1>2, <1>11, <1>9, RegistryKept DEF ContextOf, RegistryExact, lockVars, requestVars
<1>13. QED
  BY <1>2, <1>9, <1>10, <1>12, <1>6, <1>8 DEF StepOK, LockLeft

\* wait_for gives up at any await: lock or queue place, and slot, are left.
LEMMA PlainTimeoutStep ==
    ASSUME ServerInv, NEW r \in Requests, PlainTimeout(r)
    PROVE  StepOK(r)
<1>1. ContextOf(r)
  BY ServerInvContext
<1>2. UNCHANGED <<requestVars, registryVars, backendVars>>
  BY DEF PlainTimeout
<1>3. pc[r] \in InCodex /\ ~Streams(r)
  BY <1>1 DEF PlainTimeout, ContextOf, TaskInv, HandlerFits, Streams, Yielded, InCodex,
     PlainOpeners, PlainResumers, PlainTurns, StreamTurns, Openers, Resumers,
     TurnHandlers, Deleters, AllHandlers, OwnedHandlers
<1>4. pc' = [pc EXCEPT ![r] = "done"]
  BY <1>3 DEF PlainTimeout, Goto, Finish, Streams
<1>5. r \in slots
  BY <1>1, <1>3 DEF ContextOf, TaskInv, InSlot, InCodex, Yielded
<1>6. [LimiterNext]_limiterVars /\ slots' = slots \ {r}
  BY <1>5 DEF PlainTimeout, LeaveLockAndSlot, ExitSlot, LimiterNext
<1>7. LeaveLock(r)
  BY DEF PlainTimeout, LeaveLockAndSlot
<1>8. LockLeft(r)
  BY <1>1, <1>7, LeaveLockEffect DEF LockLeft, ContextOf
<1>9. OthersKeep(r)
  BY <1>1, <1>2, <1>3, <1>4, <1>6, <1>8 DEF OthersKeep, ContextOf, TasksTypeOK, LockLeft,
     requestVars, limiterVars, lockVars, registryVars, threadVars, backendVars
<1>10. TaskInv(r)'
  BY <1>1, <1>2, <1>3, <1>4, <1>6, <1>8 DEF ContextOf, TasksTypeOK, LockLeft, requestVars, limiterVars, lockVars, registryVars, threadVars, backendVars,
     TaskInv, InSlot, HandlerFits, ThreadFits, LockFits, Locked, HoldsItsLock, TrackedFits,
     Streams, InCodex, Yielded, WithThread,
     PlainOpeners, PlainResumers, PlainTurns, StreamTurns, Openers, Resumers,
     TurnHandlers, Deleters, AllHandlers, OwnedHandlers
<1>11. r \notin tracked
  BY <1>1, <1>3 DEF ContextOf, TaskInv, TrackedFits
<1>12. RegistryTypeOK' /\ RegistryExact'
  BY <1>1, <1>2, <1>11, <1>9, RegistryKept DEF ContextOf, RegistryExact, lockVars, requestVars
<1>13. QED
  BY <1>2, <1>9, <1>10, <1>12, <1>6, <1>8 DEF StepOK, LockLeft

\* Relaying an event of a turn changes only where the task is suspended.
LEMMA RelayEventStep ==
    ASSUME ServerInv, NEW r \in Requests, RelayEvent(r)
    PROVE  StepOK(r)
<1>1. ContextOf(r)
  BY ServerInvContext
<1>2. UNCHANGED <<requestVars, limiterVars, lockVars, registryVars, backendVars>>
  BY DEF RelayEvent
<1>3. pc[r] = "turn" /\ Streams(r)
  BY <1>1 DEF RelayEvent, ContextOf, TaskInv, HandlerFits, Streams, Yielded, InCodex,
     PlainOpeners, PlainResumers, PlainTurns, StreamTurns, Openers, Resumers,
     TurnHandlers, Deleters, AllHandlers, OwnedHandlers
<1>4. pc' = [pc EXCEPT ![r] = "relaying"]
  BY <1>3 DEF RelayEvent, Goto, Finish, Streams
<1>5. OthersKeep(r)
  BY <1>1, <1>2, <1>3, <1>4 DEF OthersKeep, ContextOf, TasksTypeOK, LockLeft,
     requestVars, limiterVars, lockVars, registryVars, threadVars, backendVars
<1>6. TaskInv(r)'
  BY <1>1, <1>2, <1>3, <1>4 DEF ContextOf, TasksTypeOK, LockLeft, requestVars, limiterVars, lockVars, registryVars, threadVars, backendVars,
     TaskInv, InSlot, HandlerFits, ThreadFits, LockFits, Locked, HoldsItsLock, TrackedFits,
     Streams, InCodex, Yielded, WithThread,
     PlainOpeners, PlainResumers, PlainTurns, StreamTurns, Openers, Resumers,
     TurnHandlers, Deleters, AllHandlers, OwnedHandlers
<1>7. RegistryTypeOK' /\ RegistryExact'
  BY <1>1, <1>2, <1>5, RegistryKept DEF ContextOf, RegistryExact, lockVars, requestVars
<1>8. QED
  BY <1>2, <1>5, <1>6, <1>7 DEF StepOK, LockLeft

\* The end of the events unregisters the turn while its lock is still held.
LEMMA StreamEndsStep ==
    ASSUME ServerInv, NEW r \in Requests, StreamEnds(r)
    PROVE  StepOK(r)
<1>1. ContextOf(r)
  BY ServerInvContext
<1>2. UNCHANGED <<requestVars, limiterVars, lockVars, backendVars>>
  BY DEF StreamEnds
<1>3. pc[r] = "turn" /\ Streams(r)
  BY <1>1 DEF StreamEnds, ContextOf, TaskInv, HandlerFits, Streams, Yielded, InCodex,
     PlainOpeners, PlainResumers, PlainTurns, StreamTurns, Openers, Resumers,
     TurnHandlers, Deleters, AllHandlers, OwnedHandlers
<1>4. pc' = [pc EXCEPT ![r] = "failing"] \/ pc' = [pc EXCEPT ![r] = "saving"]
  BY <1>3 DEF StreamEnds, Goto, Finish, Streams
<1>5. tracked' = tracked \ {r}
  BY DEF StreamEnds, GeneratorEnds, Unregister, registryVars
<1>6. OthersKeep(r)
  BY <1>1, <1>2, <1>3, <1>4, <1>5 DEF OthersKeep, ContextOf, TasksTypeOK, LockLeft,
     requestVars, limiterVars, lockVars, registryVars, threadVars, backendVars
<1>7. TaskInv(r)'
  BY <1>1, <1>2, <1>3, <1>4, <1>5 DEF ContextOf, TasksTypeOK, LockLeft, requestVars, limiterVars, lockVars, registryVars, threadVars, backendVars,
     TaskInv, InSlot, HandlerFits, ThreadFits, LockFits, Locked, HoldsItsLock, TrackedFits,
     Streams, InCodex, Yielded, WithThread,
     PlainOpeners, PlainResumers, PlainTurns, StreamTurns, Openers, Resumers,
     TurnHandlers, Deleters, AllHandlers, OwnedHandlers
<1>8. RegistryTypeOK' /\ RegistryExact'
  BY <1>1, <1>6, UnregisterEffect DEF StreamEnds, GeneratorEnds, ContextOf
<1>9. QED
  BY <1>2, <1>6, <1>7, <1>8 DEF StepOK, LockLeft

\* An error inside stream_turn unregisters the turn, if it was registered.
LEMMA StreamRaisesStep ==
    ASSUME ServerInv, NEW r \in Requests, StreamRaises(r)
    PROVE  StepOK(r)
<1>1. ContextOf(r)
  BY ServerInvContext
<1>2. UNCHANGED <<requestVars, limiterVars, lockVars, backendVars>>
  BY DEF StreamRaises
<1>3. pc[r] \in {"opening", "resuming", "starting", "turn"} /\ Streams(r)
  BY <1>1 DEF StreamRaises, ContextOf, TaskInv, HandlerFits, Streams, Yielded, InCodex,
     PlainOpeners, PlainResumers, PlainTurns, StreamTurns, Openers, Resumers,
     TurnHandlers, Deleters, AllHandlers, OwnedHandlers
<1>4. pc' = [pc EXCEPT ![r] = "failing"]
  BY <1>3 DEF StreamRaises, Goto, Finish, Streams
<1>5. tracked' = tracked \ {r}
  BY DEF StreamRaises, GeneratorEnds, Unregister, registryVars
<1>6. OthersKeep(r)
  BY <1>1, <1>2, <1>3, <1>4, <1>5 DEF OthersKeep, ContextOf, TasksTypeOK, LockLeft,
     requestVars, limiterVars, lockVars, registryVars, threadVars, backendVars
<1>7. TaskInv(r)'
  BY <1>1, <1>2, <1>3, <1>4, <1>5 DEF ContextOf, TasksTypeOK, LockLeft, requestVars, limiterVars, lockVars, registryVars, threadVars, backendVars,
     TaskInv, InSlot, HandlerFits, ThreadFits, LockFits, Locked, HoldsItsLock, TrackedFits,
     Streams, InCodex, Yielded, WithThread,
     PlainOpeners, PlainResumers, PlainTurns, StreamTurns, Openers, Resumers,
     TurnHandlers, Deleters, AllHandlers, OwnedHandlers
<1>8. RegistryTypeOK' /\ RegistryExact'
  BY <1>1, <1>6, UnregisterEffect DEF StreamRaises, GeneratorEnds, ContextOf
<1>9. QED
  BY <1>2, <1>6, <1>7, <1>8 DEF StepOK, LockLeft

\* register is run by the holder of the thread's lock only.
LEMMA TurnRegisteredStep ==
    ASSUME ServerInv, NEW r \in Requests, TurnRegistered(r)
    PROVE  StepOK(r)
<1>1. ContextOf(r)
  BY ServerInvContext
<1>2. UNCHANGED <<requestVars, limiterVars, lockVars, backendVars>>
  BY DEF TurnRegistered
<1>3. pc[r] = "starting" /\ Streams(r)
  BY <1>1 DEF TurnRegistered, ContextOf, TaskInv, HandlerFits, Streams, Yielded, InCodex,
     PlainOpeners, PlainResumers, PlainTurns, StreamTurns, Openers, Resumers,
     TurnHandlers, Deleters, AllHandlers, OwnedHandlers
<1>4. pc' = [pc EXCEPT ![r] = "turn"]
  BY <1>3 DEF TurnRegistered, Goto, Finish, Streams
<1>5. tracked' = tracked \cup {r}
  BY DEF TurnRegistered, Register
<1>6. OthersKeep(r)
  BY <1>1, <1>2, <1>3, <1>4, <1>5 DEF OthersKeep, ContextOf, TasksTypeOK, LockLeft,
     requestVars, limiterVars, lockVars, registryVars, threadVars, backendVars
<1>7. TaskInv(r)'
  BY <1>1, <1>2, <1>3, <1>4, <1>5 DEF ContextOf, TasksTypeOK, LockLeft, requestVars, limiterVars, lockVars, registryVars, threadVars, backendVars,
     TaskInv, InSlot, HandlerFits, ThreadFits, LockFits, Locked, HoldsItsLock, TrackedFits,
     Streams, InCodex, Yielded, WithThread,
     PlainOpeners, PlainResumers, PlainTurns, StreamTurns, Openers, Resumers,
     TurnHandlers, Deleters, AllHandlers, OwnedHandlers
<1>8. RegistryTypeOK' /\ RegistryExact'
  BY <1>1, <1>2, <1>3, <1>6, RegisterEffect DEF TurnRegistered, ContextOf, TaskInv, LockFits, Locked, HoldsItsLock, lockVars, requestVars
<1>9. QED
  BY <1>2, <1>6, <1>7, <1>8 DEF StepOK, LockLeft

\* The cancelled generator gives back registry entry and lock before the answer.
LEMMA StreamTimeoutStep ==
    ASSUME ServerInv, NEW r \in Requests, StreamTimeout(r)
    PROVE  StepOK(r)
<1>1. ContextOf(r)
  BY ServerInvContext
<1>2. UNCHANGED <<requestVars, limiterVars, backendVars>>
  BY DEF StreamTimeout
<1>3. pc[r] \in InCodex /\ Streams(r)
  BY <1>1 DEF StreamTimeout, ContextOf, TaskInv, HandlerFits, Streams, Yielded, InCodex,
     PlainOpeners, PlainResumers, PlainTurns, StreamTurns, Openers, Resumers,
     TurnHandlers, Deleters, AllHandlers, OwnedHandlers
<1>4. pc' = [pc EXCEPT ![r] = "closing"]
  BY <1>3 DEF StreamTimeout, Goto, Finish, Streams
<1>5. LeaveLock(r)
  BY <1>1, <1>3, GeneratorEndsLeavesLock DEF StreamTimeout, ContextOf
<1>6. LockLeft(r)
  BY <1>1, <1>5, LeaveLockEffect DEF LockLeft, ContextOf
<1>7. tracked' = tracked \ {r}
  BY DEF StreamTimeout, GeneratorEnds, Unregister, registryVars
<1>8. OthersKeep(r)
  BY <1>1, <1>2, <1>3, <1>4, <1>6, <1>7 DEF OthersKeep, ContextOf, TasksTypeOK, LockLeft,
     requestVars, limiterVars, lockVars, registryVars, threadVars, backendVars
<1>9. TaskInv(r)'
  BY <1>1, <1>2, <1>3, <1>4, <1>6, <1>7 DEF ContextOf, TasksTypeOK, LockLeft, requestVars, limiterVars, lockVars, registryVars, threadVars, backendVars,
     TaskInv, InSlot, HandlerFits, ThreadFits, LockFits, Locked, HoldsItsLock, TrackedFits,
     Streams, InCodex, Yielded, WithThread,
     PlainOpeners, PlainResumers, PlainTurns, StreamTurns, Openers, Resumers,
     TurnHandlers, Deleters, AllHandlers, OwnedHandlers
<1>10. RegistryTypeOK' /\ RegistryExact'
  BY <1>1, <1>8, UnregisterEffect DEF StreamTimeout, GeneratorEnds, ContextOf
<1>11. QED
  BY <1>2, <1>8, <1>9, <1>10, <1>6 DEF StepOK, LockLeft

\* The response returns past its deadline with the generator still suspended.
LEMMA ChunkSentLateStep ==
    ASSUME ServerInv, NEW r \in Requests, ChunkSentLate(r)
    PROVE  StepOK(r)
<1>1. ContextOf(r)
  BY ServerInvContext
<1>2. UNCHANGED <<requestVars, limiterVars, lockVars, registryVars, backendVars>>
  BY DEF ChunkSentLate
<1>3. pc[r] \in Yielded /\ Streams(r)
  BY <1>1 DEF ChunkSentLate, ContextOf, TaskInv, HandlerFits, Streams, Yielded, InCodex,
     PlainOpeners, PlainResumers, PlainTurns, StreamTurns, Openers, Resumers,
     TurnHandlers, Deleters, AllHandlers, OwnedHandlers
<1>4. pc' = [pc EXCEPT ![r] = "closing"]
  BY <1>3 DEF ChunkSentLate, Goto, Finish, Streams
<1>5. OthersKeep(r)
  BY <1>1, <1>2, <1>3, <1>4 DEF OthersKeep, ContextOf, TasksTypeOK, LockLeft,
     requestVars, limiterVars, lockVars, registryVars, threadVars, backendVars
<1>6. TaskInv(r)'
  BY <1>1, <1>2, <1>3, <1>4 DEF ContextOf, TasksTypeOK, LockLeft, requestVars, limiterVars, lockVars, registryVars, threadVars, backendVars,
     TaskInv, InSlot, HandlerFits, ThreadFits, LockFits, Locked, HoldsItsLock, TrackedFits,
     Streams, InCodex, Yielded, WithThread,
     PlainOpeners, PlainResumers, PlainTurns, StreamTurns, Openers, Resumers,
     TurnHandlers, Deleters, AllHandlers, OwnedHandlers
<1>7. RegistryTypeOK' /\ RegistryExact'
  BY <1>1, <1>2, <1>5, RegistryKept DEF ContextOf, RegistryExact, lockVars, requestVars
<1>8. QED
  BY <1>2, <1>5, <1>6, <1>7 DEF StepOK, LockLeft

\* The slot is left, whether or not the generator still has its lock.
LEMMA ResponseEndsStep ==
    ASSUME ServerInv, NEW r \in Requests, ResponseEnds(r)
    PROVE  StepOK(r)
<1>1. ContextOf(r)
  BY ServerInvContext
<1>2. UNCHANGED <<requestVars, lockVars, registryVars, backendVars>>
  BY DEF ResponseEnds
<1>3. pc[r] = "closing" /\ Streams(r)
  BY <1>1 DEF ResponseEnds, ContextOf, TaskInv, HandlerFits, Streams, Yielded, InCodex,
     PlainOpeners, PlainResumers, PlainTurns, StreamTurns, Openers, Resumers,
     TurnHandlers, Deleters, AllHandlers, OwnedHandlers
<1>4. \/ want[r] = NoThread /\ pc' = [pc EXCEPT ![r] = "done"]
      \/ want[r] # NoThread /\ pc' = [pc EXCEPT ![r] = "zombie"]
  BY <1>3 DEF ResponseEnds, Goto, Finish, Streams
<1>5. r \in slots
  BY <1>1, <1>3 DEF ContextOf, TaskInv, InSlot, InCodex, Yielded
<1>6. [LimiterNext]_limiterVars /\ slots' = slots \ {r}
  BY <1>5 DEF ResponseEnds, LeaveLockAndSlot, ExitSlot, LimiterNext
<1>7. r \in tracked => want[r] # NoThread
  BY <1>1, DomainAssumption DEF ContextOf, RegistryExact
<1>8. OthersKeep(r)
  BY <1>1, <1>2, <1>3, <1>4, <1>6, <1>7 DEF OthersKeep, ContextOf, TasksTypeOK, LockLeft,
     requestVars, limiterVars, lockVars, registryVars, threadVars, backendVars
<1>9. TaskInv(r)'
  BY <1>1, <1>2, <1>3, <1>4, <1>6, <1>7 DEF ContextOf, TasksTypeOK, LockLeft, requestVars, limiterVars, lockVars, registryVars, threadVars, backendVars,
     TaskInv, InSlot, HandlerFits, ThreadFits, LockFits, Locked, HoldsItsLock, TrackedFits,
     Streams, InCodex, Yielded, WithThread,
     PlainOpeners, PlainResumers, PlainTurns, StreamTurns, Openers, Resumers,
     TurnHandlers, Deleters, AllHandlers, OwnedHandlers
<1>10. RegistryTypeOK' /\ RegistryExact'
  BY <1>1, <1>2, <1>8, RegistryKept DEF ContextOf, RegistryExact, lockVars, requestVars
<1>11. QED
  BY <1>2, <1>8, <1>9, <1>10, <1>6 DEF StepOK, LockLeft

\* Finalising an abandoned generator gives back what it holds, and no slot.
LEMMA GeneratorFinalisedStep ==
    ASSUME ServerInv, NEW r \in Requests, GeneratorFinalised(r)
    PROVE  StepOK(r)
<1>1. ContextOf(r)
  BY ServerInvContext
<1>2. UNCHANGED <<requestVars, limiterVars, backendVars>>
  BY DEF GeneratorFinalised
<1>3. pc[r] = "zombie" /\ Streams(r)
  BY <1>1 DEF GeneratorFinalised, ContextOf, TaskInv, HandlerFits, Streams, Yielded, InCodex,
     PlainOpeners, PlainResumers, PlainTurns, StreamTurns, Openers, Resumers,
     TurnHandlers, Deleters, AllHandlers, OwnedHandlers
<1>4. pc' = [pc EXCEPT ![r] = "done"]
  BY <1>3 DEF GeneratorFinalised, Goto, Finish, Streams
<1>5. LeaveLock(r)
  BY <1>1, <1>3, GeneratorEndsLeavesLock DEF GeneratorFinalised, ContextOf
<1>6. LockLeft(r)
  BY <1>1, <1>5, LeaveLockEffect DEF LockLeft, ContextOf
<1>7. tracked' = tracked \ {r}
  BY DEF GeneratorFinalised, GeneratorEnds, Unregister, registryVars
<1>8. OthersKeep(r)
  BY <1>1, <1>2, <1>3, <1>4, <1>6, <1>7 DEF OthersKeep, ContextOf, TasksTypeOK, LockLeft,
     requestVars, limiterVars, lockVars, registryVars, threadVars, backendVars
<1>9. TaskInv(r)'
  BY <1>1, <1>2, <1>3, <1>4, <1>6, <1>7 DEF ContextOf, TasksTypeOK, LockLeft, requestVars, limiterVars, lockVars, registryVars, threadVars, backendVars,
     TaskInv, InSlot, HandlerFits, ThreadFits, LockFits, Locked, HoldsItsLock, TrackedFits,
     Streams, InCodex, Yielded, WithThread,
     PlainOpeners, PlainResumers, PlainTurns, StreamTurns, Openers, Resumers,
     TurnHandlers, Deleters, AllHandlers, OwnedHandlers
<1>10. RegistryTypeOK' /\ RegistryExact'
  BY <1>1, <1>8, UnregisterEffect DEF GeneratorFinalised, GeneratorEnds, ContextOf
<1>11. QED
  BY <1>2, <1>8, <1>9, <1>10, <1>6 DEF StepOK, LockLeft

\* A cancellation at an await of CodexService gives back everything at once.
LEMMA DisconnectInCodexStep ==
    ASSUME ServerInv, NEW r \in Requests, DisconnectInCodex(r)
    PROVE  StepOK(r)
<1>1. ContextOf(r)
  BY ServerInvContext
<1>2. UNCHANGED <<requestVars, backendVars>>
  BY DEF DisconnectInCodex
<1>3. pc[r] \in InCodex /\ Streams(r)
  BY <1>1 DEF DisconnectInCodex, ContextOf, TaskInv, HandlerFits, Streams, Yielded, InCodex,
     PlainOpeners, PlainResumers, PlainTurns, StreamTurns, Openers, Resumers,
     TurnHandlers, Deleters, AllHandlers, OwnedHandlers
<1>4. pc' = [pc EXCEPT ![r] = "done"]
  BY <1>3 DEF DisconnectInCodex, Goto, Finish, Streams
<1>5. r \in slots
  BY <1>1, <1>3 DEF ContextOf, TaskInv, InSlot, InCodex, Yielded
<1>6. [LimiterNext]_limiterVars /\ slots' = slots \ {r}
  BY <1>5 DEF DisconnectInCodex, LeaveLockAndSlot, ExitSlot, LimiterNext
<1>7. LeaveLock(r)
  BY <1>1, <1>3, GeneratorEndsLeavesLock DEF DisconnectInCodex, ContextOf
<1>8. LockLeft(r)
  BY <1>1, <1>7, LeaveLockEffect DEF LockLeft, ContextOf
<1>9. tracked' = tracked \ {r}
  BY DEF DisconnectInCodex, GeneratorEnds, Unregister, registryVars
<1>10. OthersKeep(r)
  BY <1>1, <1>2, <1>3, <1>4, <1>6, <1>8, <1>9 DEF OthersKeep, ContextOf, TasksTypeOK, LockLeft,
     requestVars, limiterVars, lockVars, registryVars, threadVars, backendVars
<1>11. TaskInv(r)'
  BY <1>1, <1>2, <1>3, <1>4, <1>6, <1>8, <1>9 DEF ContextOf, TasksTypeOK, LockLeft, requestVars, limiterVars, lockVars, registryVars, threadVars, backendVars,
     TaskInv, InSlot, HandlerFits, ThreadFits, LockFits, Locked, HoldsItsLock, TrackedFits,
     Streams, InCodex, Yielded, WithThread,
     PlainOpeners, PlainResumers, PlainTurns, StreamTurns, Openers, Resumers,
     TurnHandlers, Deleters, AllHandlers, OwnedHandlers
<1>12. RegistryTypeOK' /\ RegistryExact'
  BY <1>1, <1>10, UnregisterEffect DEF DisconnectInCodex, GeneratorEnds, ContextOf
<1>13. QED
  BY <1>2, <1>10, <1>11, <1>12, <1>6, <1>8 DEF StepOK, LockLeft

\* A response dropped at a yield keeps everything until it is closed.
LEMMA DisconnectInYieldStep ==
    ASSUME ServerInv, NEW r \in Requests, DisconnectInYield(r)
    PROVE  StepOK(r)
<1>1. ContextOf(r)
  BY ServerInvContext
<1>2. UNCHANGED <<requestVars, limiterVars, lockVars, registryVars, backendVars>>
  BY DEF DisconnectInYield
<1>3. pc[r] \in Yielded /\ Streams(r)
  BY <1>1 DEF DisconnectInYield, ContextOf, TaskInv, HandlerFits, Streams, Yielded, InCodex,
     PlainOpeners, PlainResumers, PlainTurns, StreamTurns, Openers, Resumers,
     TurnHandlers, Deleters, AllHandlers, OwnedHandlers
<1>4. pc' = [pc EXCEPT ![r] = "closing"]
  BY <1>3 DEF DisconnectInYield, Goto, Finish, Streams
<1>5. OthersKeep(r)
  BY <1>1, <1>2, <1>3, <1>4 DEF OthersKeep, ContextOf, TasksTypeOK, LockLeft,
     requestVars, limiterVars, lockVars, registryVars, threadVars, backendVars
<1>6. TaskInv(r)'
  BY <1>1, <1>2, <1>3, <1>4 DEF ContextOf, TasksTypeOK, LockLeft, requestVars, limiterVars, lockVars, registryVars, threadVars, backendVars,
     TaskInv, InSlot, HandlerFits, ThreadFits, LockFits, Locked, HoldsItsLock, TrackedFits,
     Streams, InCodex, Yielded, WithThread,
     PlainOpeners, PlainResumers, PlainTurns, StreamTurns, Openers, Resumers,
     TurnHandlers, Deleters, AllHandlers, OwnedHandlers
<1>7. RegistryTypeOK' /\ RegistryExact'
  BY <1>1, <1>2, <1>5, RegistryKept DEF ContextOf, RegistryExact, lockVars, requestVars
<1>8. QED
  BY <1>2, <1>5, <1>6, <1>7 DEF StepOK, LockLeft

\* The row is written: a plain task is done, a stream goes on with its lock.
LEMMA SaveStep ==
    ASSUME ServerInv, NEW r \in Requests, Save(r)
    PROVE  StepOK(r)
<1>1. ContextOf(r)
  BY ServerInvContext
<1>2. UNCHANGED <<requestVars, limiterVars, lockVars, registryVars, backendVars>>
  BY DEF Save
<1>3. pc[r] = "saving" /\ handler[r] \in TurnHandlers \ {"chat"}
  BY <1>1 DEF Save, ContextOf, TaskInv, HandlerFits, Streams, Yielded, InCodex,
     PlainOpeners, PlainResumers, PlainTurns, StreamTurns, Openers, Resumers,
     TurnHandlers, Deleters, AllHandlers, OwnedHandlers
<1>4. \/ Streams(r) /\ pc' = [pc EXCEPT ![r] = "finishing"]
      \/ ~Streams(r) /\ pc' = [pc EXCEPT ![r] = "done"]
  BY <1>3 DEF Save, Goto, Finish, Streams
<1>5. OthersKeep(r)
  BY <1>1, <1>2, <1>3, <1>4 DEF OthersKeep, ContextOf, TasksTypeOK, LockLeft,
     requestVars, limiterVars, lockVars, registryVars, threadVars, backendVars
<1>6. TaskInv(r)'
  BY <1>1, <1>2, <1>3, <1>4 DEF ContextOf, TasksTypeOK, LockLeft, requestVars, limiterVars, lockVars, registryVars, threadVars, backendVars,
     TaskInv, InSlot, HandlerFits, ThreadFits, LockFits, Locked, HoldsItsLock, TrackedFits,
     Streams, InCodex, Yielded, WithThread,
     PlainOpeners, PlainResumers, PlainTurns, StreamTurns, Openers, Resumers,
     TurnHandlers, Deleters, AllHandlers, OwnedHandlers
<1>7. RegistryTypeOK' /\ RegistryExact'
  BY <1>1, <1>2, <1>5, RegistryKept DEF ContextOf, RegistryExact, lockVars, requestVars
<1>8. QED
  BY <1>2, <1>5, <1>6, <1>7 DEF StepOK, LockLeft

\* A write that raises ends a plain task; a stream leaves its slot and its
\* generator keeps the lock.
LEMMA SaveFailsStep ==
    ASSUME ServerInv, NEW r \in Requests, SaveFails(r)
    PROVE  StepOK(r)
<1>1. ContextOf(r)
  BY ServerInvContext
<1>2. UNCHANGED <<requestVars, lockVars, registryVars, backendVars>>
  BY DEF SaveFails
<1>3. pc[r] = "saving" /\ handler[r] \in TurnHandlers \ {"chat"}
  BY <1>1 DEF SaveFails, ContextOf, TaskInv, HandlerFits
<1>4. r \in slots <=> Streams(r)
  BY <1>1, <1>3 DEF ContextOf, TaskInv, InSlot, InCodex, Yielded
<1>5. \/ /\ Streams(r) /\ pc' = [pc EXCEPT ![r] = "zombie"]
         /\ [LimiterNext]_limiterVars /\ slots' = slots \ {r}
      \/ /\ ~Streams(r) /\ pc' = [pc EXCEPT ![r] = "done"]
         /\ UNCHANGED limiterVars
  BY <1>4 DEF SaveFails, Goto, Finish, ExitSlot, LimiterNext
<1>6. [LimiterNext]_limiterVars
  BY <1>5
<1>7. OthersKeep(r)
  BY <1>1, <1>2, <1>3, <1>5 DEF OthersKeep, ContextOf, TasksTypeOK, LockLeft,
     requestVars, limiterVars, lockVars, registryVars, threadVars, backendVars
<1>8. TaskInv(r)'
  BY <1>1, <1>2, <1>3, <1>5 DEF ContextOf, TasksTypeOK, LockLeft, requestVars, limiterVars, lockVars, registryVars, threadVars, backendVars,
     TaskInv, InSlot, HandlerFits, ThreadFits, LockFits, Locked, HoldsItsLock, TrackedFits,
     Streams, InCodex, Yielded, WithThread,
     PlainOpeners, PlainResumers, PlainTurns, StreamTurns, Openers, Resumers,
     TurnHandlers, Deleters, AllHandlers, OwnedHandlers
<1>9. RegistryTypeOK' /\ RegistryExact'
  BY <1>1, <1>2, <1>7, RegistryKept DEF ContextOf, RegistryExact, lockVars, requestVars
<1>10. QED
  BY <1>2, <1>6, <1>7, <1>8, <1>9 DEF StepOK

\* A stream cancelled in its write leaves the slot, and the generator keeps the lock.
LEMMA DisconnectInSaveStep ==
    ASSUME ServerInv, NEW r \in Requests, DisconnectInSave(r)
    PROVE  StepOK(r)
<1>1. ContextOf(r)
  BY ServerInvContext
<1>2. UNCHANGED <<requestVars, lockVars, registryVars, backendVars>>
  BY DEF DisconnectInSave
<1>3. pc[r] = "saving" /\ Streams(r)
  BY <1>1 DEF DisconnectInSave, ContextOf, TaskInv, HandlerFits, Streams, Yielded, InCodex,
     PlainOpeners, PlainResumers, PlainTurns, StreamTurns, Openers, Resumers,
     TurnHandlers, Deleters, AllHandlers, OwnedHandlers
<1>4. pc' = [pc EXCEPT ![r] = "zombie"]
  BY <1>3 DEF DisconnectInSave, Goto, Finish, Streams
<1>5. r \in slots
  BY <1>1, <1>3 DEF ContextOf, TaskInv, InSlot, InCodex, Yielded
<1>6. [LimiterNext]_limiterVars /\ slots' = slots \ {r}
  BY <1>5 DEF DisconnectInSave, LeaveLockAndSlot, ExitSlot, LimiterNext
<1>7. OthersKeep(r)
  BY <1>1, <1>2, <1>3, <1>4, <1>6 DEF OthersKeep, ContextOf, TasksTypeOK, LockLeft,
     requestVars, limiterVars, lockVars, registryVars, threadVars, backendVars
<1>8. TaskInv(r)'
  BY <1>1, <1>2, <1>3, <1>4, <1>6 DEF ContextOf, TasksTypeOK, LockLeft, requestVars, limiterVars, lockVars, registryVars, threadVars, backendVars,
     TaskInv, InSlot, HandlerFits, ThreadFits, LockFits, Locked, HoldsItsLock, TrackedFits,
     Streams, InCodex, Yielded, WithThread,
     PlainOpeners, PlainResumers, PlainTurns, StreamTurns, Openers, Resumers,
     TurnHandlers, Deleters, AllHandlers, OwnedHandlers
<1>9. RegistryTypeOK' /\ RegistryExact'
  BY <1>1, <1>2, <1>7, RegistryKept DEF ContextOf, RegistryExact, lockVars, requestVars
<1>10. QED
  BY <1>2, <1>7, <1>8, <1>9, <1>6 DEF StepOK, LockLeft

\* thread_archive touches no slot, lock or registry entry.
LEMMA ArchivedStep ==
    ASSUME ServerInv, NEW r \in Requests, Archived(r)
    PROVE  StepOK(r)
<1>1. ContextOf(r)
  BY ServerInvContext
<1>2. UNCHANGED <<requestVars, limiterVars, lockVars, registryVars, mode>>
  BY DEF Archived, ArchiveThread
<1>3. pc[r] = "archiving" /\ handler[r] \in Deleters
  BY <1>1 DEF Archived, ContextOf, TaskInv, HandlerFits, Streams, Yielded, InCodex,
     PlainOpeners, PlainResumers, PlainTurns, StreamTurns, Openers, Resumers,
     TurnHandlers, Deleters, AllHandlers, OwnedHandlers
<1>4. pc' = [pc EXCEPT ![r] = "marking"]
  BY <1>3 DEF Archived, Goto, Finish, Streams
<1>5. OthersKeep(r)
  BY <1>1, <1>2, <1>3, <1>4 DEF OthersKeep, ContextOf, TasksTypeOK, LockLeft,
     requestVars, limiterVars, lockVars, registryVars, threadVars, backendVars
<1>6. TaskInv(r)'
  BY <1>1, <1>2, <1>3, <1>4 DEF ContextOf, TasksTypeOK, LockLeft, requestVars, limiterVars, lockVars, registryVars, threadVars, backendVars,
     TaskInv, InSlot, HandlerFits, ThreadFits, LockFits, Locked, HoldsItsLock, TrackedFits,
     Streams, InCodex, Yielded, WithThread,
     PlainOpeners, PlainResumers, PlainTurns, StreamTurns, Openers, Resumers,
     TurnHandlers, Deleters, AllHandlers, OwnedHandlers
<1>7. RegistryTypeOK' /\ RegistryExact'
  BY <1>1, <1>2, <1>5, RegistryKept DEF ContextOf, RegistryExact, lockVars, requestVars
<1>8. QED
  BY <1>2, <1>5, <1>6, <1>7 DEF StepOK, LockLeft

\* Nor does its failure.
LEMMA ArchiveFailsStep ==
    ASSUME ServerInv, NEW r \in Requests, ArchiveFails(r)
    PROVE  StepOK(r)
<1>1. ContextOf(r)
  BY ServerInvContext
<1>2. UNCHANGED <<requestVars, limiterVars, lockVars, registryVars, backendVars>>
  BY DEF ArchiveFails
<1>3. pc[r] = "archiving" /\ handler[r] \in Deleters
  BY <1>1 DEF ArchiveFails, ContextOf, TaskInv, HandlerFits, Streams, Yielded, InCodex,
     PlainOpeners, PlainResumers, PlainTurns, StreamTurns, Openers, Resumers,
     TurnHandlers, Deleters, AllHandlers, OwnedHandlers
<1>4. pc' = [pc EXCEPT ![r] = "marking"] \/ pc' = [pc EXCEPT ![r] = "done"]
  BY <1>3 DEF ArchiveFails, Goto, Finish, Streams
<1>5. OthersKeep(r)
  BY <1>1, <1>2, <1>3, <1>4 DEF OthersKeep, ContextOf, TasksTypeOK, LockLeft,
     requestVars, limiterVars, lockVars, registryVars, threadVars, backendVars
<1>6. TaskInv(r)'
  BY <1>1, <1>2, <1>3, <1>4 DEF ContextOf, TasksTypeOK, LockLeft, requestVars, limiterVars, lockVars, registryVars, threadVars, backendVars,
     TaskInv, InSlot, HandlerFits, ThreadFits, LockFits, Locked, HoldsItsLock, TrackedFits,
     Streams, InCodex, Yielded, WithThread,
     PlainOpeners, PlainResumers, PlainTurns, StreamTurns, Openers, Resumers,
     TurnHandlers, Deleters, AllHandlers, OwnedHandlers
<1>7. RegistryTypeOK' /\ RegistryExact'
  BY <1>1, <1>2, <1>5, RegistryKept DEF ContextOf, RegistryExact, lockVars, requestVars
<1>8. QED
  BY <1>2, <1>5, <1>6, <1>7 DEF StepOK, LockLeft

\* Marking the row ends a task that holds nothing.
LEMMA MarkStep ==
    ASSUME ServerInv, NEW r \in Requests, Mark(r)
    PROVE  StepOK(r)
<1>1. ContextOf(r)
  BY ServerInvContext
<1>2. UNCHANGED <<requestVars, limiterVars, lockVars, registryVars, backendVars>>
  BY DEF Mark
<1>3. pc[r] = "marking" /\ handler[r] \in Deleters
  BY <1>1 DEF Mark, ContextOf, TaskInv, HandlerFits, Streams, Yielded, InCodex,
     PlainOpeners, PlainResumers, PlainTurns, StreamTurns, Openers, Resumers,
     TurnHandlers, Deleters, AllHandlers, OwnedHandlers
<1>4. pc' = [pc EXCEPT ![r] = "done"]
  BY <1>3 DEF Mark, Goto, Finish, Streams
<1>5. OthersKeep(r)
  BY <1>1, <1>2, <1>3, <1>4 DEF OthersKeep, ContextOf, TasksTypeOK, LockLeft,
     requestVars, limiterVars, lockVars, registryVars, threadVars, backendVars
<1>6. TaskInv(r)'
  BY <1>1, <1>2, <1>3, <1>4 DEF ContextOf, TasksTypeOK, LockLeft, requestVars, limiterVars, lockVars, registryVars, threadVars, backendVars,
     TaskInv, InSlot, HandlerFits, ThreadFits, LockFits, Locked, HoldsItsLock, TrackedFits,
     Streams, InCodex, Yielded, WithThread,
     PlainOpeners, PlainResumers, PlainTurns, StreamTurns, Openers, Resumers,
     TurnHandlers, Deleters, AllHandlers, OwnedHandlers
<1>7. RegistryTypeOK' /\ RegistryExact'
  BY <1>1, <1>2, <1>5, RegistryKept DEF ContextOf, RegistryExact, lockVars, requestVars
<1>8. QED
  BY <1>2, <1>5, <1>6, <1>7 DEF StepOK, LockLeft

\* So does a mark that raises.
LEMMA MarkFailsStep ==
    ASSUME ServerInv, NEW r \in Requests, MarkFails(r)
    PROVE  StepOK(r)
<1>1. ContextOf(r)
  BY ServerInvContext
<1>2. UNCHANGED <<requestVars, limiterVars, lockVars, registryVars, backendVars>>
  BY DEF MarkFails
<1>3. pc[r] = "marking" /\ handler[r] \in Deleters
  BY <1>1 DEF MarkFails, ContextOf, TaskInv, HandlerFits, Streams, Yielded, InCodex,
     PlainOpeners, PlainResumers, PlainTurns, StreamTurns, Openers, Resumers,
     TurnHandlers, Deleters, AllHandlers, OwnedHandlers
<1>4. pc' = [pc EXCEPT ![r] = "done"]
  BY <1>3 DEF MarkFails, Goto, Finish, Streams
<1>5. OthersKeep(r)
  BY <1>1, <1>2, <1>3, <1>4 DEF OthersKeep, ContextOf, TasksTypeOK, LockLeft,
     requestVars, limiterVars, lockVars, registryVars, threadVars, backendVars
<1>6. TaskInv(r)'
  BY <1>1, <1>2, <1>3, <1>4 DEF ContextOf, TasksTypeOK, LockLeft, requestVars, limiterVars, lockVars, registryVars, threadVars, backendVars,
     TaskInv, InSlot, HandlerFits, ThreadFits, LockFits, Locked, HoldsItsLock, TrackedFits,
     Streams, InCodex, Yielded, WithThread,
     PlainOpeners, PlainResumers, PlainTurns, StreamTurns, Openers, Resumers,
     TurnHandlers, Deleters, AllHandlers, OwnedHandlers
<1>7. RegistryTypeOK' /\ RegistryExact'
  BY <1>1, <1>2, <1>5, RegistryKept DEF ContextOf, RegistryExact, lockVars, requestVars
<1>8. QED
  BY <1>2, <1>5, <1>6, <1>7 DEF StepOK, LockLeft

\* The registry is only read by an interrupt.
LEMMA LookUpTurnStep ==
    ASSUME ServerInv, NEW r \in Requests, LookUpTurn(r)
    PROVE  StepOK(r)
<1>1. ContextOf(r)
  BY ServerInvContext
<1>2. UNCHANGED <<requestVars, limiterVars, lockVars, registryVars, backendVars>>
  BY DEF LookUpTurn
<1>3. pc[r] = "interrupting" /\ handler[r] = "interrupt_thread"
  BY <1>1 DEF LookUpTurn, ContextOf, TaskInv, HandlerFits, Streams, Yielded, InCodex,
     PlainOpeners, PlainResumers, PlainTurns, StreamTurns, Openers, Resumers,
     TurnHandlers, Deleters, AllHandlers, OwnedHandlers
<1>4. pc' = [pc EXCEPT ![r] = "signalling"] \/ pc' = [pc EXCEPT ![r] = "done"]
  BY <1>3 DEF LookUpTurn, Goto, Finish, Streams
<1>5. OthersKeep(r)
  BY <1>1, <1>2, <1>3, <1>4 DEF OthersKeep, ContextOf, TasksTypeOK, LockLeft,
     requestVars, limiterVars, lockVars, registryVars, threadVars, backendVars
<1>6. TaskInv(r)'
  BY <1>1, <1>2, <1>3, <1>4 DEF ContextOf, TasksTypeOK, LockLeft, requestVars, limiterVars, lockVars, registryVars, threadVars, backendVars,
     TaskInv, InSlot, HandlerFits, ThreadFits, LockFits, Locked, HoldsItsLock, TrackedFits,
     Streams, InCodex, Yielded, WithThread,
     PlainOpeners, PlainResumers, PlainTurns, StreamTurns, Openers, Resumers,
     TurnHandlers, Deleters, AllHandlers, OwnedHandlers
<1>7. RegistryTypeOK' /\ RegistryExact'
  BY <1>1, <1>2, <1>5, RegistryKept DEF ContextOf, RegistryExact, lockVars, requestVars
<1>8. QED
  BY <1>2, <1>5, <1>6, <1>7 DEF StepOK, LockLeft

\* Signalling a turn changes the turn, not what its task holds.
LEMMA InterruptStep ==
    ASSUME ServerInv, NEW r \in Requests, Interrupt(r)
    PROVE  StepOK(r)
<1>1. ContextOf(r)
  BY ServerInvContext
<1>2. UNCHANGED <<requestVars, limiterVars, lockVars, registryVars, threadVars>>
  BY DEF Interrupt
<1>3. pc[r] = "signalling" /\ handler[r] = "interrupt_thread"
  BY <1>1 DEF Interrupt, ContextOf, TaskInv, HandlerFits, Streams, Yielded, InCodex,
     PlainOpeners, PlainResumers, PlainTurns, StreamTurns, Openers, Resumers,
     TurnHandlers, Deleters, AllHandlers, OwnedHandlers
<1>4. pc' = [pc EXCEPT ![r] = "done"]
  BY <1>3 DEF Interrupt, Goto, Finish, Streams
<1>5. OthersKeep(r)
  BY <1>1, <1>2, <1>3, <1>4 DEF OthersKeep, ContextOf, TasksTypeOK, LockLeft,
     requestVars, limiterVars, lockVars, registryVars, threadVars, backendVars
<1>6. TaskInv(r)'
  BY <1>1, <1>2, <1>3, <1>4 DEF ContextOf, TasksTypeOK, LockLeft, requestVars, limiterVars, lockVars, registryVars, threadVars, backendVars,
     TaskInv, InSlot, HandlerFits, ThreadFits, LockFits, Locked, HoldsItsLock, TrackedFits,
     Streams, InCodex, Yielded, WithThread,
     PlainOpeners, PlainResumers, PlainTurns, StreamTurns, Openers, Resumers,
     TurnHandlers, Deleters, AllHandlers, OwnedHandlers
<1>7. RegistryTypeOK' /\ RegistryExact'
  BY <1>1, <1>2, <1>5, RegistryKept DEF ContextOf, RegistryExact, lockVars, requestVars
<1>8. QED
  BY <1>2, <1>5, <1>6, <1>7 DEF StepOK, LockLeft

\* Nor does a signal that fails.
LEMMA InterruptRaisesStep ==
    ASSUME ServerInv, NEW r \in Requests, InterruptRaises(r)
    PROVE  StepOK(r)
<1>1. ContextOf(r)
  BY ServerInvContext
<1>2. UNCHANGED <<requestVars, limiterVars, lockVars, registryVars, backendVars>>
  BY DEF InterruptRaises
<1>3. pc[r] = "signalling" /\ handler[r] = "interrupt_thread"
  BY <1>1 DEF InterruptRaises, ContextOf, TaskInv, HandlerFits, Streams, Yielded, InCodex,
     PlainOpeners, PlainResumers, PlainTurns, StreamTurns, Openers, Resumers,
     TurnHandlers, Deleters, AllHandlers, OwnedHandlers
<1>4. pc' = [pc EXCEPT ![r] = "done"]
  BY <1>3 DEF InterruptRaises, Goto, Finish, Streams
<1>5. OthersKeep(r)
  BY <1>1, <1>2, <1>3, <1>4 DEF OthersKeep, ContextOf, TasksTypeOK, LockLeft,
     requestVars, limiterVars, lockVars, registryVars, threadVars, backendVars
<1>6. TaskInv(r)'
  BY <1>1, <1>2, <1>3, <1>4 DEF ContextOf, TasksTypeOK, LockLeft, requestVars, limiterVars, lockVars, registryVars, threadVars, backendVars,
     TaskInv, InSlot, HandlerFits, ThreadFits, LockFits, Locked, HoldsItsLock, TrackedFits,
     Streams, InCodex, Yielded, WithThread,
     PlainOpeners, PlainResumers, PlainTurns, StreamTurns, Openers, Resumers,
     TurnHandlers, Deleters, AllHandlers, OwnedHandlers
<1>7. RegistryTypeOK' /\ RegistryExact'
  BY <1>1, <1>2, <1>5, RegistryKept DEF ContextOf, RegistryExact, lockVars, requestVars
<1>8. QED
  BY <1>2, <1>5, <1>6, <1>7 DEF StepOK, LockLeft

\* A new request has nothing yet.
LEMMA ArriveStep ==
    ASSUME ServerInv, NEW r \in Requests, NEW h \in Handlers, NEW c \in Clients,
           NEW t \in IF h \in OwnedHandlers THEN Threads ELSE {NoThread}, Arrive(r, h, c, t)
    PROVE  StepOK(r)
<1>1. ContextOf(r)
  BY ServerInvContext
<1>2. UNCHANGED <<limiterVars, lockVars, registryVars, backendVars>>
  BY DEF Arrive
<1>3. pc[r] = "idle" /\ r \notin tracked
  BY <1>1 DEF Arrive, ContextOf, TaskInv, TrackedFits
<1>4. /\ handler' = [handler EXCEPT ![r] = h]
      /\ client' = [client EXCEPT ![r] = c]
      /\ thread' = [thread EXCEPT ![r] = t]
      /\ \/ h \in OwnedHandlers /\ t \in Threads /\ pc' = [pc EXCEPT ![r] = "checking"]
         \/ h \in TurnHandlers \ Resumers /\ pc' = [pc EXCEPT ![r] = "admission"]
  BY ServerAssumption DEF Arrive, Goto, OwnedHandlers, AllHandlers, TurnHandlers, Deleters
<1>5. h \in AllHandlers
  BY ServerAssumption
<1>6. OthersKeep(r)
  BY <1>1, <1>2, <1>3, <1>4 DEF OthersKeep, ContextOf, TasksTypeOK, limiterVars, lockVars,
     registryVars, backendVars
<1>7. TaskInv(r)'
  BY <1>1, <1>2, <1>3, <1>4, <1>5 DEF ContextOf, TasksTypeOK, limiterVars, lockVars,
     registryVars, backendVars, TaskInv, InSlot, HandlerFits, ThreadFits, LockFits, Locked,
     HoldsItsLock, TrackedFits, Streams, InCodex, Yielded, WithThread,
     PlainOpeners, PlainResumers, PlainTurns, StreamTurns, Openers, Resumers,
     TurnHandlers, Deleters, OwnedHandlers
<1>8. RegistryTypeOK' /\ RegistryExact'
  BY <1>1, <1>2, <1>3, <1>6, RegistryKept DEF ContextOf
<1>9. QED
  BY <1>2, <1>6, <1>7, <1>8 DEF StepOK

\* The owner check makes the thread of a resumed request a known one.
LEMMA AdmitResumerStep ==
    ASSUME ServerInv, NEW r \in Requests, AdmitResumer(r)
    PROVE  StepOK(r)
<1>1. ContextOf(r)
  BY ServerInvContext
<1>2. UNCHANGED <<requestVars, registryVars, threadVars>>
  BY DEF AdmitResumer
<1>3. /\ pc[r] = "admission" /\ handler[r] \in Resumers /\ thread[r] \in Threads
      /\ mode[thread[r]] # "none" /\ want[r] = NoThread /\ r \notin slots /\ r \notin tracked
  BY <1>1 DEF AdmitResumer, ContextOf, TaskInv, ThreadFits, LockFits, Locked, TrackedFits,
     InSlot, InCodex, Yielded, OwnedHandlers, Resumers, PlainResumers
<1>4. [LimiterNext]_limiterVars /\ slots' = slots \cup {r}
  BY <1>3 DEF AdmitResumer, EnterSlot, LimiterNext
<1>5. /\ [LocksNext]_lockVars
      /\ want'[r] = thread[r]
      /\ Queue(thread[r]) = {} => r \in holding'
      /\ \A q \in Requests \ {r} : want'[q] = want[q] /\ (q \in holding' <=> q \in holding)
  BY <1>1, <1>3, AcquireEffect DEF AdmitResumer, TakeLock, ContextOf
<1>6. \/ r \in holding' /\ pc' = [pc EXCEPT ![r] = "resuming"]
      \/ r \notin holding' /\ pc' = [pc EXCEPT ![r] = "waiting"]
  <2>1. r \notin holding
    BY <1>1, <1>3 DEF ContextOf, LocksInv, QueuesOrdered
  <2>2. QED
    BY <2>1, <1>3, <1>5 DEF AdmitResumer, TakeLock, Acquire, Proceed, Goto, Resumers, PlainResumers
<1>7. OthersKeep(r)
  BY <1>1, <1>2, <1>3, <1>4, <1>5, <1>6 DEF OthersKeep, ContextOf, TasksTypeOK, requestVars,
     registryVars, threadVars
<1>8. TaskInv(r)'
  BY <1>1, <1>2, <1>3, <1>4, <1>5, <1>6 DEF ContextOf, TasksTypeOK, requestVars,
     registryVars, threadVars, TaskInv, InSlot, HandlerFits, ThreadFits, LockFits, Locked,
     HoldsItsLock, TrackedFits, Streams, InCodex, Yielded, WithThread,
     PlainOpeners, PlainResumers, PlainTurns, StreamTurns, Openers, Resumers,
     TurnHandlers, Deleters, AllHandlers
<1>9. RegistryTypeOK' /\ RegistryExact'
  BY <1>1, <1>2, <1>3, <1>7, RegistryKept DEF ContextOf
<1>10. QED
  BY <1>4, <1>5, <1>7, <1>8, <1>9 DEF StepOK

\* Only a request that resumes a thread ever waits for a lock.
LEMMA LockGrantedStep ==
    ASSUME ServerInv, NEW r \in Requests, LockGranted(r)
    PROVE  StepOK(r)
<1>1. ContextOf(r)
  BY ServerInvContext
<1>2. UNCHANGED <<requestVars, limiterVars, registryVars, threadVars>>
  BY DEF LockGranted
<1>3. /\ pc[r] = "waiting" /\ handler[r] \in Resumers /\ want[r] = thread[r]
      /\ thread[r] \in Threads /\ mode[thread[r]] # "none" /\ r \notin tracked
  BY <1>1 DEF LockGranted, ContextOf, TaskInv, HandlerFits, ThreadFits, LockFits, Locked,
     TrackedFits, OwnedHandlers
<1>4. /\ [LocksNext]_lockVars
      /\ want'[r] = want[r] /\ r \in holding'
      /\ \A q \in Requests \ {r} : want'[q] = want[q] /\ (q \in holding' <=> q \in holding)
  BY <1>1, WakeUpEffect DEF LockGranted, ContextOf
<1>5. pc' = [pc EXCEPT ![r] = "resuming"]
  BY <1>3 DEF LockGranted, Proceed, Goto, Resumers, PlainResumers
<1>6. OthersKeep(r)
  BY <1>1, <1>2, <1>3, <1>4, <1>5 DEF OthersKeep, ContextOf, TasksTypeOK, requestVars,
     limiterVars, registryVars, threadVars
<1>7. TaskInv(r)'
  BY <1>1, <1>2, <1>3, <1>4, <1>5 DEF ContextOf, TasksTypeOK, requestVars, limiterVars,
     registryVars, threadVars, TaskInv, InSlot, HandlerFits, ThreadFits, LockFits, Locked,
     HoldsItsLock, TrackedFits, Streams, InCodex, Yielded, WithThread,
     PlainOpeners, PlainResumers, PlainTurns, StreamTurns, Openers, Resumers,
     TurnHandlers, Deleters, AllHandlers
<1>8. RegistryTypeOK' /\ RegistryExact'
  BY <1>1, <1>2, <1>3, <1>6, RegistryKept DEF ContextOf
<1>9. QED
  BY <1>2, <1>4, <1>6, <1>7, <1>8 DEF StepOK

\* Nobody can ask for the lock of a thread that was not started yet.
LEMMA FreshThreadsHaveNoQueue == ServerInv => FreshThreadsUnlocked
<1>1. SUFFICES ASSUME ServerInv, NEW t \in Threads, NEW q \in Requests, want[q] = t
               PROVE  mode[t] # "none"
  BY DEF FreshThreadsUnlocked, Queue
<1>2. ContextOf(q) /\ t # NoThread
  BY <1>1, ServerInvContext, DomainAssumption
<1>3. QED
  BY <1>1, <1>2 DEF ContextOf, TaskInv, LockFits, Locked, HoldsItsLock, HandlerFits,
     ThreadFits, OwnedHandlers, WithThread

\* A one-shot chat has a thread of its own and takes no lock.
LEMMA ChatStep ==
    ASSUME ServerInv, NEW r \in Requests, NEW t \in Threads, Chat(r, t)
    PROVE  StepOK(r)
<1>1. ContextOf(r)
  BY ServerInvContext
<1>2. UNCHANGED <<handler, client, limiterVars, lockVars, registryVars>>
  BY DEF Chat
<1>3. pc[r] = "opening" /\ handler[r] = "chat" /\ r \notin tracked
  BY <1>1 DEF Chat, ContextOf, TaskInv, TrackedFits
<1>4. /\ pc' = [pc EXCEPT ![r] = "turn"]
      /\ thread' = [thread EXCEPT ![r] = t]
      /\ mode[t] = "none" /\ mode' = [mode EXCEPT ![t] = "ephemeral"]
  BY DEF Chat, Goto, StartThread
<1>5. OthersKeep(r)
  BY <1>1, <1>2, <1>3, <1>4 DEF OthersKeep, ContextOf, TasksTypeOK, BackendTypeOK,
     limiterVars, lockVars, registryVars
<1>6. TaskInv(r)'
  BY <1>1, <1>2, <1>3, <1>4 DEF ContextOf, TasksTypeOK, BackendTypeOK, limiterVars, lockVars,
     registryVars, TaskInv, InSlot, HandlerFits, ThreadFits, LockFits, Locked,
     HoldsItsLock, TrackedFits, Streams, InCodex, Yielded, WithThread,
     PlainOpeners, PlainResumers, PlainTurns, StreamTurns, Openers, Resumers,
     TurnHandlers, Deleters, AllHandlers, OwnedHandlers
<1>7. RegistryTypeOK' /\ RegistryExact'
  BY <1>1, <1>2, <1>3, <1>5, RegistryKept DEF ContextOf
<1>8. QED
  BY <1>2, <1>5, <1>6, <1>7 DEF StepOK

\* The lock of a new thread is free, so it is taken at once.
LEMMA ThreadStartedStep ==
    ASSUME ServerInv, NEW r \in Requests, NEW t \in Threads, ThreadStarted(r, t)
    PROVE  StepOK(r)
<1>1. ContextOf(r)
  BY ServerInvContext
<1>2. UNCHANGED <<handler, client, limiterVars, registryVars>>
  BY DEF ThreadStarted
<1>3. /\ pc[r] = "opening" /\ handler[r] \in Openers \ {"chat"} /\ want[r] = NoThread
      /\ r \notin tracked
  BY <1>1 DEF ThreadStarted, ContextOf, TaskInv, TrackedFits, LockFits, Locked
<1>4. /\ thread' = [thread EXCEPT ![r] = t]
      /\ mode[t] = "none" /\ mode' = [mode EXCEPT ![t] = ModeOf(handler[r])]
      /\ ModeOf(handler[r]) # "none"
  BY DEF ThreadStarted, StartThread, ModeOf
<1>5. Queue(t) = {}
  BY <1>4, FreshThreadsHaveNoQueue DEF FreshThreadsUnlocked
<1>6. /\ [LocksNext]_lockVars
      /\ want'[r] = t /\ r \in holding'
      /\ \A q \in Requests \ {r} : want'[q] = want[q] /\ (q \in holding' <=> q \in holding)
  BY <1>1, <1>3, <1>5, AcquireEffect DEF ThreadStarted, TakeLock, ContextOf
<1>7. \/ handler[r] = "stream_new_thread" /\ pc' = [pc EXCEPT ![r] = "announcing"]
      \/ handler[r] # "stream_new_thread" /\ pc' = [pc EXCEPT ![r] = "turn"]
  BY <1>3, <1>5 DEF ThreadStarted, TakeLock, Proceed, Goto, Openers, PlainOpeners, Resumers,
     PlainResumers
<1>8. OthersKeep(r)
  BY <1>1, <1>2, <1>3, <1>4, <1>6, <1>7 DEF OthersKeep, ContextOf, TasksTypeOK, BackendTypeOK,
     limiterVars, registryVars
<1>9. TaskInv(r)'
  BY <1>1, <1>2, <1>3, <1>4, <1>6, <1>7 DEF ContextOf, TasksTypeOK, BackendTypeOK, limiterVars,
     registryVars, TaskInv, InSlot, HandlerFits, ThreadFits, LockFits, Locked,
     HoldsItsLock, TrackedFits, Streams, InCodex, Yielded, WithThread,
     PlainOpeners, PlainResumers, PlainTurns, StreamTurns, Openers, Resumers,
     TurnHandlers, Deleters, AllHandlers, OwnedHandlers
<1>10. RegistryTypeOK' /\ RegistryExact'
  BY <1>1, <1>2, <1>3, <1>8, RegistryKept DEF ContextOf
<1>11. QED
  BY <1>2, <1>6, <1>8, <1>9, <1>10 DEF StepOK

\* A chunk that the client took: the turn is asked for, the events go on, or
\* the generator ends and everything is left.
LEMMA ChunkSentStep ==
    ASSUME ServerInv, NEW r \in Requests, ChunkSent(r)
    PROVE  StepOK(r)
<1>1. ContextOf(r)
  BY ServerInvContext
<1>2. UNCHANGED <<requestVars, threadVars>>
  BY DEF ChunkSent
<1>3. pc[r] \in Yielded /\ Streams(r)
  BY <1>1 DEF ChunkSent, ContextOf, TaskInv, HandlerFits
<1>4. CASE pc[r] \in {"announcing", "relaying"}
  <2>1. UNCHANGED <<limiterVars, lockVars, registryVars>>
    BY <1>4 DEF ChunkSent
  <2>2. \/ pc[r] = "announcing" /\ pc' = [pc EXCEPT ![r] = "starting"]
        \/ pc[r] = "relaying" /\ pc' = [pc EXCEPT ![r] = "turn"]
    BY <1>4 DEF ChunkSent, Goto
  <2>3. OthersKeep(r)
    BY <1>1, <1>2, <2>1, <2>2 DEF OthersKeep, ContextOf, TasksTypeOK, requestVars,
       threadVars, limiterVars, lockVars, registryVars
  <2>4. TaskInv(r)'
    BY <1>1, <1>2, <1>3, <2>1, <2>2 DEF ContextOf, TasksTypeOK, requestVars, threadVars,
       limiterVars, lockVars, registryVars, TaskInv, InSlot, HandlerFits, ThreadFits, LockFits,
       Locked, HoldsItsLock, TrackedFits, Streams, InCodex, Yielded, WithThread,
       StreamTurns, TurnHandlers
  <2>5. RegistryTypeOK' /\ RegistryExact'
    BY <1>1, <1>2, <2>1, <2>3, RegistryKept DEF ContextOf, RegistryExact, lockVars, requestVars
  <2>6. QED
    BY <2>1, <2>3, <2>4, <2>5 DEF StepOK
<1>5. CASE pc[r] \in {"failing", "finishing"}
  <2>1. GeneratorEnds(r) /\ ExitSlot(r) /\ pc' = [pc EXCEPT ![r] = "done"]
    BY <1>5 DEF ChunkSent, Finish, Goto
  <2>2. [LimiterNext]_limiterVars /\ slots' = slots \ {r}
    BY <1>1, <1>3, <2>1 DEF ContextOf, TaskInv, InSlot, ExitSlot, LimiterNext
  <2>3. LeaveLock(r)
    BY <1>1, <1>3, <2>1, GeneratorEndsLeavesLock DEF ContextOf
  <2>4. LockLeft(r)
    BY <1>1, <2>3, LeaveLockEffect DEF LockLeft, ContextOf
  <2>5. r \notin tracked
    BY <1>1, <1>5 DEF ContextOf, TaskInv, TrackedFits
  <2>6. UNCHANGED registryVars
    BY <2>1, <2>5 DEF GeneratorEnds, Unregister
  <2>7. OthersKeep(r)
    BY <1>1, <1>2, <2>1, <2>2, <2>4, <2>6 DEF OthersKeep, ContextOf, TasksTypeOK, LockLeft,
       requestVars, threadVars, registryVars
  <2>8. TaskInv(r)'
    BY <1>1, <1>2, <1>3, <2>1, <2>2, <2>4, <2>5, <2>6 DEF ContextOf, TasksTypeOK, LockLeft,
       requestVars, threadVars, registryVars, TaskInv, InSlot, HandlerFits, ThreadFits,
       LockFits, Locked, TrackedFits, Streams, InCodex, Yielded, WithThread
  <2>9. RegistryTypeOK' /\ RegistryExact'
    BY <1>1, <2>5, <2>6, <2>7, RegistryKept DEF ContextOf
  <2>10. QED
    BY <2>2, <2>4, <2>7, <2>8, <2>9 DEF StepOK, LockLeft
<1>6. QED
  BY <1>3, <1>4, <1>5 DEF Yielded

\* Steps of the clock and of the backend alone move no task.
LEMMA NoTaskMovesStep ==
    ASSUME ServerInv, NEW r \in Requests,
           UNCHANGED <<pc, requestVars, limiterVars, lockVars, registryVars, mode>>
    PROVE  StepOK(r)
<1>1. ContextOf(r)
  BY ServerInvContext
<1>2. OthersKeep(r)
  BY DEF OthersKeep, requestVars, limiterVars, lockVars, registryVars
<1>3. TaskInv(r)'
  BY <1>1 DEF ContextOf, requestVars, limiterVars, lockVars, registryVars, TaskInv, InSlot,
     HandlerFits, ThreadFits, LockFits, Locked, HoldsItsLock, TrackedFits, Streams
<1>4. RegistryTypeOK' /\ RegistryExact'
  BY <1>1 DEF ContextOf, requestVars, lockVars, registryVars, RegistryTypeOK, RegistryExact
<1>5. QED
  BY <1>2, <1>3, <1>4 DEF StepOK

----------------------------------------------------------------------------
(* Every step. *)

\* All steps the event loop takes keep the task invariant.
LEMMA ServerStepOK ==
    ASSUME ServerInv, NEW r \in Requests, ServerStep(r)
    PROVE  StepOK(r)
BY CheckOwnerStep, RefuseStep, AdmitOpenerStep, AdmitResumerStep, LockGrantedStep,
   TurnRegisteredStep, RunReturnsStep, PlainTimeoutStep, StreamTimeoutStep, StreamEndsStep,
   GeneratorFinalisedStep, SaveStep, SaveFailsStep, MarkStep, MarkFailsStep, LookUpTurnStep
DEF ServerStep

\* All steps of a stream's client keep the task invariant.
LEMMA ClientStepOK ==
    ASSUME ServerInv, NEW r \in Requests, ClientStep(r)
    PROVE  StepOK(r)
BY ChunkSentStep, ChunkSentLateStep, ResponseEndsStep, DisconnectInCodexStep,
   DisconnectInYieldStep, DisconnectInSaveStep DEF ClientStep

\* All answers of the backend keep the task invariant.
LEMMA BackendStepOK ==
    ASSUME ServerInv, NEW r \in Requests, BackendStep(r)
    PROVE  StepOK(r)
<1>1. CASE TurnBegins(r) \/ TurnEnds(r)
  BY <1>1, NoTaskMovesStep DEF TurnBegins, TurnEnds, threadVars
<1>2. CASE ~(TurnBegins(r) \/ TurnEnds(r))
  BY <1>2, ChatStep, ThreadStartedStep, ThreadResumedStep, StreamResumedStep, RelayEventStep,
     RunRaisesStep, StreamRaisesStep, ArchivedStep, ArchiveFailsStep, InterruptStep,
     InterruptRaisesStep DEF BackendStep
<1>3. QED
  BY <1>1, <1>2

\* A new process has no task, so nothing can be held by one.
LEMMA RestartKeepsTasks ==
    ASSUME ServerInv, Restart
    PROVE  /\ \A r \in Requests : TaskInv(r)'
           /\ [LimiterNext]_limiterVars /\ [LocksNext]_lockVars
           /\ RegistryTypeOK' /\ RegistryExact'
<1>1. LimiterReset /\ LocksReset /\ RegistryReset
  BY DEF Restart
<1>2. RegistryTypeOK' /\ RegistryExact'
  BY <1>1 DEF RegistryReset, RegistryTypeOK, RegistryExact
<1>3. ASSUME NEW r \in Requests
      PROVE  TaskInv(r)'
  <2>1. ContextOf(r)
    BY ServerInvContext
  <2>2. /\ pc'[r] = IF pc[r] = "idle" THEN "idle" ELSE "done"
        /\ UNCHANGED <<requestVars, threadVars>>
        /\ want'[r] = NoThread /\ slots' = {} /\ tracked' = {}
    BY <1>1 DEF Restart, LimiterReset, LocksReset, RegistryReset
  <2>3. QED
    BY <2>1, <2>2 DEF ContextOf, requestVars, threadVars, TaskInv, InSlot, HandlerFits,
       ThreadFits, LockFits, Locked, TrackedFits, Streams, InCodex, Yielded, WithThread
<1>4. QED
  BY <1>1, <1>2, <1>3 DEF LimiterNext, LocksNext

\* Every step uses the limiter and the locks as their modules ask it to, and
\* leaves each task with what its position says.
LEMMA EveryStep ==
    ASSUME ServerInv, [Next]_vars
    PROVE  /\ \A r \in Requests : TaskInv(r)'
           /\ [LimiterNext]_limiterVars /\ [LocksNext]_lockVars
           /\ RegistryTypeOK' /\ RegistryExact'
<1> DEFINE Goal == /\ \A r \in Requests : TaskInv(r)'
                   /\ [LimiterNext]_limiterVars /\ [LocksNext]_lockVars
                   /\ RegistryTypeOK' /\ RegistryExact'
<1>1. ASSUME NEW r \in Requests, StepOK(r)
      PROVE  Goal
  <2>1. \A q \in Requests : TaskInv(q)'
    BY <1>1, OtherTasksKeepTaskInv DEF StepOK, ServerInv
  <2>2. QED
    BY <1>1, <2>1 DEF StepOK
<1>2. ASSUME NEW r \in Requests, NEW h \in Handlers, NEW c \in Clients,
             NEW t \in IF h \in OwnedHandlers THEN Threads ELSE {NoThread}, Arrive(r, h, c, t)
      PROVE  Goal
  BY <1>1, <1>2, ArriveStep
<1>3. ASSUME NEW r \in Requests, ServerStep(r) \/ ClientStep(r) \/ BackendStep(r)
      PROVE  Goal
  BY <1>1, <1>3, ServerStepOK, ClientStepOK, BackendStepOK
<1>4. ASSUME NEW r \in Requests, DeadlinePasses(r) \/ StrayStep(r)
      PROVE  Goal
  BY <1>1, <1>4, NoTaskMovesStep DEF DeadlinePasses, StrayStep, StrayLands, StrayEnds, backendVars
<1>5. CASE Restart
  BY <1>5, RestartKeepsTasks
<1>6. CASE UNCHANGED vars
  <2>1. UNCHANGED <<pc, requestVars, limiterVars, lockVars, registryVars, mode>>
    BY <1>6 DEF vars, backendVars
  <2>2. ASSUME NEW r \in Requests
        PROVE  TaskInv(r)'
    BY <2>1, NoTaskMovesStep DEF StepOK
  <2>3. RegistryTypeOK' /\ RegistryExact'
    BY <2>1 DEF ServerInv, TypeOK, requestVars, lockVars, registryVars, RegistryTypeOK, RegistryExact
  <2>4. QED
    BY <2>1, <2>2, <2>3
<1>7. QED
  BY <1>2, <1>3, <1>4, <1>5, <1>6 DEF Next, AllServed
----------------------------------------------------------------------------
(* Types. *)

\* The variables of the tasks keep their types: one step per action.
LEMMA TasksTypeKept ==
    ASSUME ServerInv, [Next]_vars
    PROVE  TasksTypeOK'
<1> USE DEF TasksTypeOK, requestVars, serverVars, Goto, Say, Finish
<1>1. TasksTypeOK /\ \A r \in Requests : ContextOf(r)
  BY ServerInvContext DEF ServerInv, TypeOK
<1>2. ASSUME NEW r \in Requests, NEW h \in Handlers, NEW c \in Clients,
             NEW t \in IF h \in OwnedHandlers THEN Threads ELSE {NoThread}, Arrive(r, h, c, t)
      PROVE  TasksTypeOK'
  BY <1>1, <1>2 DEF Arrive, Locations
<1>3. ASSUME NEW r \in Requests, CheckOwner(r)
      PROVE  TasksTypeOK'
  BY <1>1, <1>3 DEF CheckOwner, Locations, InCodex, Yielded, Answers
<1>4. ASSUME NEW r \in Requests, Refuse(r)
      PROVE  TasksTypeOK'
  BY <1>1, <1>4 DEF Refuse, Locations, InCodex, Yielded, Answers
<1>5. ASSUME NEW r \in Requests, AdmitOpener(r)
      PROVE  TasksTypeOK'
  BY <1>1, <1>5 DEF AdmitOpener, Locations, InCodex, Yielded, Answers
<1>6. ASSUME NEW r \in Requests, AdmitResumer(r)
      PROVE  TasksTypeOK'
  BY <1>1, <1>6 DEF AdmitResumer, TakeLock, Proceed, Locations, InCodex, Yielded, Answers
<1>7. ASSUME NEW r \in Requests, LockGranted(r)
      PROVE  TasksTypeOK'
  BY <1>1, <1>7 DEF LockGranted, Proceed, Locations, InCodex, Yielded, Answers
<1>8. ASSUME NEW r \in Requests, TurnRegistered(r)
      PROVE  TasksTypeOK'
  BY <1>1, <1>8 DEF TurnRegistered, Locations, InCodex, Yielded, Answers
<1>9. ASSUME NEW r \in Requests, RunReturns(r)
      PROVE  TasksTypeOK'
  BY <1>1, <1>9 DEF RunReturns, Locations, InCodex, Yielded, Answers
<1>10. ASSUME NEW r \in Requests, PlainTimeout(r)
      PROVE  TasksTypeOK'
  BY <1>1, <1>10 DEF PlainTimeout, Locations, InCodex, Yielded, Answers
<1>11. ASSUME NEW r \in Requests, StreamTimeout(r)
      PROVE  TasksTypeOK'
  BY <1>1, <1>11 DEF StreamTimeout, Locations, InCodex, Yielded, Answers
<1>12. ASSUME NEW r \in Requests, StreamEnds(r)
      PROVE  TasksTypeOK'
  BY <1>1, <1>12 DEF StreamEnds, Locations, InCodex, Yielded, Answers
<1>13. ASSUME NEW r \in Requests, GeneratorFinalised(r)
      PROVE  TasksTypeOK'
  BY <1>1, <1>13 DEF GeneratorFinalised, Locations, InCodex, Yielded, Answers
<1>14. ASSUME NEW r \in Requests, Save(r)
      PROVE  TasksTypeOK'
  BY <1>1, <1>14 DEF Save, Locations, InCodex, Yielded, Answers
<1>15. ASSUME NEW r \in Requests, Mark(r)
      PROVE  TasksTypeOK'
  BY <1>1, <1>15 DEF Mark, Locations, InCodex, Yielded, Answers
<1>16. ASSUME NEW r \in Requests, LookUpTurn(r)
      PROVE  TasksTypeOK'
  BY <1>1, <1>16 DEF LookUpTurn, ContextOf, RegistryTypeOK, TaskInv, ThreadFits, HandlerFits, OwnedHandlers, Locations, InCodex, Yielded, Answers
<1>17. ASSUME NEW r \in Requests, ChunkSent(r)
      PROVE  TasksTypeOK'
  BY <1>1, <1>17 DEF ChunkSent, Locations, InCodex, Yielded, Answers
<1>18. ASSUME NEW r \in Requests, ChunkSentLate(r)
      PROVE  TasksTypeOK'
  BY <1>1, <1>18 DEF ChunkSentLate, Locations, InCodex, Yielded, Answers
<1>19. ASSUME NEW r \in Requests, ResponseEnds(r)
      PROVE  TasksTypeOK'
  BY <1>1, <1>19 DEF ResponseEnds, Locations, InCodex, Yielded, Answers
<1>20. ASSUME NEW r \in Requests, DisconnectInCodex(r)
      PROVE  TasksTypeOK'
  BY <1>1, <1>20 DEF DisconnectInCodex, Locations, InCodex, Yielded, Answers
<1>21. ASSUME NEW r \in Requests, DisconnectInYield(r)
      PROVE  TasksTypeOK'
  BY <1>1, <1>21 DEF DisconnectInYield, Locations, InCodex, Yielded, Answers
<1>22. ASSUME NEW r \in Requests, DisconnectInSave(r)
      PROVE  TasksTypeOK'
  BY <1>1, <1>22 DEF DisconnectInSave, Locations, InCodex, Yielded, Answers
<1>23. ASSUME NEW r \in Requests, ThreadResumed(r)
      PROVE  TasksTypeOK'
  BY <1>1, <1>23 DEF ThreadResumed, Locations, InCodex, Yielded, Answers
<1>24. ASSUME NEW r \in Requests, StreamResumed(r)
      PROVE  TasksTypeOK'
  BY <1>1, <1>24 DEF StreamResumed, Locations, InCodex, Yielded, Answers
<1>25. ASSUME NEW r \in Requests, RelayEvent(r)
      PROVE  TasksTypeOK'
  BY <1>1, <1>25 DEF RelayEvent, Locations, InCodex, Yielded, Answers
<1>26. ASSUME NEW r \in Requests, TurnBegins(r)
      PROVE  TasksTypeOK'
  BY <1>1, <1>26 DEF TurnBegins, Locations, InCodex, Yielded, Answers
<1>27. ASSUME NEW r \in Requests, TurnEnds(r)
      PROVE  TasksTypeOK'
  BY <1>1, <1>27 DEF TurnEnds, Locations, InCodex, Yielded, Answers
<1>28. ASSUME NEW r \in Requests, RunRaises(r)
      PROVE  TasksTypeOK'
  BY <1>1, <1>28 DEF RunRaises, Locations, InCodex, Yielded, Answers
<1>29. ASSUME NEW r \in Requests, StreamRaises(r)
      PROVE  TasksTypeOK'
  BY <1>1, <1>29 DEF StreamRaises, Locations, InCodex, Yielded, Answers
<1>30. ASSUME NEW r \in Requests, Archived(r)
      PROVE  TasksTypeOK'
  BY <1>1, <1>30 DEF Archived, Locations, InCodex, Yielded, Answers
<1>31. ASSUME NEW r \in Requests, ArchiveFails(r)
      PROVE  TasksTypeOK'
  BY <1>1, <1>31 DEF ArchiveFails, Locations, InCodex, Yielded, Answers
<1>32. ASSUME NEW r \in Requests, Interrupt(r)
      PROVE  TasksTypeOK'
  BY <1>1, <1>32 DEF Interrupt, Locations, InCodex, Yielded, Answers
<1>33. ASSUME NEW r \in Requests, InterruptRaises(r)
      PROVE  TasksTypeOK'
  BY <1>1, <1>33 DEF InterruptRaises, Locations, InCodex, Yielded, Answers
<1>34. ASSUME NEW r \in Requests, NEW t \in Threads, Chat(r, t)
      PROVE  TasksTypeOK'
  BY <1>1, <1>34 DEF Chat, Locations, InCodex
<1>35. ASSUME NEW r \in Requests, NEW t \in Threads, ThreadStarted(r, t)
      PROVE  TasksTypeOK'
  BY <1>1, <1>35 DEF ThreadStarted, TakeLock, Proceed, Locations, InCodex, Yielded
<1>36. ASSUME NEW r \in Requests, DeadlinePasses(r)
      PROVE  TasksTypeOK'
  BY <1>1, <1>36 DEF DeadlinePasses
<1>37. CASE Restart
  BY <1>1, <1>37, ServerAssumption DEF Restart, Locations, Answers
<1>38. CASE UNCHANGED vars
  BY <1>1, <1>38 DEF vars
<1>39. ASSUME NEW r \in Requests, SaveFails(r)
      PROVE  TasksTypeOK'
  BY <1>1, <1>39 DEF SaveFails, Locations, InCodex, Yielded, Answers
<1>40. ASSUME NEW r \in Requests, MarkFails(r)
      PROVE  TasksTypeOK'
  BY <1>1, <1>40 DEF MarkFails, Locations, InCodex, Yielded, Answers
<1>41. ASSUME NEW r \in Requests, StrayStep(r)
      PROVE  TasksTypeOK'
  BY <1>1, <1>41 DEF StrayStep, StrayLands, StrayEnds
<1>42. QED
  BY <1>2, <1>3, <1>4, <1>5, <1>6, <1>7, <1>8, <1>9, <1>10, <1>11, <1>12, <1>13, <1>14,
     <1>15, <1>16, <1>17, <1>18, <1>19, <1>20, <1>21, <1>22, <1>23, <1>24, <1>25,
     <1>26, <1>27, <1>28, <1>29, <1>30, <1>31, <1>32, <1>33, <1>34, <1>35, <1>36,
     <1>37, <1>38, <1>39, <1>40, <1>41
  DEF Next, ServerStep, ClientStep, BackendStep, AllServed
\* The state of the backend keeps its type.
LEMMA BackendTypeKept ==
    ASSUME ServerInv, [Next]_vars
    PROVE  BackendTypeOK'
<1> USE DEF BackendTypeOK
<1>1. BackendTypeOK /\ TasksTypeOK
  BY DEF ServerInv, TypeOK, TasksTypeOK
<1>2. CASE UNCHANGED <<backendVars>>
  BY <1>1, <1>2 DEF backendVars
<1>3. ASSUME NEW r \in Requests, AdmitResumer(r)
      PROVE  BackendTypeOK'
  BY <1>1, <1>3 DEF AdmitResumer, TakeLock, Proceed, RequestTurn, TurnStates, Ended, threadVars
<1>4. ASSUME NEW r \in Requests, LockGranted(r)
      PROVE  BackendTypeOK'
  BY <1>1, <1>4 DEF LockGranted, Proceed, RequestTurn, TurnStates, threadVars
<1>5. ASSUME NEW r \in Requests, NEW t \in Threads, Chat(r, t)
      PROVE  BackendTypeOK'
  BY <1>1, <1>5 DEF Chat, StartThread, RequestTurn, Modes, TurnStates, TasksTypeOK
<1>6. ASSUME NEW r \in Requests, NEW t \in Threads, ThreadStarted(r, t)
      PROVE  BackendTypeOK'
  BY <1>1, <1>6 DEF ThreadStarted, StartThread, TakeLock, Proceed, RequestTurn, Modes, ModeOf, TurnStates, TasksTypeOK
<1>7. ASSUME NEW r \in Requests, ThreadResumed(r)
      PROVE  BackendTypeOK'
  BY <1>1, <1>7 DEF ThreadResumed, RequestTurn, TurnStates, threadVars
<1>8. ASSUME NEW r \in Requests, ChunkSent(r)
      PROVE  BackendTypeOK'
  BY <1>1, <1>8 DEF ChunkSent, RequestTurn, TurnStates, threadVars
<1>9. ASSUME NEW r \in Requests, TurnBegins(r)
      PROVE  BackendTypeOK'
  BY <1>1, <1>9 DEF TurnBegins, TurnStates, threadVars
<1>10. ASSUME NEW r \in Requests, TurnEnds(r)
      PROVE  BackendTypeOK'
  BY <1>1, <1>10 DEF TurnEnds, TurnStates, threadVars
<1>11. ASSUME NEW r \in Requests, Archived(r)
      PROVE  BackendTypeOK'
  BY <1>1, <1>11, ServerInvContext DEF Archived, ArchiveThread, ContextOf, TaskInv, ThreadFits, HandlerFits, OwnedHandlers
<1>12. ASSUME NEW r \in Requests, Interrupt(r)
      PROVE  BackendTypeOK'
  BY <1>1, <1>12 DEF Interrupt, TurnStates, threadVars
<1>13. CASE Restart
  BY <1>1, <1>13 DEF Restart, TurnStates, threadVars
<1>14. QED
  BY <1>2, <1>3, <1>4, <1>5, <1>6, <1>7, <1>8, <1>9, <1>10, <1>11, <1>12, <1>13
  DEF vars, Next, ServerStep, ClientStep, BackendStep, Arrive, DeadlinePasses, AllServed,
     CheckOwner, Refuse, AdmitOpener, TurnRegistered, RunReturns, PlainTimeout,
     StreamTimeout, StreamEnds, GeneratorFinalised, Save, Mark, LookUpTurn,
     ChunkSentLate, ResponseEnds, DisconnectInCodex, DisconnectInYield,
     DisconnectInSave, StreamResumed, RelayEvent, RunRaises, StreamRaises,
     ArchiveFails, InterruptRaises, SaveFails, MarkFails, StrayStep, StrayLands, StrayEnds

\* A row is written whole: the tables keep their shape.
LEMMA TableWriteType ==
    ASSUME NEW table \in Tables, NEW t, NEW row \in Row,
           rows \in [Tables -> [Threads -> Row]]
    PROVE  [rows EXCEPT ![table][t] = row] \in [Tables -> [Threads -> Row]]
<1>1. [rows[table] EXCEPT ![t] = row] \in [Threads -> Row]
  OBVIOUS
<1>2. QED
  BY <1>1

\* An INSERT or an UPDATE of last_turn_id leaves a well-formed table.
LEMMA WriteRowType ==
    ASSUME StoreTypeOK, TasksTypeOK, NEW r \in Requests, thread[r] \in Threads, WriteRow(r)
    PROVE  rows' \in [Tables -> [Threads -> Row]]
<1> DEFINE table == TableOf(handler[r])
           t == thread[r]
<1>1. table \in Tables /\ rows[table][t] \in Row
  BY DEF TableOf, Tables, StoreTypeOK
<1>2. CASE rows' = [rows EXCEPT ![table][t] = NewRow(client[r])]
  <2>1. NewRow(client[r]) \in Row
    BY DEF NewRow, Row, TasksTypeOK
  <2>2. QED
    BY <1>1, <1>2, <2>1, TableWriteType DEF StoreTypeOK
<1>3. CASE rows' = [rows EXCEPT ![table][t].lastTurn = r]
  <2>1. [rows[table][t] EXCEPT !.lastTurn = r] \in Row
    BY <1>1 DEF Row
  <2>2. rows' = [rows EXCEPT ![table][t] = [rows[table][t] EXCEPT !.lastTurn = r]]
    BY <1>1, <1>3 DEF StoreTypeOK
  <2>3. QED
    BY <1>1, <2>1, <2>2, TableWriteType DEF StoreTypeOK
<1>4. CASE rows' = rows
  BY <1>4 DEF StoreTypeOK
<1>5. QED
  BY <1>2, <1>3, <1>4 DEF WriteRow, InsertRow, TouchRow

\* So does the UPDATE of archived, and the DELETE.
LEMMA MarkRowType ==
    ASSUME StoreTypeOK, NEW t \in Threads, ArchiveRow(t) \/ DeleteRow(t)
    PROVE  rows' \in [Tables -> [Threads -> Row]]
<1>1. "codex_threads" \in Tables /\ "chat_conversations" \in Tables
  BY DEF Tables
<1>2. CASE rows' = [rows EXCEPT !["codex_threads"][t].archived = TRUE]
  <2>1. rows["codex_threads"][t] \in Row
    BY <1>1 DEF StoreTypeOK
  <2>2. [rows["codex_threads"][t] EXCEPT !.archived = TRUE] \in Row
    BY <2>1 DEF Row
  <2>3. rows' = [rows EXCEPT !["codex_threads"][t] =
                    [rows["codex_threads"][t] EXCEPT !.archived = TRUE]]
    BY <1>1, <1>2 DEF StoreTypeOK
  <2>4. QED
    BY <1>1, <2>2, <2>3, TableWriteType DEF StoreTypeOK
<1>3. CASE DeleteRow(t)
  <2>1. NoRow \in Row
    BY DEF NoRow, NewRow, Row
  <2>2. QED
    BY <1>1, <1>3, <2>1, TableWriteType DEF DeleteRow, StoreTypeOK
<1>4. CASE rows' = rows
  BY <1>4 DEF StoreTypeOK
<1>5. QED
  BY <1>2, <1>3, <1>4 DEF ArchiveRow

\* The tables and the queue of writes keep their types.
LEMMA StoreTypeKept ==
    ASSUME ServerInv, [Next]_vars
    PROVE  StoreTypeOK'
<1>1. StoreTypeOK /\ TasksTypeOK /\ \A r \in Requests : ContextOf(r)
  BY ServerInvContext DEF ServerInv, TypeOK, TasksTypeOK
<1>2. CASE UNCHANGED <<storeVars>>
  BY <1>1, <1>2 DEF storeVars, strayVars, StoreTypeOK
<1>3. ASSUME NEW r \in Requests, RunReturns(r)
      PROVE  StoreTypeOK'
  BY <1>1, <1>3 DEF RunReturns, AskToWrite, strayVars, StoreTypeOK
<1>4. ASSUME NEW r \in Requests, StreamEnds(r)
      PROVE  StoreTypeOK'
  BY <1>1, <1>4 DEF StreamEnds, AskToWrite, strayVars, StoreTypeOK
<1>5. ASSUME NEW r \in Requests, Save(r)
      PROVE  StoreTypeOK'
  BY <1>1, <1>5, WriteRowType DEF Save, WriteDone, MeetStrays, IsNextToWrite, StoreTypeOK, ContextOf, TaskInv, ThreadFits, HandlerFits, WithThread
<1>6. ASSUME NEW r \in Requests, DisconnectInSave(r)
      PROVE  StoreTypeOK'
  BY <1>1, <1>6 DEF DisconnectInSave, WithdrawWrite, RemoveAt, StoreTypeOK
<1>7. ASSUME NEW r \in Requests, Archived(r)
      PROVE  StoreTypeOK'
  BY <1>1, <1>7 DEF Archived, AskToWrite, strayVars, StoreTypeOK
<1>8. ASSUME NEW r \in Requests, ArchiveFails(r)
      PROVE  StoreTypeOK'
  BY <1>1, <1>8 DEF ArchiveFails, AskToWrite, strayVars, StoreTypeOK
<1>9. ASSUME NEW r \in Requests, Mark(r)
      PROVE  StoreTypeOK'
  BY <1>1, <1>9, MarkRowType DEF Mark, MarkRow, WriteDone, MeetStrays, IsNextToWrite, StoreTypeOK,
     ContextOf, TaskInv, ThreadFits, HandlerFits, OwnedHandlers
<1>10. CASE Restart
  BY <1>1, <1>10 DEF Restart, StoreTypeOK
<1>11. ASSUME NEW r \in Requests, SaveFails(r) \/ MarkFails(r)
      PROVE  StoreTypeOK'
  <2>1. thread[r] \in Threads
    BY <1>1, <1>11 DEF SaveFails, MarkFails, ContextOf, TaskInv, ThreadFits, HandlerFits, WithThread,
       OwnedHandlers
  <2>2. rows' \in [Tables -> [Threads -> Row]]
    <3>1. CASE rows' = rows
      BY <1>1, <3>1 DEF StoreTypeOK
    <3>2. CASE WriteRow(r)
      BY <1>1, <2>1, <3>2, WriteRowType
    <3>3. CASE MarkRow(r)
      BY <1>1, <2>1, <3>3, MarkRowType DEF MarkRow
    <3>4. ASSUME SaveFails(r)
          PROVE  rows' = rows \/ WriteRow(r)
      BY <3>4, Zenon DEF SaveFails
    <3>5. ASSUME MarkFails(r)
          PROVE  rows' = rows \/ MarkRow(r)
      BY <3>5, Zenon DEF MarkFails
    <3>6. CASE SaveFails(r)
      BY <3>1, <3>2, <3>4, <3>6
    <3>7. CASE MarkFails(r)
      BY <3>1, <3>3, <3>5, <3>7
    <3>8. QED
      BY <1>11, <3>6, <3>7
  <2>3. WriteDone /\ MeetStrays(r) /\ IsNextToWrite(r) /\ UNCHANGED <<stray, leaving>>
    BY <1>11, Zenon DEF SaveFails, MarkFails
  <2>4. QED
    BY <1>1, <2>2, <2>3 DEF WriteDone, MeetStrays, IsNextToWrite, StoreTypeOK
<1>12. ASSUME NEW r \in Requests, StrayStep(r)
      PROVE  StoreTypeOK'
  BY <1>1, <1>12, WriteRowType DEF StrayStep, StrayLands, StrayEnds, StoreTypeOK, ServerInv, StrayFits
<1>13. ASSUME NEW r \in Requests, CheckOwner(r)
      PROVE  StoreTypeOK'
  BY <1>1, <1>13 DEF CheckOwner, MeetStrays, StoreTypeOK
<1>14. QED
  BY <1>2, <1>3, <1>4, <1>5, <1>6, <1>7, <1>8, <1>9, <1>10, <1>11, <1>12, <1>13
  DEF vars, Next, ServerStep, ClientStep, BackendStep, Arrive, DeadlinePasses, AllServed,
     Refuse, AdmitOpener, AdmitResumer, LockGranted, TurnRegistered,
     PlainTimeout, StreamTimeout, GeneratorFinalised, LookUpTurn, ChunkSent,
     ChunkSentLate, ResponseEnds, DisconnectInCodex, DisconnectInYield, ThreadResumed,
     StreamResumed, RelayEvent, TurnBegins, TurnEnds, RunRaises, StreamRaises,
     Interrupt, InterruptRaises, Chat, ThreadStarted, storeVars, strayVars
\* Rows are only written for threads the backend knows, and it forgets none.
LEMMA RowsKnownKept ==
    ASSUME ServerInv, [Next]_vars
    PROVE  RowsKnown'
<1>1. RowsKnown /\ StoreTypeOK /\ TasksTypeOK /\ BackendTypeOK /\ \A r \in Requests : ContextOf(r)
  BY ServerInvContext DEF ServerInv, TypeOK, TasksTypeOK
<1>2. CASE UNCHANGED <<rows, mode>>
  BY <1>1, <1>2 DEF RowsKnown, HasRow
<1>3. ASSUME NEW r \in Requests, pc[r] = "saving" \/ r \in stray, WriteRow(r), UNCHANGED mode
      PROVE  RowsKnown'
  <2>1. mode[thread[r]] # "none"
    BY <1>1, <1>3 DEF ContextOf, TaskInv, ThreadFits, WithThread, ServerInv, StrayFits
  <2>2. ASSUME NEW table \in Tables, NEW t \in Threads, t # thread[r]
        PROVE  rows'[table][t] = rows[table][t]
    BY <1>1, <1>3, <2>2 DEF WriteRow, InsertRow, TouchRow, StoreTypeOK
  <2>3. QED
    BY <1>1, <1>3, <2>1, <2>2 DEF RowsKnown, HasRow
<1>4. ASSUME NEW r \in Requests, Mark(r) \/ MarkFails(r), MarkRow(r)
      PROVE  RowsKnown'
  <2>1. UNCHANGED mode /\ (ArchiveRow(thread[r]) \/ DeleteRow(thread[r]))
    BY <1>4 DEF Mark, MarkFails, MarkRow, backendVars
  <2>2. ASSUME NEW table \in Tables, NEW t \in Threads
        PROVE  rows'[table][t].owner = rows[table][t].owner \/ rows'[table][t].owner = NoClient
    <3>1. thread[r] \in Threads /\ DOMAIN rows = Tables
      BY <1>1, <1>4 DEF ContextOf, TaskInv, ThreadFits, HandlerFits, Mark, MarkFails, OwnedHandlers,
         StoreTypeOK
    <3>2. rows[table] \in [Threads -> Row] /\ rows[table][t] \in Row
      BY <1>1, <2>2 DEF StoreTypeOK
    <3>3. CASE ArchiveRow(thread[r])
      <4>1. CASE table = "codex_threads" /\ t = thread[r] /\ HasRow("codex_threads", thread[r])
        BY <2>2, <3>1, <3>2, <3>3, <4>1 DEF ArchiveRow, Row
      <4>2. CASE ~(table = "codex_threads" /\ t = thread[r] /\ HasRow("codex_threads", thread[r]))
        <5>1. rows'[table][t] = rows[table][t]
          BY <2>2, <3>1, <3>2, <3>3, <4>2 DEF ArchiveRow
        <5>2. QED
          BY <5>1
      <4>3. QED
        BY <4>1, <4>2
    <3>4. CASE DeleteRow(thread[r])
      <4>1. CASE table = "chat_conversations" /\ t = thread[r]
        BY <2>2, <3>1, <3>2, <3>4, <4>1 DEF DeleteRow, NoRow, NewRow
      <4>2. CASE ~(table = "chat_conversations" /\ t = thread[r])
        BY <2>2, <3>1, <3>2, <3>4, <4>2 DEF DeleteRow
      <4>3. QED
        BY <4>1, <4>2
    <3>5. QED
      BY <2>1, <3>3, <3>4
  <2>3. QED
    BY <1>1, <2>1, <2>2 DEF RowsKnown, HasRow
<1>5. ASSUME NEW r \in Requests, NEW t \in Threads, Chat(r, t) \/ ThreadStarted(r, t)
      PROVE  RowsKnown'
  BY <1>1, <1>5 DEF Chat, ThreadStarted, StartThread, ModeOf, BackendTypeOK, RowsKnown, HasRow,
     storeVars
<1>6. ASSUME NEW r \in Requests,
             \/ Save(r) \/ SaveFails(r) \/ DisconnectInSave(r) \/ Mark(r) \/ MarkFails(r)
             \/ StrayStep(r) \/ CheckOwner(r)
      PROVE  RowsKnown'
  BY <1>2, <1>3, <1>4, <1>6 DEF Save, SaveFails, DisconnectInSave, Mark, MarkFails, StrayStep,
     StrayLands, StrayEnds, CheckOwner, backendVars
<1>7. CASE Restart
  BY <1>2, <1>7 DEF Restart, threadVars
<1>8. QED
  BY <1>2, <1>5, <1>6, <1>7
  DEF vars, Next, ServerStep, ClientStep, BackendStep, Arrive, DeadlinePasses, AllServed,
      Refuse, AdmitOpener, AdmitResumer, LockGranted, TurnRegistered, RunReturns,
      PlainTimeout, StreamTimeout, StreamEnds, GeneratorFinalised, LookUpTurn, ChunkSent,
      ChunkSentLate, ResponseEnds, DisconnectInCodex, DisconnectInYield, ThreadResumed,
      StreamResumed, RelayEvent, TurnBegins, TurnEnds, RunRaises, StreamRaises, Archived,
      ArchiveFails, ArchiveThread, Interrupt, InterruptRaises, storeVars, backendVars, threadVars

\* A step of another task leaves a stray write fit; its own task has only its
\* generator to finalise.
LEMMA StrayFitsKept ==
    ASSUME ServerInv, [Next]_vars
    PROVE  StrayFits'
<1>1. StrayFits /\ StoreTypeOK /\ TasksTypeOK /\ BackendTypeOK
  BY DEF ServerInv, TypeOK, TasksTypeOK
<1> DEFINE Fit(q) == /\ pc[q] \in {"zombie", "done"}
                     /\ thread[q] \in Threads
                     /\ mode[thread[q]] # "none"
<1>2. CASE UNCHANGED <<pc, thread, mode>> /\ stray' \subseteq stray
  BY <1>1, <1>2 DEF StrayFits
<1>3. ASSUME NEW r \in Requests, OthersKeep(r), r \notin stray, stray' = stray
      PROVE  StrayFits'
  BY <1>1, <1>3 DEF StrayFits, OthersKeep, StoreTypeOK
<1>4. ASSUME NEW r \in Requests, pc[r] \notin {"zombie", "done"}
      PROVE  r \notin stray
  BY <1>1, <1>4 DEF StrayFits
<1>5. ASSUME NEW r \in Requests, DisconnectInSave(r)
      PROVE  StrayFits'
  <2>1. ContextOf(r) /\ OthersKeep(r)
    BY <1>5, ServerInvContext, DisconnectInSaveStep DEF StepOK
  <2>2. Fit(r)'
    BY <1>1, <1>5, <2>1 DEF DisconnectInSave, Goto, requestVars, backendVars, ContextOf,
       TasksTypeOK, TaskInv, ThreadFits, WithThread
  <2>3. stray' \subseteq stray \cup {r}
    BY <1>5 DEF DisconnectInSave
  <2>4. QED
    BY <1>1, <2>1, <2>2, <2>3 DEF StrayFits, OthersKeep, StoreTypeOK
<1>6. ASSUME NEW r \in Requests, GeneratorFinalised(r)
      PROVE  StrayFits'
  BY <1>1, <1>6 DEF GeneratorFinalised, Goto, requestVars, storeVars, strayVars, backendVars, TasksTypeOK,
     StrayFits
<1>7. ASSUME NEW r \in Requests, ServerStep(r), ~GeneratorFinalised(r)
      PROVE  StrayFits'
  <2>1. OthersKeep(r)
    BY <1>7, ServerStepOK DEF StepOK
  <2>2. pc[r] \notin {"zombie", "done"} /\ stray' = stray
    BY <1>7 DEF ServerStep, CheckOwner, Refuse, AdmitOpener, AdmitResumer, LockGranted,
       TurnRegistered, RunReturns, PlainTimeout, StreamTimeout, StreamEnds, Save, SaveFails,
       Mark, MarkFails, LookUpTurn, InCodex, storeVars, strayVars
  <2>3. QED
    BY <1>3, <1>4, <2>1, <2>2
<1>8. ASSUME NEW r \in Requests, ClientStep(r), ~DisconnectInSave(r)
      PROVE  StrayFits'
  <2>1. OthersKeep(r)
    BY <1>8, ClientStepOK DEF StepOK
  <2>2. pc[r] \notin {"zombie", "done"} /\ stray' = stray
    BY <1>8 DEF ClientStep, ChunkSent, ChunkSentLate, ResponseEnds, DisconnectInCodex,
       DisconnectInYield, InCodex, Yielded, storeVars, strayVars
  <2>3. QED
    BY <1>3, <1>4, <2>1, <2>2
<1>9. ASSUME NEW r \in Requests, BackendStep(r)
      PROVE  StrayFits'
  <2>1. CASE TurnBegins(r) \/ TurnEnds(r)
    BY <1>2, <2>1 DEF TurnBegins, TurnEnds, requestVars, storeVars, strayVars, threadVars
  <2>2. CASE ~(TurnBegins(r) \/ TurnEnds(r))
    <3>1. OthersKeep(r)
      BY <1>9, BackendStepOK DEF StepOK
    <3>2. pc[r] \notin {"zombie", "done"} /\ stray' = stray
      BY <1>9, <2>2 DEF BackendStep, Chat, ThreadStarted, ThreadResumed, StreamResumed,
         RelayEvent, RunRaises, StreamRaises, Archived, ArchiveFails, Interrupt,
         InterruptRaises, storeVars, strayVars
    <3>3. QED
      BY <1>3, <1>4, <3>1, <3>2
  <2>3. QED
    BY <2>1, <2>2
<1>10. ASSUME NEW r \in Requests, NEW h \in Handlers, NEW c \in Clients,
              NEW t \in IF h \in OwnedHandlers THEN Threads ELSE {NoThread}, Arrive(r, h, c, t)
       PROVE  StrayFits'
  <2>1. OthersKeep(r)
    BY <1>10, ArriveStep DEF StepOK
  <2>2. pc[r] \notin {"zombie", "done"} /\ stray' = stray
    BY <1>10 DEF Arrive, storeVars, strayVars
  <2>3. QED
    BY <1>3, <1>4, <2>1, <2>2
<1>11. ASSUME NEW r \in Requests, DeadlinePasses(r) \/ StrayStep(r)
       PROVE  StrayFits'
  BY <1>2, <1>11 DEF DeadlinePasses, StrayStep, StrayLands, StrayEnds, requestVars, storeVars, strayVars, backendVars
<1>12. CASE Restart
  BY <1>12 DEF Restart, StrayFits
<1>13. CASE UNCHANGED vars
  BY <1>2, <1>13 DEF vars, requestVars, storeVars, strayVars, backendVars
<1>14. QED
  BY <1>5, <1>6, <1>7, <1>8, <1>9, <1>10, <1>11, <1>12, <1>13 DEF Next, AllServed
----------------------------------------------------------------------------
(* The theorems. *)

\* A fresh server satisfies the invariant.
LEMMA InitServerInv == Init => ServerInv
<1> SUFFICES ASSUME Init
             PROVE  ServerInv
  OBVIOUS
<1>1. LimiterInv /\ LocksInv
  BY LimiterInductive, LocksInductive DEF Init
<1>2. RegistryTypeOK /\ RegistryExact
  BY DEF Init, RegistryInit, RegistryTypeOK, RegistryExact
<1>3. TasksTypeOK
  BY ServerAssumption DEF Init, TasksTypeOK, Locations, Answers
<1>4. PICK owner \in [Existing -> Clients], table \in [Existing -> Tables] :
         /\ creator = [t \in Threads |-> IF t \in Existing THEN owner[t] ELSE NoClient]
         /\ mode = [t \in Threads |->
                       IF t \notin Existing THEN "none"
                       ELSE IF table[t] = "codex_threads" THEN "agent" ELSE "read_only"]
         /\ rows = [tb \in Tables |-> [t \in Threads |->
                       IF t \in Existing /\ table[t] = tb THEN NewRow(owner[t]) ELSE NoRow]]
  BY DEF Init
<1>5. BackendTypeOK
  BY <1>4 DEF Init, BackendTypeOK, Modes, TurnStates
<1>6. StoreTypeOK
  BY <1>4 DEF Init, StoreTypeOK, NoRow, NewRow, Row
<1>7. RowsKnown
  BY <1>4 DEF RowsKnown, HasRow, NoRow, NewRow
<1>8. ASSUME NEW r \in Requests
      PROVE  TaskInv(r)
  BY DEF Init, LimiterInit, LocksInit, RegistryInit, TaskInv, InSlot, HandlerFits, ThreadFits,
     LockFits, Locked, TrackedFits, Streams, InCodex, Yielded, WithThread, OwnedHandlers,
     Resumers, PlainResumers, Deleters
<1>9. StrayFits
  BY DEF Init, StrayFits
<1>10. QED
  BY <1>1, <1>2, <1>3, <1>5, <1>6, <1>7, <1>8, <1>9
  DEF ServerInv, TypeOK, TasksTypeOK, LimiterInv, LocksInv

\* Every step keeps the invariant.
LEMMA StepServerInv == ServerInv /\ [Next]_vars => ServerInv'
<1> SUFFICES ASSUME ServerInv, [Next]_vars
             PROVE  ServerInv'
  OBVIOUS
<1>1. LimiterInv' /\ LocksInv'
  BY EveryStep, LimiterInductive, LocksInductive DEF ServerInv, TypeOK, LimiterInv, LocksInv
<1>2. QED
  BY <1>1, EveryStep, TasksTypeKept, BackendTypeKept, StoreTypeKept, RowsKnownKept, StrayFitsKept
  DEF ServerInv, TypeOK, TasksTypeOK, LimiterInv, LocksInv

\* Where a task is suspended tells exactly what it holds, in every execution of
\* the handlers of app/routes/threads.py and app/routes/chat.py.
THEOREM ServerInvariant == Spec => []ServerInv
BY InitServerInv, StepServerInv, PTL DEF Spec

\* Type correctness of the whole server.
THEOREM ServerTypes == Spec => []TypeOK
<1>1. ServerInv => TypeOK
  BY DEF ServerInv
<1>2. QED
  BY <1>1, ServerInvariant, PTL

\* A slot is held by exactly the tasks inside "async with slot()": every exit of
\* every handler gives it back, once.
THEOREM SlotsAreReleasedOnce == Spec => []SlotsFollowTasks
<1>1. ServerInv => SlotsFollowTasks
  BY DEF ServerInv, TaskInv, SlotsFollowTasks
<1>2. QED
  BY <1>1, ServerInvariant, PTL

\* A request that has been served holds no lock and no registry entry.
THEOREM NothingIsLeaked == Spec => []NothingLeaks
<1>1. ServerInv => NothingLeaks
  <2> SUFFICES ASSUME ServerInv, NEW r \in Requests, pc[r] \in {"idle", "admission", "done"}
               PROVE  want[r] = NoThread /\ r \notin holding /\ r \notin tracked
    BY DEF NothingLeaks
  <2>1. want[r] = NoThread /\ r \notin tracked
    BY DEF ServerInv, TaskInv, LockFits, Locked, TrackedFits
  <2>2. QED
    BY <2>1 DEF ServerInv, QueuesOrdered
<1>2. QED
  BY <1>1, ServerInvariant, PTL

\* The registry and the thread locks agree: a handle that an interrupt finds is
\* that of the turn that holds the thread.
THEOREM RegistryIsExact == Spec => []RegistryExact
<1>1. ServerInv => RegistryExact
  BY DEF ServerInv
<1>2. QED
  BY <1>1, ServerInvariant, PTL

\* The release without an owner check in stream_turn cannot hit a stranger on a
\* new thread: nobody can have queued on it.
THEOREM FreshThreadsAreUnlocked == Spec => []FreshThreadsUnlocked
BY FreshThreadsHaveNoQueue, ServerInvariant, PTL

\* The handlers enter and leave the limiter as JobLimiter asks of its callers,
\* so everything proved of the limiter holds in the server.
THEOREM ServerUsesLimiter == Spec => LimiterSpec
<1>1. Init => LimiterInit
  BY DEF Init
<1>2. ServerInv /\ [Next]_vars => [LimiterNext]_limiterVars
  BY EveryStep
<1>3. QED
  BY <1>1, <1>2, ServerInvariant, PTL DEF Spec, LimiterSpec

\* The handlers take and leave the thread locks as ThreadLocks asks of its
\* callers: one lock at a time, and only a holder runs the unchecked release.
THEOREM ServerUsesLocks == Spec => LocksSpec
<1>1. Init => LocksInit
  BY DEF Init
<1>2. ServerInv /\ [Next]_vars => [LocksNext]_lockVars
  BY EveryStep
<1>3. QED
  BY <1>1, <1>2, ServerInvariant, PTL DEF Spec, LocksSpec

\* At most max_concurrent_jobs requests are inside the limiter.
THEOREM ServerWithinCap == Spec => []SlotsExact
BY ServerUsesLimiter, LimiterCountsExactly, PTL

\* Requests on one thread are served in the order they reached its lock.
THEOREM ServerServesInOrder == Spec => NoOvertaking
BY ServerUsesLocks, LocksAreFifo, PTL

\* No task waits for a thread's lock in vain or in a circle, however many requests
\* there are: who is first at the lock waits for no lock, or can go on now.
THEOREM WaitsAreNotCircular == Spec => []NobodyWaitsInVain
<1>1. ServerInv /\ SomebodyIsFirst => NobodyWaitsInVain
  <2> SUFFICES ASSUME ServerInv, SomebodyIsFirst, NEW r \in Requests, pc[r] = "waiting"
               PROVE  \E q \in Requests : /\ want[q] = thread[r]
                                          /\ ahead[q] = {}
                                          /\ pc[q] = "waiting" <=> q \notin holding
    BY DEF NobodyWaitsInVain
  <2>1. want[r] = thread[r] /\ thread[r] # NoThread
    BY DomainAssumption DEF ServerInv, TaskInv, LockFits, ThreadFits, HandlerFits, OwnedHandlers
  <2>2. PICK q \in Requests : want[q] = thread[r] /\ ahead[q] = {}
    BY <2>1 DEF SomebodyIsFirst
  <2>3. pc[q] = "waiting" <=> q \notin holding
    BY <2>1, <2>2 DEF ServerInv, TaskInv, LockFits, Locked, HoldsItsLock
  <2>4. QED
    BY <2>2, <2>3
<1>2. QED
  BY <1>1, ServerInvariant, ServerUsesLocks, LocksHaveAFirst, PTL
=============================================================================
