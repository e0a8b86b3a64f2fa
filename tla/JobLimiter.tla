----------------------------- MODULE JobLimiter -----------------------------
(***************************************************************************)
(* app/concurrency.py: the global cap on concurrent Codex turns.           *)
(*                                                                         *)
(* The body of each "async with self._lock" never suspends, so the lock of *)
(* the limiter is never contended and each of its two critical sections is *)
(* one step.                                                               *)
(***************************************************************************)
EXTENDS Domain

CONSTANT MaxJobs    \* Settings.max_concurrent_jobs, which nothing validates

ASSUME LimiterAssumption == MaxJobs \in Int

VARIABLES
    inUse,  \* JobLimiter._in_use
    slots   \* the requests whose task is inside "async with slot()"

limiterVars == <<inUse, slots>>

LimiterInit ==
    /\ inUse = 0
    /\ slots = {}

\* Mutant: "_in_use > _max".
AboveCapacity == inUse > MaxJobs

AtCapacity == inUse >= MaxJobs

EnterSlot(r) ==
    /\ ~AtCapacity
    /\ inUse' = inUse + 1
    /\ slots' = slots \cup {r}

ExitSlot(r) ==
    /\ inUse' = inUse - 1
    /\ slots' = slots \ {r}

\* A new process starts with a new limiter.
LimiterReset ==
    /\ inUse' = 0
    /\ slots' = {}

(***************************************************************************)
(* What the limiter relies on: a request leaves the slot it entered, once. *)
(***************************************************************************)
LimiterNext ==
    \/ \E r \in Requests \ slots : EnterSlot(r)
    \/ \E r \in slots : ExitSlot(r)
    \/ LimiterReset

LimiterSpec == LimiterInit /\ [][LimiterNext]_limiterVars

LimiterTypeOK ==
    /\ inUse \in Nat
    /\ slots \subseteq Requests
    /\ IsFiniteSet(slots)

\* The counter is exactly the number of requests inside the limiter and never
\* passes the cap (JobLimiter.slot): nothing is leaked, nothing counted twice.
SlotsExact ==
    /\ inUse = Cardinality(slots)
    /\ inUse > 0 => inUse <= MaxJobs
=============================================================================
