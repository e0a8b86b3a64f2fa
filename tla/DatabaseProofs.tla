--------------------------- MODULE DatabaseProofs ---------------------------
(***************************************************************************)
(* The connection of Database.run, for every set of calls, cancelled or    *)
(* not.  Three invariants build on each other: the line at the lock        *)
(* (QueueInv), the transaction of the connection (TransactionInv), and     *)
(* what a worker that nobody disturbs finds at each of its steps           *)
(* (Alone).                                                                *)
(***************************************************************************)
EXTENDS Database, TLAPS

Busy == Using \cup {"submitted", "returned", "raised"}

\* Only the first in line has got beyond waiting; whoever has a result has left.
QueueInv ==
    /\ \A i, j \in DOMAIN queue : i # j => queue[i] # queue[j]
    /\ \A i \in DOMAIN queue : result[queue[i]] = "none" /\ job[queue[i]] # "none"
    /\ \A i \in DOMAIN queue : i > 1 => job[queue[i]] = "queued"
    /\ \A t \in Tasks : job[t] \in Busy /\ result[t] = "none" => queue # <<>> /\ t = queue[1]
    /\ \A t \in Tasks : job[t] \in {"none", "queued", "submitted"} => result[t] = "none"
    /\ \A t \in Tasks : job[t] \in Using => result[t] # "ok" /\ result[t] # "error"
    /\ \A t \in Tasks : result[t] = "ok" => job[t] = "returned"

LockInv == DbTypeOK /\ QueueInv

LEMMA LeavingIsRemoving ==
    ASSUME LockInv, NEW t \in Tasks, LeaveQueue(t)
    PROVE  \E i \in DOMAIN queue :
              /\ queue[i] = t
              /\ queue' \in Seq(Tasks) /\ Len(queue') = Len(queue) - 1
              /\ \A j \in DOMAIN queue' : queue'[j] = IF j < i THEN queue[j] ELSE queue[j + 1]
<1>1. PICK i \in DOMAIN queue : queue[i] = t /\ queue' = RemoveAt(queue, i)
  BY DEF LeaveQueue
<1>2. queue \in Seq(Tasks) /\ i \in 1 .. Len(queue) /\ Len(queue) \in Nat
  BY <1>1 DEF LockInv, DbTypeOK
<1>3. queue' = SubSeq(queue, 1, i - 1) \o SubSeq(queue, i + 1, Len(queue))
  BY <1>1 DEF RemoveAt
<1> DEFINE a == SubSeq(queue, 1, i - 1)
           b == SubSeq(queue, i + 1, Len(queue))
<1>4. a \in Seq(Tasks) /\ Len(a) = i - 1 /\ \A j \in 1 .. i - 1 : a[j] = queue[j]
  BY <1>2
<1>5. b \in Seq(Tasks) /\ Len(b) = Len(queue) - i
      /\ \A j \in 1 .. Len(queue) - i : b[j] = queue[i + j]
  BY <1>2
<1>6. queue' = a \o b
  BY <1>3
<1> HIDE DEF a, b
<1>7. a \o b \in Seq(Tasks) /\ Len(a \o b) = Len(queue) - 1
  BY <1>2, <1>4, <1>5
<1>8. ASSUME NEW j \in 1 .. Len(queue) - 1
      PROVE  (a \o b)[j] = IF j < i THEN queue[j] ELSE queue[j + 1]
  BY <1>2, <1>4, <1>5
<1>9. DOMAIN queue' = 1 .. Len(queue) - 1
  BY <1>2, <1>6, <1>7
<1>10. QED
  BY <1>1, <1>6, <1>7, <1>8, <1>9

LEMMA LeavingKeepsTheLine ==
    ASSUME LockInv, NEW t \in Tasks, LeaveQueue(t), result'[t] # "none",
           \A u \in Tasks \ {t} : result'[u] = result[u] /\ job'[u] = job[u]
    PROVE  /\ queue' \in Seq(Tasks)
           /\ \A i, j \in DOMAIN queue' : i # j => queue'[i] # queue'[j]
           /\ \A i \in DOMAIN queue' : result'[queue'[i]] = "none" /\ job'[queue'[i]] # "none"
           /\ \A i \in DOMAIN queue' : i > 1 => job'[queue'[i]] = "queued"
           /\ \A u \in Tasks \ {t} :
                 job[u] \in Busy /\ result[u] = "none" => queue' # <<>> /\ u = queue'[1]
<1>1. PICK i \in DOMAIN queue :
              /\ queue[i] = t
              /\ queue' \in Seq(Tasks) /\ Len(queue') = Len(queue) - 1
              /\ \A j \in DOMAIN queue' : queue'[j] = IF j < i THEN queue[j] ELSE queue[j + 1]
  BY LeavingIsRemoving
<1>2. queue \in Seq(Tasks) /\ DOMAIN queue = 1 .. Len(queue) /\ Len(queue) \in Nat
      /\ DOMAIN queue' = 1 .. Len(queue) - 1
  BY <1>1 DEF LockInv, DbTypeOK
<1> DEFINE old(j) == IF j < i THEN j ELSE j + 1
<1>3. \A j \in DOMAIN queue' :
         old(j) \in DOMAIN queue /\ old(j) # i /\ old(j) >= j /\ queue'[j] = queue[old(j)]
  BY <1>1, <1>2
<1>4. \A j, k \in DOMAIN queue' : j # k => old(j) # old(k)
  BY <1>1, <1>2
<1> HIDE DEF old
<1>5. \A j \in DOMAIN queue' : queue'[j] \in Tasks \ {t}
  BY <1>1, <1>2, <1>3 DEF LockInv, DbTypeOK, QueueInv
<1>6. ASSUME NEW u \in Tasks \ {t}, job[u] \in Busy, result[u] = "none"
      PROVE  queue' # <<>> /\ u = queue'[1]
  <2>1. queue # <<>> /\ u = queue[1] /\ 1 \in DOMAIN queue
    BY <1>2, <1>6 DEF LockInv, QueueInv
  <2>2. job[queue[i]] = "queued" /\ i > 1
    BY <1>1, <1>2, <2>1 DEF LockInv, QueueInv
  <2>3. 1 \in DOMAIN queue' /\ queue'[1] = queue[1]
    BY <1>1, <1>2, <2>1, <2>2
  <2>4. QED
    BY <2>1, <2>3
<1>7. \A j \in DOMAIN queue' : j > 1 => job'[queue'[j]] = "queued"
  BY <1>2, <1>3, <1>5 DEF LockInv, QueueInv
<1>8. \A j, k \in DOMAIN queue' : j # k => queue'[j] # queue'[k]
  BY <1>3, <1>4 DEF LockInv, QueueInv
<1>9. \A j \in DOMAIN queue' : result'[queue'[j]] = "none" /\ job'[queue'[j]] # "none"
  BY <1>3, <1>5 DEF LockInv, QueueInv
<1>10. QED
  BY <1>1, <1>6, <1>7, <1>8, <1>9

\* A worker goes from one of its steps to the next, and touches no line.
LEMMA WorkersMoveOn ==
    ASSUME LockInv, NEW t \in Tasks, Work(t)
    PROVE  /\ job[t] \in Using \cup {"submitted"}
           /\ \E j \in Using \cup {"returned", "raised"} : job' = [job EXCEPT ![t] = j]
BY DEF LockInv, DbTypeOK, Jobs, Using, Work, Begin, Read, LookForTransaction, BeginTransaction,
   Execute, ExecuteFails, LeaveWith, Commit, Rollback, Advance

\* What a worker does to the connection leaves it well typed.
LEMMA ConnectionStaysTyped ==
    ASSUME LockInv, NEW t \in Tasks, Work(t)
    PROVE  open' \in BOOLEAN /\ pending' \in Seq(Tasks) /\ log' \in Seq(Tasks)
           /\ dirty' \subseteq Tasks
<1> USE DEF LockInv, DbTypeOK, connectionVars
<1>1. CASE Begin(t) \/ LookForTransaction(t) \/ ExecuteFails(t) \/ LeaveWith(t)
  BY <1>1 DEF Begin, LookForTransaction, ExecuteFails, LeaveWith
<1>2. CASE Read(t)
  BY <1>2 DEF Read
<1>3. CASE BeginTransaction(t)
  BY <1>3 DEF BeginTransaction
<1>4. CASE Execute(t)
  <2>1. open' = open /\ dirty' = dirty
    BY <1>4 DEF Execute
  <2>2. open' \in BOOLEAN
    BY <2>1
  <2>3. pending' \in Seq(Tasks) /\ log' \in Seq(Tasks)
    <3>1. \/ pending' = Append(pending, t) /\ log' = log
          \/ pending' = pending /\ log' = Append(log, t)
      BY <1>4 DEF Execute
    <3>2. pending \in Seq(Tasks) /\ log \in Seq(Tasks)
      OBVIOUS
    <3>3. Append(pending, t) \in Seq(Tasks) /\ Append(log, t) \in Seq(Tasks)
      BY <3>2
    <3>4. QED
      BY <3>1, <3>2, <3>3
  <2>4. QED
    BY <2>1, <2>2, <2>3
<1>5. CASE Commit(t)
  <2>1. open' = FALSE /\ pending' = <<>> /\ log' = log \o pending /\ dirty' = dirty
    BY <1>5 DEF Commit
  <2>2. open' \in BOOLEAN
    BY <2>1
  <2>3. pending' \in Seq(Tasks) /\ log' \in Seq(Tasks)
    BY <2>1
  <2>4. QED
    BY <2>1, <2>2, <2>3
<1>6. CASE Rollback(t)
  <2>1. open' = FALSE /\ pending' = <<>> /\ log' = log /\ dirty' = dirty
    BY <1>6 DEF Rollback
  <2>2. open' \in BOOLEAN
    BY <2>1
  <2>3. pending' \in Seq(Tasks)
    BY <2>1
  <2>4. QED
    BY <2>1, <2>2, <2>3
<1>7. QED
  BY <1>1, <1>2, <1>3, <1>4, <1>5, <1>6 DEF Work

LEMMA LockInductive == LockInv /\ [DbNext \/ Quiet]_dbVars => LockInv'
<1>1. ASSUME LockInv, UNCHANGED dbVars PROVE LockInv'
  BY <1>1 DEF LockInv, DbTypeOK, QueueInv, dbVars, connectionVars
<1>2. ASSUME LockInv, WatchDisturbed PROVE disturbed' \subseteq Tasks
  BY <1>2 DEF LockInv, DbTypeOK, WatchDisturbed, Active
<1>3. ASSUME LockInv, WatchDisturbed, NEW t \in Tasks, NEW k \in {"read", "write"}, Ask(t, k)
      PROVE  LockInv'
  <2>1. /\ queue' = Append(queue, t) /\ Len(queue') = Len(queue) + 1 /\ Len(queue) \in Nat
        /\ DOMAIN queue = 1 .. Len(queue) /\ DOMAIN queue' = 1 .. Len(queue) + 1
        /\ queue'[Len(queue) + 1] = t /\ \A i \in DOMAIN queue : queue'[i] = queue[i]
    BY <1>3 DEF LockInv, DbTypeOK, Ask
  <2>2. DbTypeOK'
    BY <1>2, <1>3 DEF LockInv, DbTypeOK, Ask, Advance, Jobs, connectionVars
  <2>3. /\ job[t] = "none" /\ result[t] = "none" /\ result' = result
        /\ job' = [job EXCEPT ![t] = "queued"] /\ \A i \in DOMAIN queue : queue[i] # t
    BY <1>3 DEF LockInv, QueueInv, Ask, Advance
  <2>4. ASSUME NEW u \in Tasks, job'[u] \in Busy, result'[u] = "none"
        PROVE  queue' # <<>> /\ u = queue'[1]
    <3>1. u # t
      BY <1>3, <2>3, <2>4 DEF LockInv, DbTypeOK, Busy, Using
    <3>2. queue # <<>> /\ u = queue[1]
      BY <1>3, <2>3, <2>4, <3>1 DEF LockInv, DbTypeOK, QueueInv
    <3>3. 1 \in DOMAIN queue /\ 1 \in DOMAIN queue'
      BY <2>1, <3>2 DEF LockInv, DbTypeOK
    <3>4. QED
      BY <2>1, <3>2, <3>3
  <2>5. /\ \A i, j \in DOMAIN queue' : i # j => queue'[i] # queue'[j]
        /\ \A i \in DOMAIN queue' : result'[queue'[i]] = "none" /\ job'[queue'[i]] # "none"
        /\ \A i \in DOMAIN queue' : i > 1 => job'[queue'[i]] = "queued"
    BY <1>3, <2>1, <2>3 DEF LockInv, DbTypeOK, QueueInv
  <2>6. /\ \A u \in Tasks : job'[u] \in {"none", "queued", "submitted"} => result'[u] = "none"
        /\ \A u \in Tasks : job'[u] \in Using => result'[u] # "ok" /\ result'[u] # "error"
        /\ \A u \in Tasks : result'[u] = "ok" => job'[u] = "returned"
    BY <1>3, <2>3 DEF LockInv, DbTypeOK, QueueInv, Using
  <2>7. QED
    BY <2>2, <2>4, <2>5, <2>6 DEF LockInv, QueueInv
<1>4. ASSUME LockInv, WatchDisturbed, NEW t \in Tasks, Submit(t) PROVE LockInv'
  <2>1. DbTypeOK'
    BY <1>2, <1>4 DEF LockInv, DbTypeOK, Submit, Advance, Jobs, connectionVars
  <2>2. /\ queue # <<>> /\ queue' = queue /\ t = queue[1] /\ 1 \in DOMAIN queue
        /\ result' = result /\ job' = [job EXCEPT ![t] = "submitted"] /\ job[t] = "queued"
    BY <1>4 DEF LockInv, DbTypeOK, Submit, Advance
  <2>3. QED
    BY <2>1, <2>2, <1>4 DEF LockInv, DbTypeOK, QueueInv, Using, Busy
<1>5. ASSUME LockInv, WatchDisturbed, NEW t \in Tasks, Deliver(t) PROVE LockInv'
  <2>1. /\ job' = job /\ LeaveQueue(t) /\ job[t] \in {"returned", "raised"}
        /\ result' = [result EXCEPT ![t] = IF job[t] = "returned" THEN "ok" ELSE "error"]
    BY <1>5 DEF Deliver
  <2>2. result'[t] # "none" /\ \A u \in Tasks \ {t} : result'[u] = result[u] /\ job'[u] = job[u]
    BY <1>5, <2>1 DEF LockInv, DbTypeOK
  <2>3. DbTypeOK'
    BY <1>2, <1>5, <2>1, <2>2, LeavingKeepsTheLine DEF LockInv, DbTypeOK, Deliver, connectionVars
  <2>4. QED
    BY <1>5, <2>1, <2>2, <2>3, LeavingKeepsTheLine DEF LockInv, DbTypeOK, QueueInv, Using
<1>6. ASSUME LockInv, WatchDisturbed, NEW t \in Tasks, Cancel(t) PROVE LockInv'
  <2>1. /\ LeaveQueue(t) /\ result' = [result EXCEPT ![t] = "cancelled"]
        /\ job' = IF job[t] \in {"queued", "submitted"} THEN [job EXCEPT ![t] = "dropped"] ELSE job
    BY <1>6 DEF Cancel, Advance
  <2>2. result'[t] # "none" /\ \A u \in Tasks \ {t} : result'[u] = result[u] /\ job'[u] = job[u]
    BY <1>6, <2>1 DEF LockInv, DbTypeOK
  <2>3. DbTypeOK'
    BY <1>2, <1>6, <2>1, <2>2, LeavingKeepsTheLine
       DEF LockInv, DbTypeOK, Cancel, Jobs, connectionVars
  <2>4. job[t] # "none" /\ job'[t] \notin {"none", "queued", "submitted"}
    <3>1. PICK i \in DOMAIN queue : queue[i] = t
      BY <2>1 DEF LeaveQueue
    <3>2. QED
      BY <1>6, <2>1, <3>1 DEF LockInv, DbTypeOK, QueueInv
  <2>5. result'[t] = "cancelled" /\ queue' \in Seq(Tasks)
    BY <1>6, <2>1, <2>3 DEF LockInv, DbTypeOK
  <2>6. ASSUME NEW u \in Tasks
        PROVE  /\ job'[u] \in Busy /\ result'[u] = "none" => queue' # <<>> /\ u = queue'[1]
               /\ job'[u] \in {"none", "queued", "submitted"} => result'[u] = "none"
               /\ job'[u] \in Using => result'[u] # "ok" /\ result'[u] # "error"
               /\ result'[u] = "ok" => job'[u] = "returned"
    <3>1. CASE u = t
      BY <2>4, <2>5, <3>1
    <3>2. CASE u # t
      BY <1>6, <2>1, <2>2, <3>2, LeavingKeepsTheLine DEF LockInv, QueueInv
    <3>3. QED
      BY <3>1, <3>2
  <2>7. QED
    BY <1>6, <2>1, <2>2, <2>3, <2>6, LeavingKeepsTheLine DEF LockInv, QueueInv
<1>7. ASSUME LockInv, WatchDisturbed, NEW t \in Tasks, WorkerStep(t) PROVE LockInv'
  <2>1. PICK j \in Using \cup {"returned", "raised"} : job' = [job EXCEPT ![t] = j]
    BY <1>7, WorkersMoveOn DEF WorkerStep
  <2>2. UNCHANGED <<queue, kind, result, asked>> /\ job[t] \in Using \cup {"submitted"}
    BY <1>7, WorkersMoveOn DEF WorkerStep
  <2>3. DbTypeOK'
    BY <1>2, <1>7, <2>1, <2>2, ConnectionStaysTyped DEF LockInv, DbTypeOK, WorkerStep, Jobs
  <2>4. QED
    BY <1>7, <2>1, <2>2, <2>3 DEF LockInv, DbTypeOK, QueueInv, Using, Busy
<1>8. QED
  BY <1>1, <1>3, <1>4, <1>5, <1>6, <1>7 DEF DbNext, Quiet

LEMMA LockInitially == DbInit => LockInv
<1> SUFFICES ASSUME DbInit PROVE LockInv
  OBVIOUS
<1>1. queue \in Seq(Tasks) /\ asked \in Seq(Tasks) /\ log \in Seq(Tasks) /\ pending \in Seq(Tasks)
  BY DEF DbInit
<1>2. open \in BOOLEAN
  BY DEF DbInit
<1>3. /\ kind \in [Tasks -> {"read", "write"}] /\ job \in [Tasks -> Jobs]
      /\ result \in [Tasks -> {"none", "ok", "error", "cancelled"}]
      /\ dirty \subseteq Tasks /\ disturbed \subseteq Tasks
  BY DEF DbInit, Jobs
<1>4. QueueInv
  BY DEF DbInit, QueueInv, Using, Busy
<1>5. QED
  BY <1>1, <1>2, <1>3, <1>4 DEF LockInv, DbTypeOK

\* connection.py:45: only a cancelled task leaves a worker behind for others to
\* run into.
THEOREM OnlyStraysRunTogether == DbSpec => []OnlyStraysDisturb
<1>1. LockInv => OnlyStraysDisturb
  BY DEF LockInv, DbTypeOK, QueueInv, OnlyStraysDisturb, Active, Using, Busy
<1>2. QED
  BY LockInitially, LockInductive, <1>1, PTL DEF DbSpec
----------------------------------------------------------------------------
(* The transaction. *)

InTransaction == {"executing", "leaving", "committing", "failing"}

\* Whoever could find a transaction open also ends it, or leaves it to another
\* who does.
TransactionInv ==
    /\ open => \E t \in Tasks : job[t] \in InTransaction
    /\ pending # <<>> => open

\* What a worker finds at its next step as long as it has run alone, and what it
\* has left behind when it is done.
Alone(t) ==
    /\ job[t] \in Using => Active = {t}
    /\ job[t] \in {"beginning", "executing", "leaving", "committing"} => kind[t] = "write"
    /\ job[t] = "beginning" => ~open
    /\ job[t] = "executing" => open /\ pending = <<>>
    /\ job[t] \in {"leaving", "committing"} => open /\ pending = <<t>>
    /\ job[t] = "failing" => pending = <<>>
    /\ (\E i \in DOMAIN pending : pending[i] = t) => job[t] \in {"leaving", "committing"}
    /\ Stored(t) => job[t] = "returned"
    /\ job[t] = "returned" /\ kind[t] = "write" => Stored(t)
    /\ t \notin dirty

DbInv ==
    /\ LockInv
    /\ TransactionInv
    /\ \A t \in Tasks \ disturbed : Alone(t)

LEMMA StoredIsInLog == \A t : Stored(t) <=> \E i \in DOMAIN log : log[i] = t
BY DEF Stored, Range

LEMMA AppendEnds ==
    ASSUME NEW S, NEW s \in Seq(S), NEW e \in S
    PROVE  \A x : (\E i \in DOMAIN Append(s, e) : Append(s, e)[i] = x)
                     <=> x = e \/ \E i \in DOMAIN s : s[i] = x
<1>1. /\ DOMAIN s = 1 .. Len(s) /\ DOMAIN Append(s, e) = 1 .. Len(s) + 1 /\ Len(s) \in Nat
      /\ Append(s, e)[Len(s) + 1] = e /\ \A i \in 1 .. Len(s) : Append(s, e)[i] = s[i]
  OBVIOUS
<1>2. QED
  BY <1>1

LEMMA ConcatHasBoth ==
    ASSUME NEW S, NEW s \in Seq(S), NEW u \in Seq(S)
    PROVE  \A x : (\E i \in DOMAIN (s \o u) : (s \o u)[i] = x)
                     <=> (\E i \in DOMAIN s : s[i] = x) \/ \E i \in DOMAIN u : u[i] = x
<1>1. /\ DOMAIN s = 1 .. Len(s) /\ DOMAIN u = 1 .. Len(u) /\ Len(s) \in Nat /\ Len(u) \in Nat
      /\ DOMAIN (s \o u) = 1 .. Len(s) + Len(u)
      /\ \A i \in 1 .. Len(s) : (s \o u)[i] = s[i]
      /\ \A i \in 1 .. Len(u) : (s \o u)[Len(s) + i] = u[i]
  OBVIOUS
<1>2. \A i \in 1 .. Len(s) + Len(u) : i \in 1 .. Len(s) \/ i - Len(s) \in 1 .. Len(u)
  BY <1>1
<1>3. ASSUME NEW i \in 1 .. Len(s) + Len(u), i \notin 1 .. Len(s)
      PROVE  i - Len(s) \in 1 .. Len(u) /\ (s \o u)[i] = u[i - Len(s)]
  BY <1>1, <1>3
<1>4. \A i \in 1 .. Len(u) : Len(s) + i \in 1 .. Len(s) + Len(u)
  BY <1>1
<1>5. ASSUME NEW i \in DOMAIN (s \o u)
      PROVE  \/ \E k \in DOMAIN s : s[k] = (s \o u)[i]
             \/ \E k \in DOMAIN u : u[k] = (s \o u)[i]
  BY <1>1, <1>2, <1>3
<1>6. ASSUME NEW i \in DOMAIN s PROVE \E k \in DOMAIN (s \o u) : (s \o u)[k] = s[i]
  BY <1>1
<1>7. ASSUME NEW i \in DOMAIN u PROVE \E k \in DOMAIN (s \o u) : (s \o u)[k] = u[i]
  BY <1>1, <1>4
<1>8. QED
  BY <1>5, <1>6, <1>7

LEMMA TransactionKept ==
    ASSUME DbInv, NEW t \in Tasks, WorkerStep(t)
    PROVE  TransactionInv'
<1> USE DEF DbInv, LockInv, DbTypeOK, TransactionInv, InTransaction, Advance, connectionVars, WorkerStep
<1>1. PICK j \in Using \cup {"returned", "raised"} : job' = [job EXCEPT ![t] = j]
  BY WorkersMoveOn
<1>2. CASE Begin(t) \/ Read(t) \/ LookForTransaction(t)
  BY <1>1, <1>2 DEF Begin, Read, LookForTransaction, Jobs
<1>3. CASE BeginTransaction(t)
  BY <1>3 DEF BeginTransaction, Jobs
<1>4. CASE Execute(t)
  BY <1>4 DEF Execute, Jobs
<1>5. CASE ExecuteFails(t)
  BY <1>5 DEF ExecuteFails, Jobs
<1>6. CASE LeaveWith(t)
  BY <1>6 DEF LeaveWith, Jobs
<1>7. CASE Commit(t) \/ Rollback(t)
  BY <1>7 DEF Commit, Rollback
<1>8. QED
  BY <1>2, <1>3, <1>4, <1>5, <1>6, <1>7 DEF Work

\* The steps of a worker that has run alone.
LEMMA AloneByItself ==
    ASSUME DbInv, NEW t \in Tasks \ disturbed, WorkerStep(t), t \notin disturbed', WatchDisturbed
    PROVE  Alone(t)'
<1> USE DEF DbInv, LockInv, DbTypeOK, Alone, Advance, connectionVars, WorkerStep
<1>1. PICK j \in Using \cup {"returned", "raised"} : job' = [job EXCEPT ![t] = j]
  BY WorkersMoveOn
<1>2. job'[t] = j /\ kind' = kind /\ \A u \in Tasks \ {t} : job'[u] = job[u]
  BY <1>1
<1>3. job'[t] \in Using => Active' = {t}
  BY <1>2 DEF WatchDisturbed, Active
<1>4. CASE Begin(t)
  <2>1. job'[t] = "looking" /\ job[t] = "submitted" /\ UNCHANGED <<open, pending, log, dirty>>
    BY <1>4 DEF Begin
  <2>2. QED
    BY <1>2, <1>3, <2>1, StoredIsInLog, StoredIsInLog DEF Stored
<1>5. ASSUME job[t] = "looking" PROVE ~open /\ pending = <<>>
  <2>1. \A u \in Tasks : job[u] \in InTransaction => u = t
    BY <1>5 DEF Active, Using, InTransaction
  <2>2. QED
    BY <1>5, <2>1 DEF TransactionInv, InTransaction
<1>6. CASE Read(t)
  <2>1. /\ job'[t] = "returned" /\ job[t] = "looking" /\ kind[t] = "read"
        /\ UNCHANGED <<open, pending, log>> /\ dirty' = dirty
    BY <1>5, <1>6 DEF Read
  <2>2. QED
    BY <1>2, <1>3, <2>1 DEF Stored
<1>7. CASE LookForTransaction(t)
  <2>1. /\ job'[t] = "beginning" /\ job[t] = "looking" /\ kind[t] = "write"
        /\ UNCHANGED <<open, pending, log, dirty>> /\ ~open
    BY <1>5, <1>7 DEF LookForTransaction
  <2>2. QED
    BY <1>2, <1>3, <2>1 DEF Stored
<1>8. CASE BeginTransaction(t)
  <2>1. /\ job'[t] = "executing" /\ job[t] = "beginning" /\ open'
        /\ UNCHANGED <<pending, log, dirty>> /\ pending = <<>>
    BY <1>8 DEF BeginTransaction, TransactionInv
  <2>2. QED
    BY <1>2, <1>3, <2>1 DEF Stored
<1>9. CASE Execute(t)
  <2>1. /\ job'[t] = "leaving" /\ job[t] = "executing" /\ open /\ pending = <<>>
        /\ pending' = Append(pending, t) /\ UNCHANGED <<open, log, dirty>>
    BY <1>9 DEF Execute
  <2>2. pending' = <<t>>
    BY <2>1
  <2>3. QED
    BY <1>2, <1>3, <2>1, <2>2 DEF Stored
<1>10. CASE ExecuteFails(t)
  <2>1. job'[t] = "failing" /\ job[t] = "executing" /\ UNCHANGED <<open, pending, log, dirty>>
    BY <1>10 DEF ExecuteFails
  <2>2. QED
    BY <1>2, <1>3, <2>1 DEF Stored
<1>11. CASE LeaveWith(t)
  <2>1. job'[t] = "committing" /\ job[t] = "leaving" /\ UNCHANGED <<open, pending, log, dirty>>
    BY <1>11 DEF LeaveWith
  <2>2. QED
    BY <1>2, <1>3, <2>1 DEF Stored
<1>12. CASE Commit(t)
  <2>1. /\ job'[t] = "returned" /\ job[t] = "committing" /\ pending = <<t>>
        /\ log' = log \o pending /\ pending' = <<>> /\ dirty' = dirty
    BY <1>12 DEF Commit
  <2>2. \E i \in DOMAIN log' : log'[i] = t
    BY <2>1, ConcatHasBoth
  <2>3. Stored(t)'
    BY <2>2 DEF Stored, Range
  <2>4. QED
    BY <1>2, <1>3, <2>1, <2>3
<1>13. CASE Rollback(t)
  <2>1. job'[t] = "raised" /\ job[t] = "failing" /\ pending' = <<>> /\ UNCHANGED <<log, dirty>>
    BY <1>13 DEF Rollback
  <2>2. QED
    BY <1>2, <1>3, <2>1 DEF Stored
<1>14. QED
  BY <1>4, <1>6, <1>7, <1>8, <1>9, <1>10, <1>11, <1>12, <1>13 DEF Work

\* What another worker does to one that has run alone, and is not at it now.
LEMMA AloneBesideOthers ==
    ASSUME DbInv, NEW t \in Tasks \ disturbed, NEW u \in Tasks \ {t}, WorkerStep(u),
           t \notin disturbed', WatchDisturbed
    PROVE  Alone(t)'
<1> USE DEF DbInv, LockInv, DbTypeOK, Advance, connectionVars, WorkerStep
<1>1. PICK j \in Using \cup {"returned", "raised"} : job' = [job EXCEPT ![u] = j]
  BY WorkersMoveOn
<1>2. job[t] \notin Using
  <2> SUFFICES ASSUME job[t] \in Using PROVE FALSE
    OBVIOUS
  <2>1. job[u] = "submitted"
    BY WorkersMoveOn DEF Alone, Active
  <2>2. Begin(u)
    BY <2>1 DEF Work, Begin, Read, LookForTransaction, BeginTransaction, Execute, ExecuteFails,
                LeaveWith, Commit, Rollback
  <2>3. t \in Active' /\ u \in Active'
    BY <2>2 DEF Begin, Active, Jobs, Using
  <2>4. QED
    BY <2>3 DEF WatchDisturbed
<1>3. job'[t] = job[t] /\ kind'[t] = kind[t]
  BY <1>1
<1>4. \A i \in DOMAIN pending : pending[i] # t
  BY <1>2 DEF Alone, Using
<1>5. \A i \in DOMAIN pending' : pending'[i] # t
  <2>1. pending' = pending \/ pending' = <<>> \/ pending' = Append(pending, u)
    BY DEF Work, Begin, Read, LookForTransaction, BeginTransaction, Execute, ExecuteFails,
           LeaveWith, Commit, Rollback
  <2>2. CASE pending' = pending
    BY <1>4, <2>2
  <2>3. CASE pending' = <<>>
    BY <2>3
  <2>4. CASE pending' = Append(pending, u)
    <3>1. pending \in Seq(Tasks)
      OBVIOUS
    <3>2. \A i \in DOMAIN Append(pending, u) : Append(pending, u)[i] # t
      BY <1>4, <3>1, AppendEnds
    <3>3. QED
      BY <2>4, <3>2
  <2>5. QED
    BY <2>1, <2>2, <2>3, <2>4
<1>6. Stored(t)' <=> Stored(t)
  <2>1. log' = log \/ log' = Append(log, u) \/ log' = log \o pending
    BY DEF Work, Begin, Read, LookForTransaction, BeginTransaction, Execute, ExecuteFails,
           LeaveWith, Commit, Rollback
  <2>2. log \in Seq(Tasks) /\ pending \in Seq(Tasks)
    OBVIOUS
  <2>3. (\E i \in DOMAIN Append(log, u) : Append(log, u)[i] = t) <=> \E i \in DOMAIN log : log[i] = t
    <3> HIDE DEF DbInv, LockInv, DbTypeOK
    <3>1. QED
      BY <2>2, AppendEnds
  <2>4. (\E i \in DOMAIN (log \o pending) : (log \o pending)[i] = t)
           <=> \E i \in DOMAIN log : log[i] = t
    <3> HIDE DEF DbInv, LockInv, DbTypeOK
    <3>1. QED
      BY <1>4, <2>2, ConcatHasBoth
  <2>5. (\E i \in DOMAIN log' : log'[i] = t) <=> \E i \in DOMAIN log : log[i] = t
    <3> HIDE DEF DbInv, LockInv, DbTypeOK
    <3>1. QED
      BY <2>1, <2>3, <2>4
  <2>6. Stored(t)' <=> \E i \in DOMAIN log' : log'[i] = t
    <3> HIDE DEF DbInv, LockInv, DbTypeOK
    <3>1. QED
      BY DEF Stored, Range
  <2>7. Stored(t) <=> \E i \in DOMAIN log : log[i] = t
    BY StoredIsInLog
  <2>8. QED
    BY <2>5, <2>6, <2>7
<1>7. t \notin dirty' <=> t \notin dirty
  BY DEF Work, Begin, Read, LookForTransaction, BeginTransaction, Execute, ExecuteFails,
         LeaveWith, Commit, Rollback
<1>8. QED
  BY <1>2, <1>3, <1>5, <1>6, <1>7 DEF Alone, Using

\* The event loop lets the connection alone, and never starts a worker itself.
LEMMA AloneBesideTheLoop ==
    ASSUME DbInv, NEW t \in Tasks \ disturbed, NEW u \in Tasks,
           Submit(u) \/ Deliver(u) \/ Cancel(u) \/ \E k \in {"read", "write"} : Ask(u, k)
    PROVE  Alone(t)' /\ TransactionInv'
<1> USE DEF DbInv, LockInv, DbTypeOK, Advance, connectionVars
<1>1. UNCHANGED <<open, pending, log, dirty>>
  BY DEF Submit, Deliver, Cancel, Ask
<1>2. \A v \in Tasks : job[v] \in Using \cup {"returned", "raised"} => job'[v] = job[v] /\ kind'[v] = kind[v]
  BY DEF Submit, Deliver, Cancel, Ask, Using
<1>3. \A v \in Tasks : job'[v] \in Using \cup {"returned", "raised"} => job'[v] = job[v]
  BY DEF Submit, Deliver, Cancel, Ask, Using
<1>4. Active' = Active
  BY <1>2, <1>3 DEF Active
<1>5. TransactionInv'
  BY <1>1, <1>2 DEF TransactionInv, InTransaction, Using
<1>6. QED
  BY <1>1, <1>2, <1>3, <1>4, <1>5 DEF Alone, Using, Stored

LEMMA DatabaseInductive == DbInv /\ [DbNext \/ Quiet]_dbVars => DbInv'
<1>1. ASSUME DbInv, UNCHANGED dbVars PROVE DbInv'
  <2>1. LockInv'
    BY <1>1, LockInductive DEF DbInv
  <2>2. QED
    BY <1>1, <2>1 DEF DbInv, dbVars, connectionVars, TransactionInv, Alone, Active, Stored
<1>2. ASSUME DbInv, DbNext PROVE DbInv'
  <2>1. LockInv' /\ WatchDisturbed /\ disturbed \subseteq disturbed'
    BY <1>2, LockInductive DEF DbInv, DbNext, WatchDisturbed
  <2>2. ASSUME NEW u \in Tasks, WorkerStep(u) PROVE DbInv'
    <3>1. TransactionInv'
      BY <1>2, <2>2, TransactionKept
    <3>2. ASSUME NEW t \in Tasks \ disturbed' PROVE Alone(t)'
      <4>1. CASE u = t
        BY <1>2, <2>1, <2>2, <4>1, AloneByItself
      <4>2. CASE u # t
        BY <1>2, <2>1, <2>2, <4>2, AloneBesideOthers
      <4>3. QED
        BY <4>1, <4>2
    <3>3. QED
      BY <2>1, <3>1, <3>2 DEF DbInv
  <2>3. ASSUME NEW u \in Tasks,
               Submit(u) \/ Deliver(u) \/ Cancel(u) \/ \E k \in {"read", "write"} : Ask(u, k)
        PROVE  DbInv'
    <3>1. \A t \in Tasks \ disturbed' : Alone(t)'
      BY <1>2, <2>1, <2>3, AloneBesideTheLoop
    <3>2. TransactionInv'
      <4>1. UNCHANGED <<open, pending>>
        BY <2>3 DEF Submit, Deliver, Cancel, Ask, connectionVars
      <4>2. \A v \in Tasks : job[v] \in InTransaction => job'[v] = job[v]
        BY <1>2, <2>3 DEF Submit, Deliver, Cancel, Ask, Advance, InTransaction, DbInv, LockInv, DbTypeOK
      <4>3. QED
        BY <1>2, <4>1, <4>2 DEF DbInv, TransactionInv
    <3>3. QED
      BY <2>1, <3>1, <3>2 DEF DbInv
  <2>4. QED
    BY <1>2, <2>2, <2>3 DEF DbNext
<1>3. QED
  BY <1>1, <1>2 DEF Quiet

LEMMA DatabaseInitially == DbInit => DbInv
<1> SUFFICES ASSUME DbInit PROVE DbInv
  OBVIOUS
<1>1. TransactionInv
  BY DEF DbInit, TransactionInv
<1>2. ASSUME NEW t \in Tasks PROVE Alone(t)
  BY DEF DbInit, Alone, Using, Stored, Range
<1>3. QED
  BY <1>1, <1>2, LockInitially DEF DbInv

\* However workers run into each other's transaction, none stays open behind them.
THEOREM TransactionsAreEnded == DbSpec => []NoTransactionLeftOpen
<1>1. DbInv => NoTransactionLeftOpen
  BY DEF DbInv, LockInv, DbTypeOK, TransactionInv, InTransaction, NoTransactionLeftOpen, Active, Using
<1>2. QED
  BY DatabaseInitially, DatabaseInductive, <1>1, PTL DEF DbSpec

\* app/repository.py relies on it: a call that nobody disturbed is all or nothing.
THEOREM CallsAreAtomic == DbSpec => []UndisturbedIsAtomic
<1>1. DbInv => UndisturbedIsAtomic
  BY DEF DbInv, LockInv, QueueInv, Alone, UndisturbedIsAtomic
<1>2. QED
  BY DatabaseInitially, DatabaseInductive, <1>1, PTL DEF DbSpec
----------------------------------------------------------------------------
(* The order of the writes. *)

\* t was called before u.
Before(t, u) == \E i, j \in DOMAIN asked : i < j /\ asked[i] = t /\ asked[j] = u

\* The line at the lock is in the order of the calls, and who gets to the
\* connection finds nobody waiting who was called before.
LineInv ==
    /\ \A i, j \in DOMAIN asked : asked[i] = asked[j] => i = j
    /\ \A i \in DOMAIN asked : job[asked[i]] # "none"
    /\ \A t \in Tasks : job[t] # "none" => \E i \in DOMAIN asked : asked[i] = t
    /\ \A t \in Tasks : job[t] = "queued" => \E i \in DOMAIN queue : queue[i] = t
    /\ \A i, j \in DOMAIN queue : i < j => Before(queue[i], queue[j])
    /\ \A t, u \in Tasks :
          Before(t, u) /\ job[u] \in Busy => job[t] \notin {"queued", "submitted"}

Over == {"dropped", "returned", "raised"}

\* What nobody disturbed came to the connection only when its forerunners were
\* done with it.
TurnsInv ==
    \A t, u \in Tasks \ disturbed :
       Before(t, u) /\ job[u] \in Using \cup {"returned", "raised"} => job[t] \in Over

\* A worker executes its statement once.
OnceInv ==
    /\ \A i, j \in DOMAIN log : log[i] = log[j] => i = j
    /\ \A i, j \in DOMAIN pending : pending[i] = pending[j] => i = j
    /\ \A i \in DOMAIN log, j \in DOMAIN pending : log[i] # pending[j]
    /\ \A t \in Tasks :
          (\E i \in DOMAIN log : log[i] = t) \/ (\E i \in DOMAIN pending : pending[i] = t)
          => job[t] \in {"leaving", "committing", "failing", "returned", "raised"}

LogInOrder ==
    \A m, n \in DOMAIN log :
       Before(log[m], log[n]) /\ {log[m], log[n]} \cap disturbed = {} => m < n

OrderInv == DbInv /\ LineInv /\ TurnsInv /\ OnceInv /\ LogInOrder

LEMMA BeforeIsStrict ==
    ASSUME DbTypeOK, LineInv, NEW t, NEW u, Before(t, u)
    PROVE  /\ ~Before(u, t) /\ t # u
           /\ t \in Tasks /\ u \in Tasks /\ job[t] # "none" /\ job[u] # "none"
<1>1. PICK i, j \in DOMAIN asked : i < j /\ asked[i] = t /\ asked[j] = u
  BY DEF Before
<1>2. asked \in Seq(Tasks) /\ DOMAIN asked = 1 .. Len(asked) /\ Len(asked) \in Nat
  BY DEF DbTypeOK
<1>3. t \in Tasks /\ u \in Tasks /\ job[t] # "none" /\ job[u] # "none"
  BY <1>1, <1>2 DEF LineInv
<1>4. t # u
  BY <1>1, <1>2 DEF LineInv
<1>5. ASSUME Before(u, t) PROVE FALSE
  <2>1. PICK k, l \in DOMAIN asked : k < l /\ asked[k] = u /\ asked[l] = t
    BY <1>5 DEF Before
  <2>2. k = j /\ l = i
    BY <1>1, <2>1 DEF LineInv
  <2>3. QED
    BY <1>1, <1>2, <2>1, <2>2
<1>6. QED
  BY <1>3, <1>4, <1>5

\* A new call is behind all others, in the line as in the order of the calls.
LEMMA AskingKeepsTheOrder ==
    ASSUME DbInv, LineInv, NEW t \in Tasks, NEW k \in {"read", "write"}, Ask(t, k)
    PROVE  LineInv' /\ \A a, b : Before(a, b)' /\ b # t => Before(a, b)
<1>1. /\ asked' = Append(asked, t) /\ queue' = Append(queue, t) /\ job[t] = "none"
      /\ job' = [job EXCEPT ![t] = "queued"]
  BY DEF Ask, Advance
<1>2. /\ asked \in Seq(Tasks) /\ queue \in Seq(Tasks)
      /\ job \in [Tasks -> Jobs] /\ job'[t] = "queued" /\ \A u \in Tasks \ {t} : job'[u] = job[u]
  BY <1>1 DEF DbInv, LockInv, DbTypeOK
<1> DEFINE n == Len(asked)
           m == Len(queue)
<1>3. /\ n \in Nat /\ DOMAIN asked = 1 .. n /\ DOMAIN asked' = 1 .. n + 1
      /\ asked'[n + 1] = t /\ \A i \in 1 .. n : asked'[i] = asked[i] /\ asked[i] \in Tasks
  BY <1>1, <1>2
<1>4. /\ m \in Nat /\ DOMAIN queue = 1 .. m /\ DOMAIN queue' = 1 .. m + 1
      /\ queue'[m + 1] = t /\ \A i \in 1 .. m : queue'[i] = queue[i] /\ queue[i] \in Tasks
  BY <1>1, <1>2
<1> HIDE DEF n, m
<1>5. \A i \in 1 .. n : asked[i] # t
  BY <1>1, <1>3 DEF LineInv
<1>6. ASSUME NEW a, NEW b, Before(a, b) PROVE Before(a, b)'
  <2>1. PICK i, j \in DOMAIN asked : i < j /\ asked[i] = a /\ asked[j] = b
    BY <1>6 DEF Before
  <2>2. i \in DOMAIN asked' /\ j \in DOMAIN asked' /\ asked'[i] = a /\ asked'[j] = b
    BY <1>3, <2>1
  <2>3. QED
    BY <2>1, <2>2 DEF Before
<1>7. ASSUME NEW a, NEW b, Before(a, b)', b # t PROVE Before(a, b)
  <2>1. PICK i, j \in DOMAIN asked' : i < j /\ asked'[i] = a /\ asked'[j] = b
    BY <1>7 DEF Before
  <2>2. j # n + 1 /\ i # n + 1
    BY <1>3, <1>7, <2>1
  <2>3. i \in DOMAIN asked /\ j \in DOMAIN asked /\ asked[i] = a /\ asked[j] = b
    BY <1>3, <2>1, <2>2
  <2>4. QED
    BY <2>1, <2>3 DEF Before
<1>8. ASSUME NEW b, Before(t, b)' PROVE FALSE
  <2>1. PICK i, j \in DOMAIN asked' : i < j /\ asked'[i] = t /\ asked'[j] = b
    BY <1>8 DEF Before
  <2>2. i = n + 1
    BY <1>3, <1>5, <2>1
  <2>3. QED
    BY <1>3, <2>1, <2>2
<1>9. \A i, j \in DOMAIN asked' : asked'[i] = asked'[j] => i = j
  BY <1>3, <1>5 DEF LineInv
<1>10. \A i \in DOMAIN asked' : job'[asked'[i]] # "none"
  BY <1>2, <1>3, <1>5 DEF LineInv
<1>11. ASSUME NEW u \in Tasks, job'[u] # "none" PROVE \E i \in DOMAIN asked' : asked'[i] = u
  <2>1. CASE u = t
    BY <1>3, <2>1
  <2>2. CASE u # t
    <3>1. PICK i \in DOMAIN asked : asked[i] = u
      BY <1>2, <1>11, <2>2 DEF LineInv
    <3>2. QED
      BY <1>3, <3>1
  <2>3. QED
    BY <2>1, <2>2
<1>12. ASSUME NEW u \in Tasks, job'[u] = "queued" PROVE \E i \in DOMAIN queue' : queue'[i] = u
  <2>1. CASE u = t
    BY <1>4, <2>1
  <2>2. CASE u # t
    <3>1. PICK i \in DOMAIN queue : queue[i] = u
      BY <1>2, <1>12, <2>2 DEF LineInv
    <3>2. QED
      BY <1>4, <3>1
  <2>3. QED
    BY <2>1, <2>2
<1>13. ASSUME NEW i \in DOMAIN queue', NEW j \in DOMAIN queue', i < j
       PROVE  Before(queue[i], queue[j])'
  <2>1. CASE j \in 1 .. m
    <3>1. i \in 1 .. m
      BY <1>4, <1>13, <2>1
    <3>2. Before(queue[i], queue[j])
      BY <1>4, <1>13, <2>1, <3>1 DEF LineInv
    <3>3. QED
      BY <1>4, <1>6, <2>1, <3>1, <3>2
  <2>2. CASE j = m + 1
    <3>1. i \in 1 .. m
      BY <1>4, <1>13, <2>2
    <3>2. job[queue[i]] # "none" /\ queue[i] \in Tasks
      BY <1>4, <3>1 DEF DbInv, LockInv, QueueInv
    <3>3. PICK l \in DOMAIN asked : asked[l] = queue[i]
      BY <3>2 DEF LineInv
    <3>4. l \in DOMAIN asked' /\ n + 1 \in DOMAIN asked' /\ l < n + 1 /\ asked'[l] = queue'[i]
      BY <1>3, <1>4, <3>1, <3>3
    <3>5. asked'[n + 1] = queue'[j]
      BY <1>3, <1>4, <2>2
    <3>6. QED
      BY <3>4, <3>5 DEF Before
  <2>3. QED
    BY <1>4, <2>1, <2>2
<1>14. ASSUME NEW a \in Tasks, NEW b \in Tasks, Before(a, b)', job'[b] \in Busy
       PROVE  job'[a] \notin {"queued", "submitted"}
  <2>1. b # t
    BY <1>2, <1>14 DEF Busy, Using
  <2>2. Before(a, b) /\ a # t
    BY <1>7, <1>8, <1>14, <2>1
  <2>3. QED
    BY <1>2, <1>14, <2>1, <2>2 DEF LineInv
<1>15. LineInv'
  BY <1>9, <1>10, <1>11, <1>12, <1>13, <1>14 DEF LineInv
<1>16. QED
  BY <1>7, <1>15

\* Who leaves the line leaves the others in their order.
LEMMA LeavingKeepsTheOrder ==
    ASSUME DbInv, LineInv, NEW t \in Tasks, LeaveQueue(t), UNCHANGED asked,
           job' \in [Tasks -> Jobs], job[t] # "none",
           (job'[t] = job[t] /\ job[t] # "queued") \/ job'[t] = "dropped",
           \A u \in Tasks \ {t} : job'[u] = job[u]
    PROVE  LineInv'
<1>1. PICK i \in DOMAIN queue :
              /\ queue[i] = t
              /\ queue' \in Seq(Tasks) /\ Len(queue') = Len(queue) - 1
              /\ \A j \in DOMAIN queue' : queue'[j] = IF j < i THEN queue[j] ELSE queue[j + 1]
  BY LeavingIsRemoving DEF DbInv
<1>2. /\ queue \in Seq(Tasks) /\ DOMAIN queue = 1 .. Len(queue) /\ Len(queue) \in Nat
      /\ DOMAIN queue' = 1 .. Len(queue) - 1
      /\ asked \in Seq(Tasks) /\ \A j \in DOMAIN asked : asked[j] \in Tasks
  BY <1>1 DEF DbInv, LockInv, DbTypeOK
<1>3. \A a, b : Before(a, b)' <=> Before(a, b)
  BY DEF Before
<1>4. ASSUME NEW u \in Tasks, job'[u] = "queued" PROVE \E j \in DOMAIN queue' : queue'[j] = u
  <2>1. u # t /\ job[u] = "queued"
    BY <1>4
  <2>2. PICK k \in DOMAIN queue : queue[k] = u
    BY <2>1 DEF LineInv
  <2>3. k # i
    BY <1>1, <2>1, <2>2
  <2>4. CASE k < i
    BY <1>1, <1>2, <2>2, <2>4
  <2>5. CASE k > i
    <3>1. k - 1 \in DOMAIN queue' /\ ~(k - 1 < i) /\ k - 1 + 1 = k
      BY <1>2, <2>5
    <3>2. QED
      BY <1>1, <2>2, <3>1
  <2>6. QED
    BY <1>2, <2>3, <2>4, <2>5
<1>5. ASSUME NEW j \in DOMAIN queue', NEW k \in DOMAIN queue', j < k
      PROVE  Before(queue[j], queue[k])'
  <2> DEFINE old(l) == IF l < i THEN l ELSE l + 1
  <2>1. /\ old(j) \in DOMAIN queue /\ old(k) \in DOMAIN queue /\ old(j) < old(k)
        /\ queue'[j] = queue[old(j)] /\ queue'[k] = queue[old(k)]
    BY <1>1, <1>2, <1>5
  <2>2. QED
    BY <1>3, <2>1 DEF LineInv
<1>6. ASSUME NEW a \in Tasks, NEW b \in Tasks, Before(a, b)', job'[b] \in Busy
      PROVE  job'[a] \notin {"queued", "submitted"}
  <2>1. job[b] \in Busy
    BY <1>6 DEF Busy, Using
  <2>2. QED
    BY <1>3, <1>6, <2>1 DEF LineInv
<1>7. \A j \in DOMAIN asked' : job'[asked'[j]] # "none"
  BY <1>2 DEF LineInv
<1>8. \A u \in Tasks : job'[u] # "none" => \E j \in DOMAIN asked' : asked'[j] = u
  BY DEF LineInv
<1>9. \A j, k \in DOMAIN asked' : asked'[j] = asked'[k] => j = k
  BY DEF LineInv
<1>10. QED
  BY <1>4, <1>5, <1>6, <1>7, <1>8, <1>9 DEF LineInv

\* The first in line gets the connection: all that were called before have left.
LEMMA SubmittingKeepsTheOrder ==
    ASSUME DbInv, LineInv, NEW t \in Tasks, Submit(t)
    PROVE  LineInv'
<1>1. /\ queue # <<>> /\ t = queue[1] /\ 1 \in DOMAIN queue /\ job[t] = "queued"
      /\ UNCHANGED <<queue, asked>> /\ job' = [job EXCEPT ![t] = "submitted"]
  BY DEF DbInv, LockInv, DbTypeOK, Submit, Advance
<1>2. /\ job'[t] = "submitted" /\ \A u \in Tasks \ {t} : job'[u] = job[u]
      /\ \A i \in DOMAIN asked : asked[i] \in Tasks
      /\ DOMAIN queue = 1 .. Len(queue) /\ Len(queue) \in Nat
  BY <1>1 DEF DbInv, LockInv, DbTypeOK
<1>3. \A a, b : Before(a, b)' <=> Before(a, b)
  BY <1>1 DEF Before
<1>4. ASSUME NEW a \in Tasks, Before(a, t) PROVE job[a] \notin {"queued", "submitted"}
  <2>1. a # t /\ ~Before(t, a)
    BY <1>4, BeforeIsStrict DEF DbInv, LockInv
  <2>2. CASE job[a] = "queued"
    <3>1. PICK k \in DOMAIN queue : queue[k] = a
      BY <2>2 DEF LineInv
    <3>2. 1 < k
      BY <1>1, <1>2, <2>1, <3>1
    <3>3. QED
      BY <1>1, <2>1, <3>1, <3>2 DEF LineInv
  <2>3. CASE job[a] = "submitted"
    BY <1>1, <2>1, <2>3 DEF DbInv, LockInv, QueueInv, Busy
  <2>4. QED
    BY <2>2, <2>3
<1>5. ASSUME NEW a \in Tasks, NEW b \in Tasks, Before(a, b)', job'[b] \in Busy
      PROVE  job'[a] \notin {"queued", "submitted"}
  <2>1. Before(a, b) /\ a # b
    BY <1>3, <1>5, BeforeIsStrict DEF DbInv, LockInv
  <2>2. CASE b = t
    BY <1>2, <1>4, <2>1, <2>2
  <2>3. CASE b # t
    BY <1>1, <1>2, <1>5, <2>1, <2>3 DEF LineInv
  <2>4. QED
    BY <2>2, <2>3
<1>6. \A i \in DOMAIN asked' : job'[asked'[i]] # "none"
  BY <1>1, <1>2 DEF LineInv
<1>7. \A u \in Tasks : job'[u] # "none" => \E i \in DOMAIN asked' : asked'[i] = u
  BY <1>1, <1>2 DEF LineInv
<1>8. \A u \in Tasks : job'[u] = "queued" => \E i \in DOMAIN queue' : queue'[i] = u
  BY <1>1, <1>2 DEF LineInv
<1>9. QED
  BY <1>1, <1>3, <1>5, <1>6, <1>7, <1>8 DEF LineInv

LEMMA WorkingKeepsTheOrder ==
    ASSUME DbInv, LineInv, NEW t \in Tasks, WorkerStep(t)
    PROVE  LineInv'
<1>1. PICK j \in Using \cup {"returned", "raised"} : job' = [job EXCEPT ![t] = j]
  BY WorkersMoveOn DEF WorkerStep, DbInv
<1>2. UNCHANGED <<queue, asked>> /\ job[t] \in Using \cup {"submitted"}
  BY WorkersMoveOn DEF WorkerStep, DbInv
<1>3. /\ job'[t] = j /\ \A u \in Tasks \ {t} : job'[u] = job[u]
      /\ \A i \in DOMAIN asked : asked[i] \in Tasks
  BY <1>1 DEF DbInv, LockInv, DbTypeOK
<1>4. \A a, b : Before(a, b)' <=> Before(a, b)
  BY <1>2 DEF Before
<1>5. ASSUME NEW a \in Tasks, NEW b \in Tasks, Before(a, b)', job'[b] \in Busy
      PROVE  job'[a] \notin {"queued", "submitted"}
  <2>1. Before(a, b) /\ job[b] \in Busy
    BY <1>2, <1>3, <1>4, <1>5 DEF Busy
  <2>2. job[a] \notin {"queued", "submitted"}
    BY <2>1 DEF LineInv
  <2>3. QED
    BY <1>3, <2>2 DEF Using
<1>6. \A i \in DOMAIN asked' : job'[asked'[i]] # "none"
  BY <1>2, <1>3 DEF LineInv, Using
<1>7. \A u \in Tasks : job'[u] # "none" => \E i \in DOMAIN asked' : asked'[i] = u
  BY <1>2, <1>3 DEF LineInv, Using
<1>8. \A u \in Tasks : job'[u] = "queued" => \E i \in DOMAIN queue' : queue'[i] = u
  BY <1>2, <1>3 DEF LineInv, Using
<1>9. QED
  BY <1>2, <1>4, <1>5, <1>6, <1>7, <1>8 DEF LineInv

----------------------------------------------------------------------------
(* The connection follows the line. *)

LEMMA TurnsKept ==
    ASSUME DbInv, LineInv, TurnsInv, DbNext
    PROVE  TurnsInv'
<1> USE DEF DbInv, LockInv, DbTypeOK
<1>1. disturbed \subseteq disturbed' /\ WatchDisturbed
  BY DEF DbNext, WatchDisturbed
<1>2. PICK v \in Tasks :
         \/ \E k \in {"read", "write"} : Ask(v, k)
         \/ Submit(v) \/ Deliver(v) \/ Cancel(v)
         \/ WorkerStep(v)
  BY DEF DbNext
<1>3. \A u \in Tasks \ {v} : job'[u] = job[u]
  <2>1. CASE WorkerStep(v)
    BY <2>1, WorkersMoveOn DEF WorkerStep
  <2>2. CASE ~WorkerStep(v)
    BY <1>2, <2>2 DEF Ask, Submit, Deliver, Cancel, Advance
  <2>3. QED
    BY <2>1, <2>2
<1>4. ASSUME NEW t \in Tasks \ disturbed', NEW u \in Tasks \ disturbed', Before(t, u)',
             job'[u] \in Using \cup {"returned", "raised"}
      PROVE  job'[t] \in Over
  <2>1. CASE \E k \in {"read", "write"} : Ask(v, k)
    <3>1. job[v] = "none" /\ job'[v] = "queued"
      BY <2>1 DEF Ask, Advance
    <3>2. u # v
      BY <1>4, <3>1 DEF Using
    <3>3. Before(t, u)
      BY <1>4, <2>1, <3>2, AskingKeepsTheOrder
    <3>4. job[t] \in Over
      BY <1>1, <1>3, <1>4, <3>2, <3>3 DEF TurnsInv
    <3>5. t # v
      BY <3>1, <3>4 DEF Over
    <3>6. QED
      BY <1>3, <3>4, <3>5
  <2>2. CASE Submit(v) \/ Deliver(v) \/ Cancel(v)
    <3>1. asked' = asked
      BY <2>2 DEF Submit, Deliver, Cancel
    <3>2. Before(t, u)
      BY <1>4, <3>1 DEF Before
    <3>3. /\ job'[u] = job[u]
          /\ job[t] \in Over => job'[t] = job[t]
      BY <1>4, <2>2 DEF Submit, Deliver, Cancel, Advance, Over, Using
    <3>4. QED
      BY <1>1, <1>4, <3>2, <3>3 DEF TurnsInv
  <2>3. CASE WorkerStep(v)
    <3>1. Before(t, u)
      BY <1>4, <2>3 DEF Before, WorkerStep
    <3>2. job[v] \in Using \cup {"submitted"}
      BY <2>3, WorkersMoveOn DEF WorkerStep
    <3>3. t # u /\ job[t] # "none"
      BY <3>1, BeforeIsStrict
    <3>4. CASE job[u] \in Using \cup {"returned", "raised"}
      <4>1. job[t] \in Over
        BY <1>1, <1>4, <3>1, <3>4 DEF TurnsInv
      <4>2. t # v
        BY <3>2, <4>1 DEF Over, Using
      <4>3. QED
        BY <1>3, <4>1, <4>2
    <3>5. CASE job[u] \notin Using \cup {"returned", "raised"}
      <4>1. u = v /\ job[u] = "submitted"
        BY <1>3, <1>4, <3>2, <3>5
      <4>2. job[t] \notin {"none", "queued", "submitted"} /\ job'[t] = job[t]
        BY <1>3, <3>1, <3>3, <4>1 DEF LineInv, Busy
      <4>3. Begin(v)
        BY <2>3, <4>1 DEF WorkerStep, Work, Begin, Read, LookForTransaction, BeginTransaction,
           Execute, ExecuteFails, LeaveWith, Commit, Rollback
      <4>4. u \in Active'
        BY <4>1, <4>3 DEF Begin, Advance, Active, Using
      <4>5. t \notin Active'
        BY <1>1, <1>4, <3>3, <4>4 DEF WatchDisturbed
      <4>6. QED
        BY <4>2, <4>5 DEF Active, Over, Jobs
    <3>6. QED
      BY <3>4, <3>5
  <2>4. QED
    BY <1>2, <2>1, <2>2, <2>3
<1>5. QED
  BY <1>4 DEF TurnsInv

Placed == {"leaving", "committing", "failing", "returned", "raised"}

\* The connection writes what a worker executed, once.
LEMMA WritesHappenOnce ==
    ASSUME DbInv, OnceInv, NEW t \in Tasks, WorkerStep(t)
    PROVE  OnceInv'
<1> USE DEF connectionVars
<1>1. log \in Seq(Tasks) /\ pending \in Seq(Tasks) /\ job \in [Tasks -> Jobs]
  BY DEF DbInv, LockInv, DbTypeOK
<1>2. PICK j \in Using \cup {"returned", "raised"} : job' = [job EXCEPT ![t] = j]
  BY WorkersMoveOn DEF WorkerStep, DbInv
<1>3. job'[t] = j /\ \A u \in Tasks \ {t} : job'[u] = job[u]
  BY <1>1, <1>2
<1>4. job[t] \in Placed => job'[t] \in Placed
  BY <1>1 DEF WorkerStep, Work, Begin, Read, LookForTransaction, BeginTransaction, Execute,
     ExecuteFails, LeaveWith, Commit, Rollback, Advance, Placed
<1>5. CASE UNCHANGED <<log, pending>>
  BY <1>3, <1>4, <1>5 DEF OnceInv, Placed
<1>6. CASE Execute(t)
  <2>1. job[t] = "executing" /\ job'[t] = "leaving"
    BY <1>1, <1>6 DEF Execute, Advance
  <2>2. /\ \A i \in DOMAIN log : log[i] # t
        /\ \A i \in DOMAIN pending : pending[i] # t
    BY <2>1 DEF OnceInv
  <2>3. CASE log' = log /\ pending' = Append(pending, t)
    <3>1. /\ DOMAIN pending = 1 .. Len(pending) /\ DOMAIN pending' = 1 .. Len(pending) + 1
          /\ Len(pending) \in Nat /\ pending'[Len(pending) + 1] = t
          /\ \A i \in 1 .. Len(pending) : pending'[i] = pending[i]
      BY <1>1, <2>3
    <3>2. \A i \in DOMAIN pending' : i \in DOMAIN pending \/ i = Len(pending) + 1
      BY <3>1
    <3>3. QED
      BY <1>3, <2>1, <2>2, <2>3, <3>1, <3>2 DEF OnceInv
  <2>4. CASE log' = Append(log, t) /\ pending' = pending
    <3>1. /\ DOMAIN log = 1 .. Len(log) /\ DOMAIN log' = 1 .. Len(log) + 1
          /\ Len(log) \in Nat /\ log'[Len(log) + 1] = t
          /\ \A i \in 1 .. Len(log) : log'[i] = log[i]
      BY <1>1, <2>4
    <3>2. \A i \in DOMAIN log' : i \in DOMAIN log \/ i = Len(log) + 1
      BY <3>1
    <3>3. QED
      BY <1>3, <2>1, <2>2, <2>4, <3>1, <3>2 DEF OnceInv
  <2>5. QED
    BY <1>6, <2>3, <2>4 DEF Execute
<1>7. CASE Rollback(t)
  BY <1>3, <1>4, <1>7 DEF Rollback, OnceInv, Placed
<1>8. CASE Commit(t)
  <2>1. log' = log \o pending /\ pending' = <<>>
    BY <1>8 DEF Commit
  <2>2. /\ DOMAIN log = 1 .. Len(log) /\ DOMAIN pending = 1 .. Len(pending)
        /\ DOMAIN log' = 1 .. Len(log) + Len(pending)
        /\ Len(log) \in Nat /\ Len(pending) \in Nat
        /\ \A i \in 1 .. Len(log) : log'[i] = log[i]
        /\ \A i \in 1 .. Len(pending) : log'[Len(log) + i] = pending[i]
    BY <1>1, <2>1
  <2>3. \A i \in DOMAIN log' :
           \/ i \in DOMAIN log /\ log'[i] = log[i]
           \/ /\ i - Len(log) \in DOMAIN pending /\ log'[i] = pending[i - Len(log)]
              /\ i \notin DOMAIN log
    <3> TAKE i \in DOMAIN log'
    <3>1. CASE i \in 1 .. Len(log)
      BY <2>2, <3>1
    <3>2. CASE i \notin 1 .. Len(log)
      <4>1. i - Len(log) \in 1 .. Len(pending) /\ Len(log) + (i - Len(log)) = i
        BY <2>2, <3>2
      <4>2. log'[Len(log) + (i - Len(log))] = pending[i - Len(log)]
        BY <2>2, <4>1
      <4>3. QED
        BY <2>2, <3>2, <4>1, <4>2
    <3>3. QED
      BY <3>1, <3>2
  <2>4. ASSUME NEW i \in DOMAIN log', NEW k \in DOMAIN log', log'[i] = log'[k]
        PROVE  i = k
    <3>1. CASE i \in DOMAIN log /\ k \in DOMAIN log
      BY <2>3, <2>4, <3>1 DEF OnceInv
    <3>2. CASE i \notin DOMAIN log /\ k \notin DOMAIN log
      <4>1. i - Len(log) = k - Len(log)
        BY <2>3, <2>4, <3>2 DEF OnceInv
      <4>2. QED
        BY <2>2, <4>1
    <3>3. CASE i \in DOMAIN log /\ k \notin DOMAIN log
      BY <2>3, <2>4, <3>3 DEF OnceInv
    <3>4. CASE i \notin DOMAIN log /\ k \in DOMAIN log
      BY <2>3, <2>4, <3>4 DEF OnceInv
    <3>5. QED
      BY <3>1, <3>2, <3>3, <3>4
  <2>5. ASSUME NEW u \in Tasks, \E i \in DOMAIN log' : log'[i] = u
        PROVE  job'[u] \in Placed
    <3>1. \/ \E i \in DOMAIN log : log[i] = u
          \/ \E i \in DOMAIN pending : pending[i] = u
      BY <2>3, <2>5
    <3>2. job[u] \in Placed
      BY <3>1 DEF OnceInv, Placed
    <3>3. QED
      BY <1>3, <1>4, <3>2
  <2>6. QED
    BY <2>1, <2>4, <2>5 DEF OnceInv, Placed
<1>9. QED
  BY <1>5, <1>6, <1>7, <1>8 DEF WorkerStep, Work, Begin, Read, LookForTransaction,
     BeginTransaction, ExecuteFails, LeaveWith

\* A write that nobody disturbed comes to the log when all undisturbed calls
\* before it are over, and by commit.
LEMMA LogKept ==
    ASSUME DbInv, LineInv, TurnsInv, LogInOrder, NEW t \in Tasks, WorkerStep(t),
           disturbed \subseteq disturbed'
    PROVE  LogInOrder'
<1> USE DEF connectionVars
<1>1. /\ log \in Seq(Tasks) /\ pending \in Seq(Tasks)
      /\ \A i \in DOMAIN log : log[i] \in Tasks
      /\ \A i \in DOMAIN pending : pending[i] \in Tasks
      /\ DOMAIN log = 1 .. Len(log) /\ Len(log) \in Nat
      /\ DOMAIN pending = 1 .. Len(pending) /\ Len(pending) \in Nat
  BY DEF DbInv, LockInv, DbTypeOK
<1>2. \A a, b : Before(a, b)' <=> Before(a, b)
  BY DEF Before, WorkerStep
<1>3. CASE log' = log
  BY <1>2, <1>3 DEF LogInOrder
<1>4. ASSUME NEW i \in DOMAIN log, log[i] \notin disturbed PROVE job[log[i]] = "returned"
  BY <1>1, <1>4, StoredIsInLog DEF DbInv, Alone
<1>5. CASE log' = Append(log, t) /\ ~open /\ job[t] = "executing"
  <2>1. t \in disturbed
    BY <1>5 DEF DbInv, Alone
  <2>2. /\ DOMAIN log' = 1 .. Len(log) + 1 /\ log'[Len(log) + 1] = t
        /\ \A i \in DOMAIN log : log'[i] = log[i]
    BY <1>1, <1>5
  <2>3. ASSUME NEW m \in DOMAIN log', NEW n \in DOMAIN log', Before(log[m], log[n])',
               {log'[m], log'[n]} \cap disturbed' = {}
        PROVE  m < n
    <3>1. log'[m] # t /\ log'[n] # t
      BY <2>1, <2>3
    <3>2. m \in DOMAIN log /\ n \in DOMAIN log
      BY <1>1, <2>2, <3>1
    <3>3. Before(log[m], log[n])
      <4>1. Before(log'[m], log'[n])
        BY <2>3 DEF Before, WorkerStep
      <4>2. QED
        BY <2>2, <3>2, <4>1
    <3>4. QED
      BY <2>2, <2>3, <3>2, <3>3 DEF LogInOrder
  <2>4. QED
    BY <2>3 DEF LogInOrder
<1>6. CASE log' = log \o pending
  <2>1. /\ DOMAIN log' = 1 .. Len(log) + Len(pending)
        /\ \A i \in DOMAIN log : log'[i] = log[i]
        /\ \A i \in DOMAIN pending : log'[Len(log) + i] = pending[i]
    BY <1>1, <1>6
  <2>2. ASSUME NEW m \in DOMAIN log', NEW n \in DOMAIN log', Before(log[m], log[n])',
               {log'[m], log'[n]} \cap disturbed' = {}
        PROVE  m < n
    <3>1. Before(log'[m], log'[n])
      BY <2>2 DEF Before, WorkerStep
    <3>2. log'[m] \notin disturbed /\ log'[n] \notin disturbed
      BY <2>2
    <3>3. CASE m \in DOMAIN log /\ n \in DOMAIN log
      BY <2>1, <3>1, <3>2, <3>3 DEF LogInOrder
    <3>4. CASE m \in DOMAIN log /\ n \notin DOMAIN log
      BY <1>1, <2>1, <3>4
    <3>5. CASE m \notin DOMAIN log
      <4>1. m - Len(log) \in DOMAIN pending /\ log'[m] = pending[m - Len(log)]
        <5>1. m - Len(log) \in 1 .. Len(pending) /\ Len(log) + (m - Len(log)) = m
          BY <1>1, <2>1, <3>5
        <5>2. log'[Len(log) + (m - Len(log))] = pending[m - Len(log)]
          BY <1>1, <2>1, <5>1
        <5>3. QED
          BY <1>1, <5>1, <5>2
      <4>2. /\ log'[m] \in Tasks /\ job[log'[m]] \in {"leaving", "committing"}
            /\ pending = <<log'[m]>>
        BY <1>1, <3>2, <4>1 DEF DbInv, Alone
      <4>3. CASE n \in DOMAIN log
        <5>1. log'[n] = log[n] /\ job[log'[n]] = "returned" /\ log'[n] \in Tasks
          BY <1>1, <1>4, <2>1, <3>2, <4>3
        <5>2. job[log'[m]] \in Over
          BY <3>1, <3>2, <4>2, <5>1 DEF TurnsInv
        <5>3. QED
          BY <4>2, <5>2 DEF Over
      <4>4. CASE n \notin DOMAIN log
        <5>1. Len(pending) = 1
          BY <4>2
        <5>2. m = n
          BY <1>1, <2>1, <3>5, <4>4, <5>1
        <5>3. QED
          BY <3>1, <5>2, BeforeIsStrict DEF DbInv, LockInv
      <4>5. QED
        BY <4>3, <4>4
    <3>6. QED
      BY <3>3, <3>4, <3>5
  <2>3. QED
    BY <2>2 DEF LogInOrder
<1>7. QED
  BY <1>3, <1>5, <1>6 DEF WorkerStep, Work, Begin, Read, LookForTransaction, BeginTransaction,
     Execute, ExecuteFails, LeaveWith, Commit, Rollback

LEMMA OrderInductive == OrderInv /\ [DbNext \/ Quiet]_dbVars => OrderInv'
<1>1. ASSUME OrderInv, UNCHANGED dbVars PROVE OrderInv'
  <2>1. DbInv'
    BY <1>1, DatabaseInductive DEF OrderInv
  <2>2. UNCHANGED <<queue, job, log, pending, asked, disturbed>>
    BY <1>1 DEF dbVars, connectionVars
  <2>3. LineInv' /\ TurnsInv'
    BY <1>1, <2>2 DEF OrderInv, LineInv, TurnsInv, Before
  <2>4. OnceInv' /\ LogInOrder'
    BY <1>1, <2>2 DEF OrderInv, OnceInv, LogInOrder, Before
  <2>5. QED
    BY <2>1, <2>3, <2>4 DEF OrderInv
<1>2. ASSUME OrderInv, DbNext PROVE OrderInv'
  <2>1. DbInv /\ LineInv /\ TurnsInv /\ OnceInv /\ LogInOrder
    BY <1>2 DEF OrderInv
  <2>2. DbInv' /\ TurnsInv' /\ disturbed \subseteq disturbed'
    BY <1>2, <2>1, DatabaseInductive, TurnsKept DEF DbNext, WatchDisturbed
  <2>3. ASSUME NEW t \in Tasks, WorkerStep(t) PROVE LineInv' /\ OnceInv' /\ LogInOrder'
    BY <2>1, <2>2, <2>3, WorkingKeepsTheOrder, WritesHappenOnce, LogKept
  <2>4. ASSUME NEW t \in Tasks, \E k \in {"read", "write"} : Ask(t, k)
        PROVE  LineInv' /\ OnceInv' /\ LogInOrder'
    <3>1. LineInv' /\ \A a, b : Before(a, b)' /\ b # t => Before(a, b)
      BY <2>1, <2>4, AskingKeepsTheOrder
    <3>2. /\ UNCHANGED <<log, pending>> /\ job[t] = "none"
          /\ \A u \in Tasks \ {t} : job'[u] = job[u]
      BY <2>1, <2>4 DEF Ask, Advance, connectionVars, DbInv, LockInv, DbTypeOK
    <3>3. OnceInv'
      BY <2>1, <3>2 DEF OnceInv
    <3>4. \A i \in DOMAIN log : log[i] # t
      BY <2>1, <3>2 DEF OnceInv
    <3>5. \A m, n \in DOMAIN log : Before(log[m], log[n])' => Before(log[m], log[n])
      <4> TAKE m, n \in DOMAIN log
      <4>1. log'[m] = log[m] /\ log'[n] = log[n] /\ log[n] # t
        BY <3>2, <3>4
      <4>2. QED
        BY <3>1, <4>1 DEF Before
    <3>6. LogInOrder'
      BY <2>1, <2>2, <3>2, <3>5 DEF LogInOrder
    <3>7. QED
      BY <3>1, <3>3, <3>6
  <2>5. ASSUME NEW t \in Tasks, Submit(t) \/ Deliver(t) \/ Cancel(t)
        PROVE  LineInv' /\ OnceInv' /\ LogInOrder'
    <3>1. UNCHANGED <<log, pending, asked>>
      BY <2>5 DEF Submit, Deliver, Cancel, connectionVars
    <3>2. \A u \in Tasks : job[u] \in Placed => job'[u] = job[u]
      BY <2>1, <2>5 DEF Submit, Deliver, Cancel, Advance, Placed, DbInv, LockInv, DbTypeOK
    <3>3. OnceInv'
      BY <2>1, <3>1, <3>2 DEF OnceInv, Placed
    <3>4. LogInOrder'
      BY <2>1, <2>2, <3>1 DEF LogInOrder, Before
    <3>5. LineInv'
      <4>1. CASE Submit(t)
        BY <2>1, <4>1, SubmittingKeepsTheOrder
      <4>2. CASE Deliver(t)
        <5>1. LeaveQueue(t) /\ UNCHANGED <<asked, job>> /\ job[t] \in {"returned", "raised"}
          BY <4>2 DEF Deliver
        <5>2. job' \in [Tasks -> Jobs]
          BY <2>1, <5>1 DEF DbInv, LockInv, DbTypeOK
        <5>3. QED
          BY <2>1, <5>1, <5>2, LeavingKeepsTheOrder
      <4>3. CASE Cancel(t)
        <5>1. LeaveQueue(t) /\ UNCHANGED asked
          BY <4>3 DEF Cancel
        <5>2. job[t] # "none"
          BY <2>1, <5>1 DEF LeaveQueue, DbInv, LockInv, QueueInv
        <5>3. /\ job' \in [Tasks -> Jobs] /\ \A u \in Tasks \ {t} : job'[u] = job[u]
              /\ (job'[t] = job[t] /\ job[t] # "queued") \/ job'[t] = "dropped"
          BY <2>1, <4>3 DEF Cancel, Advance, DbInv, LockInv, DbTypeOK, Jobs
        <5>4. QED
          BY <2>1, <5>1, <5>2, <5>3, LeavingKeepsTheOrder
      <4>4. QED
        BY <2>5, <4>1, <4>2, <4>3
    <3>6. QED
      BY <3>3, <3>4, <3>5
  <2>6. LineInv' /\ OnceInv' /\ LogInOrder'
    BY <1>2, <2>3, <2>4, <2>5 DEF DbNext
  <2>7. QED
    BY <2>2, <2>6 DEF OrderInv
<1>3. QED
  BY <1>1, <1>2 DEF Quiet

LEMMA OrderInitially == DbInit => OrderInv
<1> SUFFICES ASSUME DbInit PROVE OrderInv
  OBVIOUS
<1>1. LineInv /\ TurnsInv
  BY DEF DbInit, LineInv, TurnsInv, Before, Using, Busy
<1>2. OnceInv /\ LogInOrder
  BY DEF DbInit, OnceInv, LogInOrder
<1>3. QED
  BY <1>1, <1>2, DatabaseInitially DEF OrderInv

\* No write is committed twice, and the calls that nobody disturbed are committed
\* in the order in which they were made; last_turn_id relies on it.
THEOREM WritesAreInOrder == DbSpec => []StoredInOrder
<1>1. ASSUME OrderInv PROVE StoredInOrder
  <2>1. IsInjective(log)
    BY <1>1 DEF OrderInv, OnceInv, IsInjective
  <2>2. ASSUME NEW i \in DOMAIN asked, NEW j \in DOMAIN asked,
               NEW m \in DOMAIN log, NEW n \in DOMAIN log,
               i < j, {asked[i], asked[j]} \cap disturbed = {},
               log[m] = asked[i], log[n] = asked[j]
        PROVE  m < n
    <3>1. Before(log[m], log[n])
      BY <2>2 DEF Before
    <3>2. QED
      BY <1>1, <2>2, <3>1 DEF OrderInv, LogInOrder
  <2>3. QED
    BY <2>1, <2>2 DEF StoredInOrder
<1>2. QED
  BY OrderInitially, OrderInductive, <1>1, PTL DEF DbSpec
=============================================================================
