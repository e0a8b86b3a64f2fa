--------------------------- MODULE RecordsProofs ---------------------------
(***************************************************************************)
(* What the tables say of the turns: RecordsInv is inductive beside        *)
(* ServerInv and OwnerInv, so what a client was told "ok" about is there   *)
(* to be found, and what it was told is deleted does not come back, as far *)
(* as the calls of the request kept clear of stray workers.                *)
(***************************************************************************)
EXTENDS OwnershipProofs

\* The request that opened a thread has not written its row yet, and may.
Unwritten(q) ==
    /\ handler[q] \in Openers /\ thread[q] \in Threads
    /\ pc[q] \in InTurn \cup {"announcing", "saving"} \/ q \in stray

\* Nobody's row names t, so nobody got past the owner check with it, but for one
\* who was shown the row by the stray worker that was inserting it.
Unheard(t) ==
    /\ \A table \in Tables : ~HasRow(table, t)
    /\ \A s \in Requests \ disturbed : handler[s] \in OwnedHandlers /\ thread[s] = t =>
          pc[s] \in Outside /\ answer[s] # "ok"

OpenersFit == \A q \in Requests : Unwritten(q) => Unheard(thread[q])

\* A deletion of the conversation t that was confirmed, or disturbed.
Deleted(t) ==
    \E q \in Requests : /\ handler[q] = "delete_conversation" /\ thread[q] = t
                        /\ answer[q] = "ok" \/ q \in disturbed

DeletionFits(s) ==
    /\ answer[s] = "ok" => pc[s] = "done"
    /\ handler[s] \in OwnedHandlers /\ answer[s] = "ok" =>
          thread[s] \in Threads /\ mode[thread[s]] # "none"
    /\ handler[s] = "delete_thread" /\ pc[s] \in {"archiving", "marking"} =>
          s \in disturbed \/ HasRow("codex_threads", thread[s])
    /\ handler[s] = "delete_thread" /\ pc[s] = "marking" => thread[s] \in archivedThreads
    /\ handler[s] \in Resumers /\ pc[s] \notin Outside =>
          s \in disturbed \/ HasRow(TableOf(handler[s]), thread[s]) \/ Deleted(thread[s])

\* The turn of r has ended, and was on its way to the tables or got there.
Recorded(r) ==
    /\ handler[r] \in TurnHandlers \ {"chat"}
    /\ pc[r] = "finishing" \/ answer[r] = "ok"

\* Where a task is once its turn is written, or will not be.
Past == {"finishing", "closing", "zombie", "done"}

IsLastTurn(r) == \E table \in Tables, t \in Threads : rows[table][t].lastTurn = r

Written(r) == Recorded(r) \/ r \in stray \/ IsLastTurn(r)

\* The queue of writes has every task that waits to write, once, and turns of
\* one thread in the order in which they began.
WritesFit ==
    /\ \A i, j \in DOMAIN writes : writes[i] = writes[j] => i = j
    /\ \A i \in DOMAIN writes : pc[writes[i]] \in {"saving", "marking"}
    /\ \A q \in Requests : pc[q] \in {"saving", "marking"} =>
          \E i \in DOMAIN writes : writes[i] = q
    /\ \A i, j \in DOMAIN writes :
          /\ i < j
          /\ pc[writes[i]] = "saving" /\ pc[writes[j]] = "saving"
          /\ thread[writes[i]] = thread[writes[j]]
          => writes[i] \in earlier[writes[j]]

\* What is written, and what will be, began before the turn that runs now.
TurnsInOrder ==
    \A p, r \in Requests :
       /\ thread[p] = thread[r]
       /\ \/ /\ Written(p) /\ pc[p] # "saving"
             /\ pc[r] = "saving" \/ (pc[r] \in InTurn /\ turn[r] \in Begun)
          \/ /\ pc[p] = "saving"
             /\ pc[r] \in InTurn /\ turn[r] \in Begun
       /\ p # r
       => p \in earlier[r]

WrittenFit(r) ==
    /\ Written(r) \/ pc[r] = "saving" => turn[r] \in Ended /\ handler[r] \in TurnHandlers \ {"chat"}
    /\ r \in stray => answer[r] = "gone"

LastTurnsFit ==
    \A table \in Tables, t \in Threads :
       LET last == rows[table][t].lastTurn
       IN  last # NoRequest => thread[last] = t /\ pc[last] \in Past

\* The write of a stream that was cancelled came later than it should.
CameLate(r) == answer[r] = "gone" /\ pc[r] \in {"zombie", "done"}

RecordFits(r) ==
    LET row == rows[TableOf(handler[r])][thread[r]]
    IN  \/ Deleted(thread[r])
        \/ handler[r] \in Openers /\ row.owner = client[r]
        \/ /\ handler[r] \in Resumers
           /\ \/ row.lastTurn = r
              \/ /\ row.lastTurn # NoRequest
                 /\ r \in earlier[row.lastTurn] \/ CameLate(row.lastTurn)

RecordsInv ==
    /\ DeletedStaysDeleted
    /\ OpenersFit
    /\ WritesFit
    /\ TurnsInOrder
    /\ LastTurnsFit
    /\ \A r \in Requests : DeletionFits(r) /\ WrittenFit(r)
    /\ \A r \in Requests \ disturbed : Recorded(r) => RecordFits(r)
----------------------------------------------------------------------------
(* What one step may do to one request. *)

Claims(q) == pc[q] \in InTurn \cup {"announcing", "saving"}

Effect(q) ==
    /\ pc'[q] = "saving" /\ pc[q] # "saving" =>
          /\ pc[q] = "turn" /\ turn[q] \in Ended /\ handler[q] # "chat"
          /\ AskToWrite(q)
    /\ pc'[q] = "marking" /\ pc[q] # "marking" =>
          /\ pc[q] = "archiving" /\ AskToWrite(q)
          /\ handler[q] = "delete_thread" => thread[q] \in archivedThreads'
    /\ pc'[q] = "archiving" /\ pc[q] # "archiving" => pc[q] = "checking"
    /\ pc'[q] = "finishing" /\ pc[q] # "finishing" => Save(q)
    /\ answer'[q] = "ok" /\ answer[q] # "ok" =>
          /\ pc'[q] = "done" /\ pc[q] \notin Outside
          /\ handler[q] \in Deleters => Mark(q)
          /\ handler[q] \in TurnHandlers \ {"chat"} => pc[q] = "finishing" \/ Save(q)
    /\ pc[q] \in {"zombie", "done"} => pc'[q] \in {"zombie", "done"} /\ answer'[q] = answer[q]
    /\ pc[q] = "done" => pc'[q] = "done"
    /\ pc[q] \in Past => pc'[q] \in Past
    /\ pc'[q] \in InTurn /\ turn'[q] \in Begun =>
          pc[q] \in InTurn /\ (turn[q] \in Begun \/ TurnBegins(q))
    /\ turn[q] \in Ended => turn'[q] = turn[q]
    /\ handler[q] \in OwnedHandlers /\ pc'[q] \notin Outside /\ pc[q] \in Outside =>
          /\ pc[q] = "checking"
          /\ q \in disturbed' \/ rows[TableOf(handler[q])][thread[q]].owner = client[q]
    /\ handler[q] \in Openers /\ Claims(q)' /\ ~Claims(q) =>
          \E t \in Threads : Chat(q, t) \/ ThreadStarted(q, t)
    /\ pc[q] = "idle" =>
          /\ pc'[q] \in {"idle", "checking", "admission"} /\ answer'[q] = answer[q]
          /\ handler'[q] \in OwnedHandlers => pc'[q] # "admission"

\* A turn on a thread that exists starts with thread_resume.
LEMMA ResumerLeads ==
    ASSUME NEW r \in Requests, pc[r] \in Locations, pc \in [Requests -> Locations],
           handler[r] \in Resumers, AdmitResumer(r) \/ LockGranted(r)
    PROVE  pc'[r] \in {"resuming", "waiting"} /\ UNCHANGED <<turn, answer>>
<1>1. UNCHANGED answer
  BY DEF AdmitResumer, LockGranted, serverVars
<1>2. handler[r] # "stream_new_thread"
  BY DEF Resumers, PlainResumers
<1>3. /\ pc' = [pc EXCEPT ![r] = "resuming"] \/ pc' = [pc EXCEPT ![r] = "waiting"]
      /\ turn' = turn
  BY <1>2 DEF AdmitResumer, LockGranted, TakeLock, Proceed, Goto
<1>4. QED
  BY <1>1, <1>3

\* Next to no stray worker, a call does what it should, and reads what is committed.
LEMMA UndisturbedCalls ==
    ASSUME NEW r \in Requests, r \notin disturbed'
    PROVE  /\ Save(r) => WriteRow(r)
           /\ SaveFails(r) => rows' = rows
           /\ Mark(r) => MarkRow(r)
           /\ MarkFails(r) => rows' = rows
           /\ CheckOwner(r) => \A table \in Tables, t \in Threads :
                                 OwnersSeen(table, t) = {rows[table][t].owner}
<1>1. MeetStrays(r) => Strays = {}
  BY DEF MeetStrays
<1>2. Save(r) => WriteRow(r)
  BY <1>1, Zenon DEF Save
<1>3. SaveFails(r) => rows' = rows
  BY <1>1, Zenon DEF SaveFails
<1>4. Mark(r) => MarkRow(r)
  BY <1>1, Zenon DEF Mark
<1>5. MarkFails(r) => rows' = rows
  BY <1>1, Zenon DEF MarkFails
<1>6. CheckOwner(r) => MeetStrays(r)
  BY DEF CheckOwner
<1>7. Strays = {} => stray = {}
  BY DEF Strays
<1>8. QED
  BY <1>1, <1>2, <1>3, <1>4, <1>5, <1>6, <1>7 DEF OwnersSeen

\* The step of a task, as its own request sees it.
LEMMA OwnEffect ==
    ASSUME ServerInv, OwnerInv, NEW r \in Requests, StepOf(r)
    PROVE  Effect(r)
<1>1. TasksTypeOK /\ BackendTypeOK /\ HandlerFits(r) /\ OwnerFits(r)
  BY ServerInvContext DEF ContextOf, TaskInv, OwnerInv
<1> USE DEF Effect, Claims, Past, Finish, Goto, Say, serverVars, requestVars, backendVars, threadVars,
        InCodex, Yielded, TasksTypeOK, BackendTypeOK, OwnerFits, HandlerFits, Streams, Outside,
        BeforeTurn, InTurn, Ended, Begun
<1>2. CASE \E h \in Handlers, c \in Clients :
              \E t \in IF h \in OwnedHandlers THEN Threads ELSE {NoThread} : Arrive(r, h, c, t)
  <2>1. /\ pc[r] = "idle" /\ pc'[r] \in {"checking", "admission"} /\ answer' = answer /\ turn' = turn
        /\ handler[r] \notin OwnedHandlers /\ (handler'[r] \in OwnedHandlers => pc'[r] = "checking")
    BY <1>1, <1>2 DEF Arrive, OwnedHandlers, Resumers, PlainResumers, Deleters
  <2>2. QED
    BY <1>1, <2>1
<1>3. CASE \E t \in Threads : Chat(r, t) \/ ThreadStarted(r, t)
  BY <1>1, <1>3, OpeningLeads DEF Chat, ThreadStarted
<1>4. CASE CheckOwner(r)
  <2>1. thread[r] \in Threads /\ TableOf(handler[r]) \in Tables
    BY <1>1, <1>4, ServerInvContext
    DEF CheckOwner, ContextOf, TaskInv, ThreadFits, TableOf, Tables
  <2>2. \/ /\ client[r] \in OwnersSeen(TableOf(handler[r]), thread[r])
           /\ \E l \in {"admission", "archiving", "interrupting"} : pc' = [pc EXCEPT ![r] = l]
           /\ answer' = answer
        \/ pc' = [pc EXCEPT ![r] = "done"] /\ answer' = [answer EXCEPT ![r] = "notFound"]
    BY <1>4 DEF CheckOwner
  <2>3. turn' = turn /\ pc[r] = "checking" /\ handler' = handler
    BY <1>4 DEF CheckOwner
  <2>4. \/ r \in disturbed' \/ pc'[r] = "done"
        \/ rows[TableOf(handler[r])][thread[r]].owner = client[r]
    BY <1>1, <1>4, <2>1, <2>2, UndisturbedCalls
  <2>5. QED
    BY <1>1, <2>2, <2>3, <2>4
<1>5. CASE Refuse(r)
  BY <1>1, <1>5 DEF Refuse
<1>6. CASE AdmitOpener(r)
  BY <1>1, <1>6 DEF AdmitOpener
<1>7. CASE AdmitResumer(r)
  <2>1. pc[r] = "admission" /\ handler[r] \in Resumers
    BY <1>1, <1>7 DEF AdmitResumer
  <2>2. pc'[r] \in {"resuming", "waiting"} /\ UNCHANGED <<turn, answer>>
    BY <1>1, <1>7, <2>1, ResumerLeads
  <2>3. QED
    BY <1>1, <2>1, <2>2
<1>8. CASE LockGranted(r)
  <2>1. pc[r] = "waiting" /\ handler[r] \in Resumers
    BY <1>1, <1>8 DEF LockGranted
  <2>2. pc'[r] \in {"resuming", "waiting"} /\ UNCHANGED <<turn, answer>>
    BY <1>1, <1>8, <2>1, ResumerLeads
  <2>3. QED
    BY <1>1, <2>1, <2>2
<1>9. CASE TurnRegistered(r)
  BY <1>1, <1>9 DEF TurnRegistered
<1>10. CASE RunReturns(r)
  <2>1. pc[r] = "turn" /\ turn[r] \in Ended /\ turn' = turn /\ (IF handler[r] = "chat" THEN pc'[r] = "done" ELSE pc'[r] = "saving" /\ answer' = answer /\ AskToWrite(r))
    BY <1>1, <1>10 DEF RunReturns
  <2>2. QED
    BY <1>1, <2>1 DEF Deleters
<1>11. CASE PlainTimeout(r)
  BY <1>1, <1>11 DEF PlainTimeout
<1>12. CASE StreamTimeout(r)
  BY <1>1, <1>12 DEF StreamTimeout
<1>13. CASE StreamEnds(r)
  <2>1. pc[r] = "turn" /\ turn[r] \in Ended /\ turn' = turn /\ answer' = answer /\ handler[r] # "chat" /\ (pc'[r] = "failing" \/ (pc'[r] = "saving" /\ AskToWrite(r)))
    BY <1>1, <1>13 DEF StreamEnds, StreamTurns
  <2>2. QED
    BY <1>1, <2>1
<1>14. CASE GeneratorFinalised(r)
  BY <1>1, <1>14 DEF GeneratorFinalised
<1>15. CASE Save(r)
  <2>1. pc[r] = "saving" /\ turn' = turn /\ handler[r] \notin Deleters /\ ((pc'[r] = "finishing" /\ answer' = answer) \/ pc'[r] = "done")
    BY <1>1, <1>15 DEF Save, Deleters, TurnHandlers, PlainTurns, PlainOpeners, PlainResumers, StreamTurns
  <2>2. QED
    BY <1>1, <1>15, <2>1
<1>16. CASE SaveFails(r)
  BY <1>1, <1>16 DEF SaveFails
<1>17. CASE Mark(r)
  <2>1. pc[r] = "marking" /\ turn' = turn /\ pc'[r] = "done" /\ handler[r] \in Deleters /\ handler[r] \notin TurnHandlers
    BY <1>1, <1>17 DEF Mark, Deleters, TurnHandlers, PlainTurns, PlainOpeners, PlainResumers, StreamTurns
  <2>2. QED
    BY <1>1, <1>17, <2>1
<1>18. CASE MarkFails(r)
  BY <1>1, <1>18 DEF MarkFails
<1>19. CASE LookUpTurn(r)
  <2>1. pc[r] = "interrupting" /\ turn' = turn /\ (pc'[r] = "done" \/ (pc'[r] = "signalling" /\ answer' = answer)) /\ handler[r] \notin Deleters \cup TurnHandlers
    BY <1>1, <1>19 DEF LookUpTurn, Deleters, TurnHandlers, PlainTurns, PlainOpeners, PlainResumers, StreamTurns
  <2>2. QED
    BY <1>1, <2>1
<1>20. CASE ChunkSent(r)
  <2>1. /\ pc[r] \in Yielded /\ handler[r] \notin Deleters
        /\ \/ pc[r] = "announcing" /\ pc'[r] = "starting" /\ turn'[r] = "requested" /\ answer' = answer
           \/ pc[r] = "relaying" /\ pc'[r] = "turn" /\ turn' = turn /\ answer' = answer
           \/ pc[r] = "failing" /\ pc'[r] = "done" /\ turn' = turn /\ answer'[r] # "ok"
           \/ pc[r] = "finishing" /\ pc'[r] = "done" /\ turn' = turn
    BY <1>1, <1>20 DEF ChunkSent, RequestTurn, Deleters, StreamTurns
  <2>2. QED
    BY <1>1, <2>1
<1>21. CASE ChunkSentLate(r)
  BY <1>1, <1>21 DEF ChunkSentLate
<1>22. CASE ResponseEnds(r)
  BY <1>1, <1>22 DEF ResponseEnds
<1>23. CASE DisconnectInCodex(r)
  BY <1>1, <1>23 DEF DisconnectInCodex
<1>24. CASE DisconnectInYield(r)
  BY <1>1, <1>24 DEF DisconnectInYield
<1>25. CASE DisconnectInSave(r)
  BY <1>1, <1>25 DEF DisconnectInSave
<1>26. CASE ThreadResumed(r)
  <2>1. pc[r] = "resuming" /\ pc'[r] = "turn" /\ turn'[r] = "requested" /\ answer' = answer /\ turn[r] = "none" /\ handler[r] \notin Openers
    BY <1>1, <1>26 DEF ThreadResumed, RequestTurn, PlainResumers, Openers, PlainOpeners
  <2>2. QED
    BY <1>1, <2>1
<1>27. CASE StreamResumed(r)
  <2>1. pc[r] = "resuming" /\ pc'[r] = "announcing" /\ turn' = turn /\ answer' = answer /\ handler[r] \notin Openers
    BY <1>1, <1>27 DEF StreamResumed, Resumers, PlainResumers, Openers, PlainOpeners
  <2>2. QED
    BY <1>1, <2>1
<1>28. CASE RelayEvent(r)
  BY <1>1, <1>28 DEF RelayEvent
<1>29. CASE TurnBegins(r)
  BY <1>1, <1>29 DEF TurnBegins
<1>30. CASE TurnEnds(r)
  BY <1>1, <1>30 DEF TurnEnds
<1>31. CASE RunRaises(r)
  BY <1>1, <1>31 DEF RunRaises
<1>32. CASE StreamRaises(r)
  BY <1>1, <1>32 DEF StreamRaises
<1>33. CASE Archived(r)
  BY <1>1, <1>33 DEF Archived, ArchiveThread
<1>34. CASE ArchiveFails(r)
  BY <1>1, <1>34 DEF ArchiveFails
<1>35. CASE Interrupt(r)
  <2>1. pc[r] = "signalling" /\ pc'[r] = "done" /\ handler[r] \notin Deleters \cup TurnHandlers /\ (turn[r] \in Ended => turn'[r] = turn[r])
    BY <1>1, <1>35 DEF Interrupt, Deleters, TurnHandlers, PlainTurns, PlainOpeners, PlainResumers, StreamTurns
  <2>2. QED
    BY <1>1, <2>1
<1>36. CASE InterruptRaises(r)
  BY <1>1, <1>36 DEF InterruptRaises
<1>37. CASE DeadlinePasses(r)
  BY <1>1, <1>37 DEF DeadlinePasses
<1>38. CASE StrayStep(r)
  BY <1>1, <1>38 DEF StrayStep, StrayLands, StrayEnds
<1>39. QED
  BY <1>2, <1>3, <1>4, <1>5, <1>6, <1>7, <1>8, <1>9, <1>10, <1>11, <1>12, <1>13, <1>14, <1>15, <1>16, <1>17, <1>18, <1>19, <1>20, <1>21, <1>22, <1>23, <1>24, <1>25, <1>26, <1>27, <1>28, <1>29, <1>30, <1>31, <1>32, <1>33, <1>34, <1>35, <1>36, <1>37, <1>38
  DEF StepOf, ServerStep, ClientStep, BackendStep
----------------------------------------------------------------------------
(* What one step may do to everybody. *)

\* Steps of others leave a turn alone, but for an interrupt of a running one.
LEMMA TurnsMoveOn ==
    ASSUME ServerInv, [Next]_vars, NEW q \in Requests, turn'[q] # turn[q]
    PROVE  \/ StepOf(q)
           \/ turn[q] = "running" /\ turn'[q] = "interrupted"
           \/ Restart
<1>1. TasksTypeOK /\ BackendTypeOK
  BY ServerInvContext DEF ContextOf
<1>2. ~UNCHANGED vars
  BY DEF vars, backendVars
<1>3. PICK r \in Requests : StepOf(r) \/ Restart
  BY <1>2, NextIsStepOf DEF AllServed
<1>4. CASE Restart
  BY <1>4
<1>5. CASE StepOf(r) /\ q # r
  <2>1. turn' # turn
    OBVIOUS
  <2>2. CASE Interrupt(r)
    <3>1. victim[r] \in Requests => turn[victim[r]] \in TurnStates
      BY <1>1 DEF BackendTypeOK
    <3>2. QED
      BY <1>1, <2>2 DEF Interrupt, BackendTypeOK
  <2>3. CASE ServerStep(r)
    <3>1. AdmitResumer(r) \/ LockGranted(r)
      BY <2>1, <2>3 DEF ServerStep, CheckOwner, Refuse, AdmitOpener, TurnRegistered, RunReturns,
         PlainTimeout, StreamTimeout, StreamEnds, GeneratorFinalised, Save, SaveFails, Mark,
         MarkFails, LookUpTurn, backendVars
    <3>2. turn' = turn \/ turn' = [turn EXCEPT ![r] = "requested"]
      BY <3>1 DEF AdmitResumer, LockGranted, TakeLock, Proceed, RequestTurn
    <3>3. QED
      BY <1>1, <1>5, <3>2 DEF BackendTypeOK
  <2>4. CASE ClientStep(r)
    <3>1. ChunkSent(r)
      BY <2>1, <2>4 DEF ClientStep, ChunkSentLate, ResponseEnds, DisconnectInCodex,
         DisconnectInYield, DisconnectInSave, backendVars
    <3>2. turn' = turn \/ turn' = [turn EXCEPT ![r] = "requested"]
      BY <3>1 DEF ChunkSent, RequestTurn
    <3>3. QED
      BY <1>1, <1>5, <3>2 DEF BackendTypeOK
  <2>5. CASE BackendStep(r) /\ ~Interrupt(r)
    <3>1. \/ \E t \in Threads : Chat(r, t) \/ ThreadStarted(r, t)
          \/ ThreadResumed(r) \/ TurnBegins(r) \/ TurnEnds(r)
      BY <2>1, <2>5 DEF BackendStep, StreamResumed, RelayEvent, RunRaises, StreamRaises, Archived,
         ArchiveThread, ArchiveFails, InterruptRaises, backendVars
    <3>2. CASE \E t \in Threads : Chat(r, t) \/ ThreadStarted(r, t)
      BY <1>1, <1>5, <3>2, OpeningLeads DEF BackendTypeOK
    <3>3. CASE ThreadResumed(r) \/ TurnBegins(r) \/ TurnEnds(r)
      BY <1>1, <1>5, <3>3 DEF BackendTypeOK, ThreadResumed, RequestTurn, TurnBegins, TurnEnds
    <3>4. QED
      BY <3>1, <3>2, <3>3
  <2>6. CASE \/ DeadlinePasses(r) \/ StrayStep(r)
             \/ \E h \in Handlers, c \in Clients :
                   \E t \in IF h \in OwnedHandlers THEN Threads ELSE {NoThread} : Arrive(r, h, c, t)
    BY <2>1, <2>6 DEF DeadlinePasses, StrayStep, StrayLands, StrayEnds, Arrive, backendVars
  <2>7. QED
    BY <1>5, <2>2, <2>3, <2>4, <2>5, <2>6 DEF StepOf
<1>6. QED
  BY <1>3, <1>4, <1>5

\* Whoever does not step itself sees at most its turn interrupted.
LEMMA OthersEffect ==
    ASSUME ServerInv, OwnerInv, [Next]_vars, NEW q \in Requests, ~StepOf(q), ~Restart
    PROVE  Effect(q)
<1>1. /\ pc'[q] = pc[q] /\ answer'[q] = answer[q]
      /\ handler'[q] = handler[q] /\ client'[q] = client[q] /\ thread'[q] = thread[q]
  <2>1. CASE UNCHANGED vars
    BY <2>1 DEF vars, requestVars, serverVars
  <2>2. CASE \E r \in Requests : StepOf(r)
    <3>1. PICK r \in Requests : StepOf(r)
      BY <2>2
    <3>2. QED
      BY <3>1, StepKeepsOthers, StepKeepsOwner DEF OthersKeep, OwnershipKept
  <2>3. QED
    BY <2>1, <2>2, NextIsStepOf DEF AllServed
<1>2. turn'[q] = turn[q] \/ (turn[q] = "running" /\ turn'[q] = "interrupted")
  BY TurnsMoveOn
<1>3. Claims(q)' <=> Claims(q)
  BY <1>1 DEF Claims
<1>4. QED
  BY <1>1, <1>2, <1>3 DEF Effect, Ended, Begun

LEMMA EveryEffect ==
    ASSUME ServerInv, OwnerInv, [Next]_vars, NEW q \in Requests
    PROVE  Effect(q)
<1>1. CASE StepOf(q)
  BY <1>1, OwnEffect
<1>2. CASE ~StepOf(q) /\ ~Restart
  BY <1>2, OthersEffect
<1>3. CASE Restart
  <2>1. /\ pc'[q] = IF pc[q] = "idle" THEN "idle" ELSE "done"
        /\ answer'[q] = IF pc[q] \in {"idle", "done", "zombie"} THEN answer[q] ELSE "lost"
    BY <1>3 DEF Restart
  <2>2. turn[q] \in Ended => turn'[q] = turn[q]
    BY <1>3 DEF Restart, Ended
  <2>3. QED
    BY <2>1, <2>2 DEF Effect, Past, Outside, InTurn, Claims
<1>4. QED
  BY <1>1, <1>2, <1>3

\* What a request is about changes when it arrives and when its thread is started.
LEMMA SettledStay ==
    ASSUME ServerInv, [Next]_vars, NEW q \in Requests, pc[q] # "idle",
           \A t \in Threads : ~Chat(q, t) /\ ~ThreadStarted(q, t)
    PROVE  handler'[q] = handler[q] /\ client'[q] = client[q] /\ thread'[q] = thread[q]
<1>1. TasksTypeOK
  BY ServerInvContext DEF ContextOf
<1>2. CASE UNCHANGED <<requestVars, mode, creator>>
  BY <1>2 DEF requestVars
<1>3. CASE \E r \in Requests, h \in Handlers, c \in Clients :
              \E t \in IF h \in OwnedHandlers THEN Threads ELSE {NoThread} : Arrive(r, h, c, t)
  BY <1>1, <1>3 DEF Arrive, TasksTypeOK
<1>4. CASE \E r \in Requests, t \in Threads : Chat(r, t) \/ ThreadStarted(r, t)
  <2>1. PICK r \in Requests, t \in Threads : Chat(r, t) \/ ThreadStarted(r, t)
    BY <1>4
  <2>2. q # r
    BY <2>1
  <2>3. QED
    BY <1>1, <2>1, <2>2 DEF Chat, ThreadStarted, TasksTypeOK
<1>5. QED
  BY <1>2, <1>3, <1>4, OnlyOpeningsOpen

\* The turns that began before a turn are known for good once it has begun.
LEMMA EarlierKept ==
    ASSUME ServerInv, [Next]_vars, NEW q \in Requests, ~TurnBegins(q)
    PROVE  earlier'[q] = earlier[q]
<1>1. BackendTypeOK
  BY ServerInvContext DEF ContextOf
<1>2. CASE earlier' = earlier
  BY <1>2
<1>3. CASE \E r \in Requests : TurnBegins(r)
  <2>1. PICK r \in Requests : TurnBegins(r)
    BY <1>3
  <2>2. r # q
    BY <2>1
  <2>3. QED
    BY <1>1, <2>1, <2>2 DEF TurnBegins, BackendTypeOK
<1>4. CASE earlier' # earlier /\ \A r \in Requests : ~TurnBegins(r)
  <2>1. ~UNCHANGED vars /\ ~Restart
    BY <1>4 DEF vars, backendVars, Restart
  <2>2. PICK r \in Requests : StepOf(r)
    BY <2>1, NextIsStepOf DEF AllServed
  <2>3. ~ServerStep(r)
    BY <1>4 DEF ServerStep, CheckOwner, Refuse, AdmitOpener, AdmitResumer, LockGranted,
       TurnRegistered, RunReturns, PlainTimeout, StreamTimeout, StreamEnds, GeneratorFinalised,
       Save, SaveFails, Mark, MarkFails, LookUpTurn, backendVars
  <2>4. ~ClientStep(r)
    BY <1>4 DEF ClientStep, ChunkSent, ChunkSentLate, ResponseEnds, DisconnectInCodex,
       DisconnectInYield, DisconnectInSave, backendVars
  <2>5. ~BackendStep(r)
    BY <1>4 DEF BackendStep, Chat, ThreadStarted, ThreadResumed, StreamResumed, RelayEvent,
       TurnEnds, RunRaises, StreamRaises, Archived, ArchiveThread, ArchiveFails, Interrupt,
       InterruptRaises, backendVars
  <2>6. ~DeadlinePasses(r) /\ ~StrayStep(r)
        /\ \A h, c, t : ~Arrive(r, h, c, t)
    BY <1>4 DEF DeadlinePasses, StrayStep, StrayLands, StrayEnds, Arrive, backendVars
  <2>7. QED
    BY <2>2, <2>3, <2>4, <2>5, <2>6 DEF StepOf
<1>5. QED
  BY <1>2, <1>3, <1>4

LEMMA ArchivedForGood ==
    ASSUME ServerInv, [Next]_vars
    PROVE  archivedThreads \subseteq archivedThreads'
<1>1. CASE archivedThreads' = archivedThreads
  BY <1>1
<1>2. CASE archivedThreads' # archivedThreads
  <2>1. ~UNCHANGED vars /\ ~Restart
    BY <1>2 DEF vars, backendVars, Restart, threadVars
  <2>2. PICK r \in Requests : StepOf(r)
    BY <2>1, NextIsStepOf DEF AllServed
  <2>3. ~ServerStep(r)
    BY <1>2 DEF ServerStep, CheckOwner, Refuse, AdmitOpener, AdmitResumer, LockGranted,
       TurnRegistered, RunReturns, PlainTimeout, StreamTimeout, StreamEnds, GeneratorFinalised,
       Save, SaveFails, Mark, MarkFails, LookUpTurn, backendVars, threadVars
  <2>4. ~ClientStep(r)
    BY <1>2 DEF ClientStep, ChunkSent, ChunkSentLate, ResponseEnds, DisconnectInCodex,
       DisconnectInYield, DisconnectInSave, backendVars, threadVars
  <2>5. BackendStep(r) => Archived(r)
    BY <1>2 DEF BackendStep, Chat, ThreadStarted, StartThread, ThreadResumed, StreamResumed,
       RelayEvent, TurnBegins, TurnEnds, RunRaises, StreamRaises, ArchiveFails, Interrupt,
       InterruptRaises, backendVars, threadVars
  <2>6. ~DeadlinePasses(r) /\ ~StrayStep(r)
        /\ \A h, c, t : ~Arrive(r, h, c, t)
    BY <1>2 DEF DeadlinePasses, StrayStep, StrayLands, StrayEnds, Arrive, backendVars
  <2>7. QED
    BY <2>2, <2>3, <2>4, <2>5, <2>6 DEF StepOf, Archived, ArchiveThread
<1>3. QED
  BY <1>1, <1>2

\* What has been disturbed stays so.
LEMMA DisturbedForGood ==
    ASSUME ServerInv, [Next]_vars
    PROVE  disturbed \subseteq disturbed'
<1>1. CASE disturbed' = disturbed
  BY <1>1
<1>2. CASE \E r \in Requests : MeetStrays(r)
  BY <1>2 DEF MeetStrays
<1>3. CASE disturbed' # disturbed /\ \A r \in Requests : ~MeetStrays(r)
  <2>1. ~UNCHANGED vars /\ ~Restart
    BY <1>3 DEF vars, storeVars, strayVars, Restart
  <2>2. PICK r \in Requests : StepOf(r)
    BY <2>1, NextIsStepOf DEF AllServed
  <2>3. ~ServerStep(r)
    BY <1>3 DEF ServerStep, CheckOwner, Refuse, AdmitOpener, AdmitResumer, LockGranted,
       TurnRegistered, RunReturns, PlainTimeout, StreamTimeout, StreamEnds, GeneratorFinalised,
       Save, SaveFails, Mark, MarkFails, LookUpTurn, storeVars, strayVars
  <2>4. ~ClientStep(r)
    BY <1>3 DEF ClientStep, ChunkSent, ChunkSentLate, ResponseEnds, DisconnectInCodex,
       DisconnectInYield, DisconnectInSave, storeVars, strayVars
  <2>5. ~BackendStep(r)
    BY <1>3 DEF BackendStep, Chat, ThreadStarted, ThreadResumed, StreamResumed, RelayEvent,
       TurnBegins, TurnEnds, RunRaises, StreamRaises, Archived, ArchiveFails, Interrupt,
       InterruptRaises, storeVars, strayVars
  <2>6. ~DeadlinePasses(r) /\ ~StrayStep(r) /\ \A h, c, t : ~Arrive(r, h, c, t)
    BY <1>3 DEF DeadlinePasses, StrayStep, StrayLands, StrayEnds, Arrive, storeVars, strayVars
  <2>7. QED
    BY <2>2, <2>3, <2>4, <2>5, <2>6 DEF StepOf
<1>4. QED
  BY <1>1, <1>2, <1>3

\* A write goes astray only when its task is cancelled in the middle of it.
LEMMA StraysChange ==
    ASSUME ServerInv, [Next]_vars, NEW q \in stray'
    PROVE  q \in stray \/ (q \in Requests /\ DisconnectInSave(q) /\ IsNextToWrite(q))
<1>1. CASE stray' = stray
  BY <1>1
<1>2. CASE stray' # stray
  <2>1. ~UNCHANGED vars
    BY <1>2 DEF vars, storeVars, strayVars
  <2>2. (\E r \in Requests : StepOf(r)) \/ Restart
    BY <2>1, NextIsStepOf DEF AllServed
  <2>3. CASE Restart
    BY <2>3 DEF Restart
  <2>4. ASSUME NEW r \in Requests, StepOf(r)
        PROVE  q \in stray \/ (q \in Requests /\ DisconnectInSave(q) /\ IsNextToWrite(q))
    <3>1. ~ServerStep(r)
      BY <1>2 DEF ServerStep, CheckOwner, Refuse, AdmitOpener, AdmitResumer, LockGranted,
         TurnRegistered, RunReturns, PlainTimeout, StreamTimeout, StreamEnds, GeneratorFinalised,
         Save, SaveFails, Mark, MarkFails, LookUpTurn, storeVars, strayVars
    <3>2. ClientStep(r) => DisconnectInSave(r)
      BY <1>2 DEF ClientStep, ChunkSent, ChunkSentLate, ResponseEnds, DisconnectInCodex,
         DisconnectInYield, storeVars, strayVars
    <3>3. ~BackendStep(r)
      BY <1>2 DEF BackendStep, Chat, ThreadStarted, ThreadResumed, StreamResumed, RelayEvent,
         TurnBegins, TurnEnds, RunRaises, StreamRaises, Archived, ArchiveFails, Interrupt,
         InterruptRaises, storeVars, strayVars
    <3>4. ~DeadlinePasses(r) /\ \A h, c, t : ~Arrive(r, h, c, t)
      BY <1>2 DEF DeadlinePasses, Arrive, storeVars, strayVars
    <3>5. DisconnectInSave(r) \/ StrayStep(r)
      BY <2>4, <3>1, <3>2, <3>3, <3>4 DEF StepOf
    <3>6. QED
      BY <1>2, <3>5 DEF DisconnectInSave, StrayStep, StrayLands, StrayEnds
  <2>5. QED
    BY <2>2, <2>3, <2>4
<1>3. QED
  BY <1>1, <1>2

----------------------------------------------------------------------------
(* The queue of writes. *)

Queued(q) == pc[q] \in {"saving", "marking"}

\* The i-th write leaves the queue.
Removed(i) ==
    /\ writes' \in Seq(Requests) /\ Len(writes') = Len(writes) - 1
    /\ \A j \in DOMAIN writes' : writes'[j] = IF j < i THEN writes[j] ELSE writes[j + 1]

Remains(r) == writes' = writes /\ (Queued(r)' <=> Queued(r))
Joins(r) == writes' = Append(writes, r) /\ ~Queued(r) /\ Queued(r)'
Leaves(r) ==
    /\ Queued(r) /\ ~Queued(r)'
    /\ \E i \in DOMAIN writes : writes[i] = r /\ Removed(i)

LEMMA HeadIsRemoved ==
    ASSUME writes \in Seq(Requests), NEW r \in Requests, IsNextToWrite(r), WriteDone
    PROVE  \E i \in DOMAIN writes : writes[i] = r /\ Removed(i)
<1>1. /\ Len(writes) \in Nat /\ Len(writes) > 0 /\ writes[1] = r
      /\ DOMAIN writes = 1 .. Len(writes)
  BY DEF IsNextToWrite
<1>2. /\ Tail(writes) \in Seq(Requests) /\ Len(Tail(writes)) = Len(writes) - 1
      /\ \A j \in 1 .. Len(writes) - 1 : Tail(writes)[j] = writes[j + 1]
  BY <1>1
<1>3. Removed(1)
  BY <1>1, <1>2 DEF WriteDone, Removed
<1>4. QED
  BY <1>1, <1>3

LEMMA WithdrawnIsRemoved ==
    ASSUME writes \in Seq(Requests), NEW r \in Requests, WithdrawWrite(r)
    PROVE  \E i \in DOMAIN writes : writes[i] = r /\ Removed(i)
<1>1. PICK i \in DOMAIN writes : writes[i] = r /\ writes' = RemoveAt(writes, i)
  BY DEF WithdrawWrite
<1>2. i \in 1 .. Len(writes) /\ Len(writes) \in Nat
  BY <1>1
<1> DEFINE a == SubSeq(writes, 1, i - 1)
           b == SubSeq(writes, i + 1, Len(writes))
<1>3. a \in Seq(Requests) /\ Len(a) = i - 1 /\ \A j \in 1 .. i - 1 : a[j] = writes[j]
  BY <1>2
<1>4. /\ b \in Seq(Requests) /\ Len(b) = Len(writes) - i
      /\ \A j \in 1 .. Len(writes) - i : b[j] = writes[i + j]
  BY <1>2
<1>5. writes' = a \o b
  BY <1>1 DEF RemoveAt
<1> HIDE DEF a, b
<1>6. a \o b \in Seq(Requests) /\ Len(a \o b) = Len(writes) - 1
  BY <1>2, <1>3, <1>4
<1>7. ASSUME NEW j \in 1 .. Len(writes) - 1
      PROVE  (a \o b)[j] = IF j < i THEN writes[j] ELSE writes[j + 1]
  BY <1>2, <1>3, <1>4
<1>8. DOMAIN writes' = 1 .. Len(writes) - 1
  BY <1>2, <1>5, <1>6
<1>9. Removed(i)
  BY <1>5, <1>6, <1>7, <1>8 DEF Removed
<1>10. QED
  BY <1>1, <1>9

\* Whoever stops waiting to write has left the queue, and nobody else.
LEMMA QueueStep ==
    ASSUME ServerInv, NEW r \in Requests, StepOf(r)
    PROVE  Remains(r) \/ Joins(r) \/ Leaves(r)
<1>1. TasksTypeOK /\ HandlerFits(r) /\ writes \in Seq(Requests)
  BY ServerInvContext DEF ContextOf, TaskInv, ServerInv, TypeOK, StoreTypeOK
<1> USE DEF Remains, Joins, Queued, Finish, Goto, Say, storeVars, strayVars, InCodex, Yielded, TasksTypeOK
<1>2. CASE \E h \in Handlers, c \in Clients :
              \E t \in IF h \in OwnedHandlers THEN Threads ELSE {NoThread} : Arrive(r, h, c, t)
  BY <1>1, <1>2 DEF Arrive
<1>3. CASE \E t \in Threads : Chat(r, t) \/ ThreadStarted(r, t)
  BY <1>1, <1>3, OpeningLeads DEF Chat, ThreadStarted
<1>4. CASE AdmitResumer(r) \/ LockGranted(r)
  <2>1. pc[r] \in {"admission", "waiting"} /\ writes' = writes
    BY <1>4 DEF AdmitResumer, LockGranted
  <2>2. handler[r] \in Resumers
    BY <1>1, <1>4 DEF AdmitResumer, LockGranted, HandlerFits
  <2>3. QED
    BY <1>1, <1>4, <2>1, <2>2, ResumerLeads
<1>5. CASE CheckOwner(r) \/ Refuse(r) \/ AdmitOpener(r) \/ TurnRegistered(r) \/ LookUpTurn(r)
  BY <1>1, <1>5 DEF CheckOwner, Refuse, AdmitOpener, TurnRegistered, LookUpTurn
<1>6. CASE RunReturns(r)
  BY <1>1, <1>6 DEF RunReturns, AskToWrite
<1>7. CASE PlainTimeout(r) \/ StreamTimeout(r) \/ GeneratorFinalised(r)
  BY <1>1, <1>7 DEF PlainTimeout, StreamTimeout, GeneratorFinalised
<1>8. CASE StreamEnds(r)
  BY <1>1, <1>8 DEF StreamEnds, AskToWrite
<1>9. CASE Save(r) \/ SaveFails(r) \/ Mark(r) \/ MarkFails(r)
  <2>1. IsNextToWrite(r) /\ WriteDone
    BY <1>9 DEF Save, SaveFails, Mark, MarkFails
  <2>2. pc[r] \in {"saving", "marking"} /\ pc'[r] \notin {"saving", "marking"}
    BY <1>1, <1>9 DEF Save, SaveFails, Mark, MarkFails
  <2>3. QED
    BY <1>1, <2>1, <2>2, HeadIsRemoved DEF Leaves
<1>10. CASE DisconnectInSave(r)
  <2>1. WithdrawWrite(r) /\ pc[r] = "saving" /\ pc'[r] = "zombie"
    BY <1>1, <1>10 DEF DisconnectInSave
  <2>2. QED
    BY <1>1, <2>1, WithdrawnIsRemoved DEF Leaves
<1>11. CASE ClientStep(r) /\ ~DisconnectInSave(r)
  <2>1. writes' = writes
    BY <1>11 DEF ClientStep, ChunkSent, ChunkSentLate, ResponseEnds, DisconnectInCodex,
       DisconnectInYield
  <2>2. pc[r] \in InCodex \cup Yielded \cup {"closing"}
    BY <1>11 DEF ClientStep, ChunkSent, ChunkSentLate, ResponseEnds, DisconnectInCodex,
       DisconnectInYield
  <2>3. pc'[r] \in {"starting", "turn", "done", "closing", "zombie"}
    BY <1>1, <1>11 DEF ClientStep, ChunkSent, ChunkSentLate, ResponseEnds, DisconnectInCodex,
       DisconnectInYield
  <2>4. QED
    BY <2>1, <2>2, <2>3
<1>12. CASE \/ ThreadResumed(r) \/ StreamResumed(r) \/ RelayEvent(r) \/ TurnBegins(r)
            \/ TurnEnds(r) \/ RunRaises(r) \/ StreamRaises(r)
  BY <1>1, <1>12 DEF ThreadResumed, StreamResumed, RelayEvent, TurnBegins, TurnEnds, RunRaises,
     StreamRaises
<1>13. CASE Archived(r)
  BY <1>1, <1>13 DEF Archived, AskToWrite
<1>14. CASE ArchiveFails(r)
  BY <1>1, <1>14 DEF ArchiveFails, AskToWrite
<1>15. CASE Interrupt(r) \/ InterruptRaises(r) \/ DeadlinePasses(r) \/ StrayStep(r)
  BY <1>1, <1>15 DEF Interrupt, InterruptRaises, DeadlinePasses, StrayStep, StrayLands, StrayEnds
<1>16. QED
  BY <1>2, <1>3, <1>4, <1>5, <1>6, <1>7, <1>8, <1>9, <1>10, <1>11, <1>12, <1>13, <1>14, <1>15
  DEF StepOf, ServerStep, ClientStep, BackendStep

LEMMA QueueChange ==
    ASSUME ServerInv, [Next]_vars
    PROVE  \/ writes' = writes /\ \A q \in Requests : Queued(q)' <=> Queued(q)
           \/ \E r \in Requests : /\ Joins(r) \/ Leaves(r)
                                  /\ \A q \in Requests \ {r} : pc'[q] = pc[q]
           \/ writes' = <<>> /\ \A q \in Requests : ~Queued(q)'
<1>1. CASE UNCHANGED vars
  BY <1>1 DEF vars, storeVars, strayVars, Queued
<1>2. CASE Restart
  BY <1>2 DEF Restart, Queued
<1>3. ASSUME NEW r \in Requests, StepOf(r)
      PROVE  \/ writes' = writes /\ \A q \in Requests : Queued(q)' <=> Queued(q)
             \/ /\ Joins(r) \/ Leaves(r)
                /\ \A q \in Requests \ {r} : pc'[q] = pc[q]
  <2>1. \A q \in Requests \ {r} : pc'[q] = pc[q]
    BY <1>3, StepKeepsOthers DEF OthersKeep
  <2>2. QED
    BY <1>3, <2>1, QueueStep DEF Remains, Queued
<1>4. QED
  BY <1>1, <1>2, <1>3, NextIsStepOf DEF AllServed

----------------------------------------------------------------------------
(* What RecordsInv says of tasks that write, and what a step leaves them. *)

LEMMA Settled ==
    ASSUME ServerInv, [Next]_vars, NEW q \in Requests, pc[q] \notin {"idle", "opening"}
    PROVE  handler'[q] = handler[q] /\ client'[q] = client[q] /\ thread'[q] = thread[q]
BY SettledStay DEF Chat, ThreadStarted

LEMMA WrittenArePast ==
    ASSUME ServerInv, RecordsInv, NEW p \in Requests, Written(p)
    PROVE  pc[p] \in Past /\ turn[p] \in Ended /\ handler[p] \in TurnHandlers \ {"chat"}
<1>1. turn[p] \in Ended /\ handler[p] \in TurnHandlers \ {"chat"}
  BY DEF RecordsInv, WrittenFit
<1>2. CASE Recorded(p)
  BY <1>1, <1>2 DEF Recorded, RecordsInv, DeletionFits, Past
<1>3. CASE p \in stray
  BY <1>1, <1>3 DEF ServerInv, StrayFits, Past
<1>4. CASE IsLastTurn(p)
  BY <1>1, <1>4, DomainAssumption DEF IsLastTurn, RecordsInv, LastTurnsFit
<1>5. QED
  BY <1>1, <1>2, <1>3, <1>4 DEF Written

\* While the first row of a thread is on its way, nobody else knows the thread.
LEMMA InsertersAreUnheard ==
    ASSUME ServerInv, OwnerInv, RecordsInv, NEW s \in Requests, handler[s] \in Openers,
           pc[s] = "saving" \/ s \in stray
    PROVE  Unheard(thread[s])
<1>1. thread[s] \in Threads
  BY WritersFit
<1>2. QED
  BY <1>1 DEF RecordsInv, OpenersFit, Unwritten

\* The step by which a row changes.
LEMMA WriteLands ==
    ASSUME ServerInv, OwnerInv, RecordsInv, NEW s \in Requests,
           NEW table \in Tables, NEW t \in Threads, Writes(s, table, t)
    PROVE  /\ pc[s] = "saving" \/ s \in stray
           /\ pc'[s] \in {"finishing", "zombie", "done"} /\ s \notin stray'
           /\ thread[s] = t /\ pc[s] \notin {"idle", "opening"}
           /\ turn[s] \in Ended /\ handler[s] \in TurnHandlers \ {"chat"}
<1>1. TasksTypeOK
  BY ServerInvContext DEF ContextOf
<1>2. turn[s] \in Ended /\ handler[s] \in TurnHandlers \ {"chat"}
  BY DEF RecordsInv, WrittenFit, Written, Writes, Save, SaveFails, StrayLands
<1>3. CASE Save(s) \/ SaveFails(s)
  <2>1. pc[s] = "saving" /\ stray' = stray /\ pc'[s] \in {"finishing", "zombie", "done"}
    BY <1>1, <1>3 DEF Save, SaveFails, Finish, Goto, TasksTypeOK
  <2>2. s \notin stray
    BY <2>1 DEF ServerInv, StrayFits
  <2>3. QED
    BY <1>2, <2>1, <2>2 DEF Writes
<1>4. CASE StrayLands(s)
  <2>1. s \in stray /\ stray' = stray \ {s} /\ pc' = pc
    BY <1>4 DEF StrayLands
  <2>2. pc[s] \in {"zombie", "done"}
    BY <2>1 DEF ServerInv, StrayFits
  <2>3. QED
    BY <1>2, <2>1, <2>2 DEF Writes
<1>5. QED
  BY <1>3, <1>4 DEF Writes

LEMMA MarkLands ==
    ASSUME ServerInv, NEW s \in Requests, Mark(s) \/ MarkFails(s)
    PROVE  /\ pc[s] = "marking" /\ pc'[s] = "done"
           /\ answer'[s] = "ok" \/ s \in disturbed' \/ rows' = rows
           /\ handler'[s] = handler[s] /\ thread'[s] = thread[s] /\ handler[s] \in Deleters
<1>1. TasksTypeOK /\ HandlerFits(s)
  BY ServerInvContext DEF ContextOf, TaskInv
<1>2. CASE Mark(s)
  BY <1>1, <1>2 DEF Mark, Finish, Goto, Say, requestVars, TasksTypeOK, HandlerFits
<1>3. CASE MarkFails(s)
  <2>1. s \in disturbed' \/ rows' = rows
    BY <1>3, UndisturbedCalls
  <2>2. QED
    BY <1>1, <1>3, <2>1 DEF MarkFails, Finish, Goto, Say, requestVars, TasksTypeOK, HandlerFits
<1>4. QED
  BY <1>2, <1>3

\* A deletion that was confirmed or disturbed stays so.
LEMMA DeletedKept ==
    ASSUME ServerInv, OwnerInv, RecordsInv, [Next]_vars, NEW t, Deleted(t)
    PROVE  Deleted(t)'
<1>1. PICK q \in Requests :
         /\ handler[q] = "delete_conversation" /\ thread[q] = t
         /\ answer[q] = "ok" \/ q \in disturbed
  BY DEF Deleted
<1>2. pc[q] \notin {"idle", "opening"}
  <2>1. OwnerFits(q) /\ HandlerFits(q)
    BY DEF OwnerInv, ServerInv, TaskInv
  <2>2. QED
    BY <1>1, <2>1 DEF OwnerFits, HandlerFits, Openers, PlainOpeners
<1>3. answer[q] = "ok" => answer'[q] = "ok"
  <2>1. Effect(q) /\ DeletionFits(q)
    BY EveryEffect DEF RecordsInv
  <2>2. QED
    BY <2>1 DEF Effect, DeletionFits
<1>4. handler'[q] = handler[q] /\ thread'[q] = thread[q]
  BY <1>2, Settled
<1>5. QED
  BY <1>1, <1>3, <1>4, DisturbedForGood DEF Deleted

\* A row goes only when its conversation is deleted, and says so.
LEMMA RowsGoByDeletion ==
    ASSUME ServerInv, OwnerInv, [Next]_vars, NEW table \in Tables, NEW t \in Threads,
           HasRow(table, t)
    PROVE  \/ HasRow(table, t)' /\ rows'[table][t].owner = rows[table][t].owner
           \/ table = "chat_conversations" /\ Deleted(t)'
<1>1. StoreTypeOK
  BY DEF ServerInv, TypeOK
<1>2. CASE rows'[table][t] = rows[table][t]
  BY <1>2 DEF HasRow
<1>3. ASSUME NEW s \in Requests, Writes(s, table, t)
      PROVE  rows'[table][t].owner = rows[table][t].owner
  BY <1>1, <1>3 DEF Writes, Inserts, Touches, StoreTypeOK, Row
<1>4. ASSUME NEW s \in Requests, Marks(s, table, t)
      PROVE  \/ rows'[table][t].owner = rows[table][t].owner
             \/ table = "chat_conversations" /\ Deleted(t)'
  <2>1. CASE rows'[table][t] = [rows[table][t] EXCEPT !.archived = TRUE]
    BY <1>1, <2>1 DEF StoreTypeOK, Row
  <2>2. CASE handler[s] = "delete_conversation" /\ table = "chat_conversations"
    BY <1>4, <2>2, MarkLands DEF Marks, Deleted
  <2>3. QED
    BY <1>4, <2>1, <2>2, Zenon DEF Marks
<1>5. QED
  BY <1>2, <1>3, <1>4, RowsChange DEF HasRow

\* A row comes only by the write of the request that opened its thread.
LEMMA RowsComeByOpening ==
    ASSUME ServerInv, OwnerInv, RecordsInv, [Next]_vars, NEW table \in Tables, NEW t \in Threads,
           ~HasRow(table, t), HasRow(table, t)'
    PROVE  \E s \in Requests :
              /\ handler[s] \in Openers /\ Writes(s, table, t) /\ Inserts(s, table, t)
              /\ Unheard(t) /\ thread[s] = t
<1>1. rows'[table][t] # rows[table][t]
  BY DEF HasRow
<1>2. ASSUME NEW s \in Requests, Marks(s, table, t)
      PROVE  FALSE
  BY <1>2 DEF Marks, HasRow, NoRow, NewRow
<1>3. PICK s \in Requests : Writes(s, table, t)
  BY <1>1, <1>2, RowsChange
<1>4. Inserts(s, table, t)
  BY <1>3 DEF Writes, Touches
<1>5. handler[s] \in Openers /\ thread[s] = t /\ (pc[s] = "saving" \/ s \in stray)
  BY <1>3, <1>4, WriteLands DEF Inserts
<1>6. Unheard(t)
  BY <1>5, InsertersAreUnheard
<1>7. QED
  BY <1>3, <1>4, <1>5, <1>6

----------------------------------------------------------------------------
(* RecordsInv is preserved, part by part. *)

\* thread_start: the thread is new to everybody.
LEMMA FreshIsUnheard ==
    ASSUME ServerInv, OwnerInv, RecordsInv, [Next]_vars, NEW q \in Requests, NEW t \in Threads,
           Chat(q, t) \/ ThreadStarted(q, t)
    PROVE  Unheard(t)'
<1>1. /\ mode[t] = "none" /\ rows' = rows /\ answer' = answer /\ handler' = handler
      /\ thread' = [thread EXCEPT ![q] = t] /\ handler[q] \in Openers
  BY OpeningKeepsOwner
<1>2. \A table \in Tables : ~HasRow(table, t)'
  BY <1>1 DEF ServerInv, RowsKnown, HasRow
<1>3. OthersKeep(q) /\ TasksTypeOK
  BY ChatStep, ThreadStartedStep, ServerInvContext DEF ContextOf, StepOK
<1>4. ASSUME NEW s \in Requests, handler'[s] \in OwnedHandlers, thread'[s] = t
      PROVE  pc'[s] \in Outside /\ answer'[s] # "ok"
  <2>1. s # q
    BY <1>1, <1>4 DEF OwnedHandlers, Openers, PlainOpeners, Resumers, PlainResumers, Deleters
  <2>2. pc'[s] = pc[s] /\ handler[s] \in OwnedHandlers /\ thread[s] = t /\ answer'[s] = answer[s]
    BY <1>1, <1>3, <1>4, <2>1 DEF OthersKeep
  <2>3. ThreadFits(s) /\ DeletionFits(s)
    BY DEF ServerInv, TaskInv, RecordsInv
  <2>4. QED
    BY <1>1, <2>2, <2>3 DEF ThreadFits, DeletionFits, Outside
<1>5. QED
  BY <1>2, <1>4 DEF Unheard

\* Nobody hears of a thread before its row is there.
LEMMA UnheardKept ==
    ASSUME ServerInv, OwnerInv, RecordsInv, [Next]_vars, NEW q \in Requests, Unwritten(q),
           Unwritten(q)', thread'[q] = thread[q]
    PROVE  Unheard(thread[q])'
<1> DEFINE t == thread[q]
<1>1. Unheard(t) /\ t \in Threads /\ handler[q] \in Openers
  BY DEF RecordsInv, OpenersFit, Unwritten
<1>2. ASSUME NEW table \in Tables
      PROVE  ~HasRow(table, t)'
  <2>1. ASSUME HasRow(table, t)'
        PROVE  FALSE
    <3>1. PICK s \in Requests : handler[s] \in Openers /\ Writes(s, table, t) /\ thread[s] = t
      BY <1>1, <2>1, RowsComeByOpening DEF Unheard
    <3>2. s = q
      BY <1>1, <3>1 DEF OwnerInv, OpenedOnce
    <3>3. pc'[q] \in {"finishing", "zombie", "done"} /\ q \notin stray'
      BY <1>1, <3>1, <3>2, WriteLands
    <3>4. QED
      BY <3>3 DEF Unwritten, InTurn
  <2>2. QED
    BY <2>1
<1>3. ASSUME NEW s \in Requests, s \notin disturbed', handler'[s] \in OwnedHandlers, thread'[s] = t
      PROVE  pc'[s] \in Outside /\ answer'[s] # "ok"
  <2>1. Effect(s) /\ OwnerFits(s) /\ HandlerFits(s) /\ s \notin disturbed
    BY <1>3, EveryEffect, DisturbedForGood DEF OwnerInv, ServerInv, TaskInv
  <2>2. CASE pc[s] = "idle"
    BY <1>3, <2>1, <2>2 DEF Effect, OwnerFits, Outside
  <2>3. CASE pc[s] = "opening"
    <3>1. handler[s] \in Openers
      BY <2>1, <2>3 DEF HandlerFits
    <3>2. handler'[s] = handler[s]
      <4>1. CASE \A u \in Threads : ~Chat(s, u) /\ ~ThreadStarted(s, u)
        BY <2>3, <4>1, SettledStay
      <4>2. CASE \E u \in Threads : Chat(s, u) \/ ThreadStarted(s, u)
        BY <4>2 DEF Chat, ThreadStarted
      <4>3. QED
        BY <4>1, <4>2
    <3>3. QED
      BY <1>3, <3>1, <3>2
      DEF OwnedHandlers, Openers, PlainOpeners, Resumers, PlainResumers, Deleters
  <2>4. CASE pc[s] \notin {"idle", "opening"}
    <3>1. handler[s] \in OwnedHandlers /\ thread[s] = t /\ client'[s] = client[s]
      BY <1>3, <2>4, Settled
    <3>2. pc[s] \in Outside /\ answer[s] # "ok"
      BY <1>1, <2>1, <3>1 DEF Unheard
    <3>3. rows[TableOf(handler[s])][t].owner # client[s]
      <4>1. client[s] # NoClient
        BY <2>1, <2>4, DomainAssumption DEF HandlerFits
      <4>2. QED
        BY <1>1, <4>1 DEF Unheard, HasRow, TableOf, Tables
    <3>4. QED
      BY <1>3, <2>1, <3>1, <3>2, <3>3 DEF Effect
  <2>5. QED
    BY <2>2, <2>3, <2>4
<1>4. QED
  BY <1>2, <1>3 DEF Unheard

LEMMA OpenersFitKept ==
    ASSUME ServerInv, OwnerInv, RecordsInv, [Next]_vars
    PROVE  OpenersFit'
<1>1. SUFFICES ASSUME NEW q \in Requests, Unwritten(q)'
               PROVE  Unheard(thread[q])'
  BY DEF OpenersFit
<1>2. Effect(q) /\ TasksTypeOK
  BY EveryEffect, ServerInvContext DEF ContextOf
<1>3. CASE \E t \in Threads : Chat(q, t) \/ ThreadStarted(q, t)
  <2>1. PICK t \in Threads : Chat(q, t) \/ ThreadStarted(q, t)
    BY <1>3
  <2>2. thread'[q] = t
    BY <1>2, <2>1 DEF Chat, ThreadStarted, TasksTypeOK
  <2>3. QED
    BY <2>1, <2>2, FreshIsUnheard
<1>4. CASE ~\E t \in Threads : Chat(q, t) \/ ThreadStarted(q, t)
  <2>1. pc[q] # "idle"
    <3>1. q \in stray => pc[q] # "idle"
      BY DEF ServerInv, StrayFits
    <3>2. DisconnectInSave(q) => pc[q] # "idle"
      BY DEF DisconnectInSave
    <3>3. q \in stray' => pc[q] # "idle"
      BY <3>1, <3>2, StraysChange
    <3>4. QED
      BY <1>1, <1>2, <3>3 DEF Unwritten, InTurn, Effect
  <2>2. handler'[q] = handler[q] /\ client'[q] = client[q] /\ thread'[q] = thread[q]
    BY <1>4, <2>1, SettledStay
  <2>3. Unwritten(q)
    <3>1. CASE Claims(q)'
      BY <1>1, <1>2, <1>4, <2>2, <3>1 DEF Unwritten, Effect, Claims
    <3>2. CASE q \in stray'
      BY <1>1, <2>2, <3>2, StraysChange DEF Unwritten, DisconnectInSave
    <3>3. QED
      BY <1>1, <3>1, <3>2 DEF Unwritten, Claims
  <2>4. QED
    BY <1>1, <2>2, <2>3, UnheardKept
<1>5. QED
  BY <1>3, <1>4

LEMMA DeletionFitsKept ==
    ASSUME ServerInv, OwnerInv, RecordsInv, [Next]_vars, NEW s \in Requests
    PROVE  DeletionFits(s)'
<1>1. Effect(s) /\ OwnerFits(s) /\ TaskInv(s) /\ DeletionFits(s) /\ TaskInv(s)' /\ OwnerFits(s)'
  BY EveryEffect, StepServerInv, EveryoneKeepsOwner DEF OwnerInv, ServerInv, RecordsInv
<1>2. answer'[s] = "ok" => pc'[s] = "done"
  BY <1>1 DEF Effect, DeletionFits
<1>3. \A t \in Threads : mode[t] # "none" => mode'[t] # "none"
  BY EveryoneKeepsOwner
<1>8. s \notin disturbed' => s \notin disturbed
  BY DisturbedForGood
<1>4. CASE pc[s] = "idle"
  BY <1>1, <1>2, <1>4
  DEF Effect, DeletionFits, OwnerFits, Outside, TaskInv, HandlerFits, OwnedHandlers, Deleters
<1>5. CASE pc[s] = "opening"
  <2>1. handler'[s] \in Openers
    <3>1. handler[s] \in Openers
      BY <1>1, <1>5 DEF TaskInv, HandlerFits
    <3>2. CASE \A u \in Threads : ~Chat(s, u) /\ ~ThreadStarted(s, u)
      BY <1>5, <3>1, <3>2, SettledStay
    <3>3. CASE \E u \in Threads : Chat(s, u) \/ ThreadStarted(s, u)
      BY <3>1, <3>3 DEF Chat, ThreadStarted
    <3>4. QED
      BY <3>2, <3>3
  <2>2. QED
    BY <1>2, <2>1
    DEF DeletionFits, OwnedHandlers, Openers, PlainOpeners, Resumers, PlainResumers, Deleters
<1>6. CASE pc[s] \notin {"idle", "opening"}
  <2>1. handler'[s] = handler[s] /\ client'[s] = client[s] /\ thread'[s] = thread[s]
    BY <1>6, Settled
  <2>2. handler[s] \in OwnedHandlers => thread[s] \in Threads
    BY <1>1, <1>6 DEF TaskInv, ThreadFits
  <2>3. client[s] # NoClient
    BY <1>1, <1>6, DomainAssumption DEF TaskInv, HandlerFits
  <2>4. handler[s] \in OwnedHandlers /\ answer'[s] = "ok" => mode'[thread[s]] # "none"
    BY <1>1, <1>3, <2>2 DEF Effect, DeletionFits, TaskInv, ThreadFits, Outside
  <2>5. TableOf(handler[s]) \in Tables
    BY DEF TableOf, Tables
  <2>6. ASSUME handler[s] = "delete_thread", pc'[s] \in {"archiving", "marking"}, s \notin disturbed'
        PROVE  HasRow("codex_threads", thread[s])'
    <3>1. HasRow("codex_threads", thread[s])
      BY <1>1, <1>8, <2>3, <2>6
      DEF Effect, DeletionFits, HasRow, TableOf, ConversationHandlers, Outside, OwnedHandlers,
          Deleters
    <3>2. QED
      BY <2>1, <2>2, <2>6, <3>1, RowsGoByDeletion DEF OwnedHandlers, Deleters, Tables
  <2>7. ASSUME handler[s] = "delete_thread", pc'[s] = "marking"
        PROVE  thread[s] \in archivedThreads'
    BY <1>1, <2>7, ArchivedForGood DEF Effect, DeletionFits
  <2>8. ASSUME handler[s] \in Resumers, pc'[s] \notin Outside, s \notin disturbed'
        PROVE  HasRow(TableOf(handler[s]), thread[s])' \/ Deleted(thread[s])'
    <3>1. HasRow(TableOf(handler[s]), thread[s]) \/ Deleted(thread[s])
      BY <1>1, <1>8, <2>3, <2>8 DEF Effect, DeletionFits, HasRow, OwnedHandlers
    <3>2. thread[s] \in Threads
      BY <2>2, <2>8 DEF OwnedHandlers
    <3>3. QED
      BY <2>1, <2>5, <3>1, <3>2, RowsGoByDeletion, DeletedKept
  <2>9. QED
    BY <1>2, <2>1, <2>2, <2>4, <2>6, <2>7, <2>8 DEF DeletionFits, Deleted, HasRow
<1>7. QED
  BY <1>4, <1>5, <1>6

\* Whoever was told "ok" about a thread it named keeps the thread's row from
\* being inserted again.
LEMMA NoRowComesBack ==
    ASSUME ServerInv, OwnerInv, RecordsInv, [Next]_vars, NEW table \in Tables, NEW t \in Threads,
           NEW s \in Requests, Writes(s, table, t), Inserts(s, table, t),
           NEW q \in Requests \ disturbed, handler[q] \in OwnedHandlers, thread[q] = t,
           pc[q] \notin Outside \/ answer[q] = "ok"
    PROVE  FALSE
<1>1. Unheard(t)
  BY WriteLands, InsertersAreUnheard DEF Inserts
<1>2. QED
  BY <1>1 DEF Unheard

LEMMA DeletedStaysDeletedKept ==
    ASSUME ServerInv, OwnerInv, RecordsInv, [Next]_vars
    PROVE  DeletedStaysDeleted'
<1>1. StoreTypeOK /\ DeletedStaysDeleted
  BY DEF ServerInv, TypeOK, RecordsInv
<1>2. ASSUME NEW r \in Requests, answer'[r] = "ok", handler'[r] \in Deleters
      PROVE  /\ handler'[r] = handler[r] /\ thread'[r] = thread[r] /\ thread[r] \in Threads
             /\ answer[r] = "ok" \/ (Mark(r) /\ pc[r] = "marking")
  <2>1. Effect(r) /\ TaskInv(r) /\ OwnerFits(r)
    BY EveryEffect DEF ServerInv, OwnerInv, TaskInv
  <2>2. pc[r] # "idle"
    BY <1>2, <2>1 DEF Effect, OwnerFits
  <2>3. pc[r] # "opening"
    <3>1. SUFFICES ASSUME pc[r] = "opening"
                   PROVE  FALSE
      OBVIOUS
    <3>2. handler[r] \in Openers /\ handler[r] \notin Deleters /\ answer[r] # "ok"
      BY <2>1, <3>1
      DEF TaskInv, HandlerFits, OwnerFits, Openers, PlainOpeners, Deleters
    <3>3. handler'[r] = handler[r]
      <4>1. CASE \A u \in Threads : ~Chat(r, u) /\ ~ThreadStarted(r, u)
        BY <3>1, <4>1, SettledStay
      <4>2. CASE \E u \in Threads : Chat(r, u) \/ ThreadStarted(r, u)
        BY <4>2 DEF Chat, ThreadStarted
      <4>3. QED
        BY <4>1, <4>2
    <3>4. QED
      BY <1>2, <3>2, <3>3
  <2>4. handler'[r] = handler[r] /\ thread'[r] = thread[r]
    BY <2>2, <2>3, Settled
  <2>5. thread[r] \in Threads
    BY <1>2, <2>1, <2>2, <2>4 DEF TaskInv, ThreadFits, OwnedHandlers
  <2>6. answer[r] = "ok" \/ Mark(r)
    BY <1>2, <2>1, <2>4 DEF Effect
  <2>7. QED
    BY <2>4, <2>5, <2>6 DEF Mark
<1>3. ASSUME NEW r \in Requests, r \notin disturbed', answer'[r] = "ok",
             handler'[r] = "delete_conversation"
      PROVE  ~HasRow("chat_conversations", thread[r])'
  <2>1. /\ handler'[r] = handler[r] /\ thread'[r] = thread[r] /\ thread[r] \in Threads
        /\ answer[r] = "ok" \/ (Mark(r) /\ pc[r] = "marking")
        /\ r \notin disturbed
    BY <1>2, <1>3, DisturbedForGood DEF Deleters
  <2>2. CASE answer[r] = "ok"
    <3>1. ~HasRow("chat_conversations", thread[r])
      BY <1>1, <1>3, <2>1, <2>2 DEF DeletedStaysDeleted
    <3>2. ASSUME HasRow("chat_conversations", thread[r])'
          PROVE  FALSE
      <4>1. PICK s \in Requests : Writes(s, "chat_conversations", thread[r])
                                  /\ Inserts(s, "chat_conversations", thread[r])
        BY <2>1, <3>1, <3>2, RowsComeByOpening DEF Tables
      <4>2. QED
        BY <1>3, <2>1, <2>2, <4>1, NoRowComesBack DEF Tables, OwnedHandlers, Deleters
    <3>3. QED
      BY <3>2
  <2>3. CASE Mark(r)
    <3>1. DeleteRow(thread[r])
      BY <1>3, <2>1, <2>3, UndisturbedCalls DEF MarkRow
    <3>2. QED
      BY <1>1, <2>1, <3>1 DEF DeleteRow, HasRow, NoRow, NewRow, StoreTypeOK, Tables
  <2>4. QED
    BY <2>1, <2>2, <2>3
<1>4. ASSUME NEW r \in Requests, r \notin disturbed', answer'[r] = "ok",
             handler'[r] = "delete_thread"
      PROVE  rows'["codex_threads"][thread'[r]].archived
  <2>1. /\ handler'[r] = handler[r] /\ thread'[r] = thread[r] /\ thread[r] \in Threads
        /\ answer[r] = "ok" \/ (Mark(r) /\ pc[r] = "marking")
        /\ r \notin disturbed
    BY <1>2, <1>4, DisturbedForGood DEF Deleters
  <2>2. CASE answer[r] = "ok"
    <3>1. rows["codex_threads"][thread[r]].archived
      BY <1>1, <1>4, <2>1, <2>2 DEF DeletedStaysDeleted
    <3>2. ASSUME NEW s \in Requests, Writes(s, "codex_threads", thread[r])
          PROVE  rows'["codex_threads"][thread[r]].archived
      <4>1. ~Inserts(s, "codex_threads", thread[r])
        BY <1>4, <2>1, <2>2, <3>2, NoRowComesBack DEF Tables, OwnedHandlers, Deleters
      <4>2. QED
        BY <1>1, <2>1, <3>1, <3>2, <4>1 DEF Writes, Touches, StoreTypeOK, Row, Tables
    <3>3. ASSUME NEW s \in Requests, Marks(s, "codex_threads", thread[r])
          PROVE  rows'["codex_threads"][thread[r]].archived
      BY <1>1, <2>1, <3>3 DEF Marks, StoreTypeOK, Row, Tables
    <3>4. QED
      BY <2>1, <3>1, <3>2, <3>3, RowsChange DEF Tables
  <2>3. CASE Mark(r) /\ pc[r] = "marking"
    <3>1. HasRow("codex_threads", thread[r])
      BY <1>4, <2>1, <2>3 DEF RecordsInv, DeletionFits
    <3>2. rows' = [rows EXCEPT !["codex_threads"][thread[r]].archived = TRUE]
      BY <1>4, <2>1, <2>3, <3>1, UndisturbedCalls DEF MarkRow, ArchiveRow
    <3>3. QED
      BY <1>1, <2>1, <3>2 DEF StoreTypeOK, Row, Tables
  <2>4. QED
    BY <2>1, <2>2, <2>3
<1>5. ASSUME NEW table \in Tables, NEW t \in Threads, rows'[table][t].archived
      PROVE  t \in archivedThreads'
  <2>1. SUFFICES ASSUME ~rows[table][t].archived
                 PROVE  t \in archivedThreads'
    BY <1>1, ArchivedForGood DEF DeletedStaysDeleted
  <2>2. ASSUME NEW s \in Requests, Writes(s, table, t)
        PROVE  FALSE
    BY <1>1, <1>5, <2>1, <2>2 DEF Writes, Inserts, Touches, NewRow, StoreTypeOK, Row
  <2>3. PICK s \in Requests : Marks(s, table, t)
    BY <1>5, <2>1, <2>2, RowsChange
  <2>4. handler[s] = "delete_thread" /\ pc[s] = "marking" /\ thread[s] = t
    BY <1>5, <2>3, MarkLands DEF Marks, NoRow, NewRow
  <2>5. QED
    BY <2>4, ArchivedForGood DEF RecordsInv, DeletionFits
<1>6. QED
  BY <1>3, <1>4, <1>5 DEF DeletedStaysDeleted, HasRow

LEMMA WrittenFitKept ==
    ASSUME ServerInv, OwnerInv, RecordsInv, [Next]_vars, NEW r \in Requests
    PROVE  /\ WrittenFit(r)'
           /\ Written(r)' => \/ Written(r)
                             \/ /\ pc[r] = "saving" /\ IsNextToWrite(r)
                                /\ Save(r) \/ SaveFails(r) \/ DisconnectInSave(r)
<1>1. Effect(r) /\ WrittenFit(r) /\ TaskInv(r) /\ OwnerFits(r)
  BY EveryEffect DEF RecordsInv, ServerInv, OwnerInv, TaskInv
<1>2. ASSUME Recorded(r)', ~Recorded(r)
      PROVE  Save(r)
  <2>1. pc[r] # "idle"
    BY <1>1, <1>2 DEF Recorded, Effect, OwnerFits
  <2>2. pc[r] # "opening"
    <3>1. CASE pc[r] = "opening" /\ \E u \in Threads : Chat(r, u) \/ ThreadStarted(r, u)
      <4>1. pc'[r] \in {"turn", "announcing"}
        BY <3>1, OpeningLeads, ServerInvContext DEF ContextOf, TasksTypeOK
      <4>2. answer'[r] # "ok"
        BY <4>1, StepServerInv, EveryoneKeepsOwner DEF OwnerFits
      <4>3. QED
        BY <1>2, <4>1, <4>2 DEF Recorded
    <3>2. CASE pc[r] = "opening" /\ \A u \in Threads : ~Chat(r, u) /\ ~ThreadStarted(r, u)
      <4>1. handler'[r] = handler[r]
        BY <3>2, SettledStay
      <4>2. QED
        BY <1>1, <1>2, <3>2, <4>1 DEF Recorded, Effect, Save, OwnerFits
    <3>3. QED
      BY <3>1, <3>2
  <2>3. handler'[r] = handler[r]
    BY <2>1, <2>2, Settled
  <2>4. QED
    BY <1>1, <1>2, <2>3 DEF Recorded, Effect
<1>3. ASSUME r \in stray', r \notin stray
      PROVE  DisconnectInSave(r) /\ IsNextToWrite(r) /\ answer'[r] = "gone"
  <2>1. DisconnectInSave(r) /\ IsNextToWrite(r)
    BY <1>3, StraysChange
  <2>2. QED
    BY <2>1, ServerInvContext DEF ContextOf, TasksTypeOK, DisconnectInSave, Say
<1>4. ASSUME IsLastTurn(r)', ~IsLastTurn(r)
      PROVE  Save(r) \/ SaveFails(r) \/ r \in stray
  <2>1. PICK table \in Tables, t \in Threads : rows'[table][t].lastTurn = r
    BY <1>4 DEF IsLastTurn
  <2>2. rows[table][t].lastTurn # r
    BY <1>4 DEF IsLastTurn
  <2>3. StoreTypeOK /\ r # NoRequest
    BY DomainAssumption DEF ServerInv, TypeOK
  <2>4. ASSUME NEW s \in Requests, Marks(s, table, t)
        PROVE  FALSE
    BY <2>1, <2>2, <2>3, <2>4 DEF Marks, NoRow, NewRow, StoreTypeOK, Row
  <2>5. PICK s \in Requests : Writes(s, table, t)
    BY <2>1, <2>2, <2>4, RowsChange
  <2>6. s = r
    BY <2>1, <2>2, <2>3, <2>5 DEF Writes, Inserts, Touches, NewRow, StoreTypeOK, Row
  <2>7. QED
    BY <2>5, <2>6 DEF Writes, StrayLands
<1>5. Save(r) \/ SaveFails(r) \/ DisconnectInSave(r) => pc[r] = "saving"
  BY DEF Save, SaveFails, DisconnectInSave
<1>6. Save(r) \/ SaveFails(r) => IsNextToWrite(r)
  BY DEF Save, SaveFails
<1>7. ASSUME Written(r)'
      PROVE  \/ Written(r)
             \/ /\ pc[r] = "saving" /\ IsNextToWrite(r)
                /\ Save(r) \/ SaveFails(r) \/ DisconnectInSave(r)
  BY <1>2, <1>3, <1>4, <1>5, <1>6, <1>7 DEF Written
<1>8. ASSUME Written(r)' \/ pc'[r] = "saving"
      PROVE  turn'[r] \in Ended /\ handler'[r] \in TurnHandlers \ {"chat"}
  <2>1. Written(r) \/ pc[r] = "saving" \/ (pc[r] = "turn" /\ turn[r] \in Ended /\ handler[r] # "chat")
    BY <1>1, <1>7, <1>8 DEF Effect
  <2>2. turn[r] \in Ended /\ handler[r] \in TurnHandlers \ {"chat"}
    BY <1>1, <2>1 DEF WrittenFit, TaskInv, HandlerFits
  <2>3. pc[r] \notin {"idle", "opening"}
    BY <2>1, WrittenArePast DEF Past
  <2>4. QED
    BY <1>1, <2>2, <2>3, Settled DEF Effect
<1>9. r \in stray' => answer'[r] = "gone"
  <2>1. r \in stray => pc[r] \in {"zombie", "done"}
    BY DEF ServerInv, StrayFits
  <2>2. QED
    BY <1>1, <1>3, <2>1 DEF WrittenFit, Effect
<1>10. QED
  BY <1>7, <1>8, <1>9 DEF WrittenFit

\* A turn that is written began before this step.
LEMMA SaversEarlierKept ==
    ASSUME ServerInv, OwnerInv, RecordsInv, [Next]_vars, NEW q \in Requests, turn[q] \in Ended
    PROVE  earlier'[q] = earlier[q]
BY EarlierKept DEF TurnBegins, Ended

LEMMA QueueOrderKept ==
    ASSUME ServerInv, OwnerInv, RecordsInv, [Next]_vars, NEW p \in Requests, NEW q \in Requests,
           pc[p] = "saving", pc'[p] = "saving", pc[q] = "saving", thread'[p] = thread'[q],
           thread[p] = thread[q] => p \in earlier[q]
    PROVE  p \in earlier'[q]
<1>1. thread'[p] = thread[p] /\ thread'[q] = thread[q]
  BY Settled
<1>2. turn[q] \in Ended
  BY DEF RecordsInv, WrittenFit
<1>3. QED
  BY <1>1, <1>2, SaversEarlierKept

LEMMA WritesFitKept ==
    ASSUME ServerInv, OwnerInv, RecordsInv, [Next]_vars
    PROVE  WritesFit'
<1>1. writes \in Seq(Requests) /\ Len(writes) \in Nat /\ DOMAIN writes = 1 .. Len(writes)
  BY DEF ServerInv, TypeOK, StoreTypeOK
<1>2. /\ \A i, j \in DOMAIN writes : writes[i] = writes[j] => i = j
      /\ \A i \in DOMAIN writes : writes[i] \in Requests /\ Queued(writes[i])
      /\ \A q \in Requests : Queued(q) => \E i \in DOMAIN writes : writes[i] = q
  BY <1>1 DEF RecordsInv, WritesFit, Queued
<1>3. ASSUME NEW q \in Requests, Queued(q), pc'[q] = "saving"
      PROVE  pc[q] = "saving"
  BY <1>3, EveryEffect DEF Effect, Queued
<1>4. ASSUME NEW i \in DOMAIN writes, NEW j \in DOMAIN writes, i < j,
             pc'[writes[i]] = "saving", pc'[writes[j]] = "saving",
             thread'[writes[i]] = thread'[writes[j]]
      PROVE  writes[i] \in earlier'[writes[j]]
  <2>1. pc[writes[i]] = "saving" /\ pc[writes[j]] = "saving"
    BY <1>2, <1>3, <1>4
  <2>2. thread[writes[i]] = thread[writes[j]] => writes[i] \in earlier[writes[j]]
    BY <1>4, <2>1 DEF RecordsInv, WritesFit
  <2>3. QED
    BY <1>2, <1>4, <2>1, <2>2, QueueOrderKept
<1>5. CASE writes' = writes /\ \A q \in Requests : Queued(q)' <=> Queued(q)
  BY <1>2, <1>4, <1>5 DEF WritesFit, Queued
<1>6. CASE writes' = <<>> /\ \A q \in Requests : ~Queued(q)'
  BY <1>6 DEF WritesFit, Queued
<1>7. ASSUME NEW r \in Requests, Joins(r), \A q \in Requests \ {r} : pc'[q] = pc[q]
      PROVE  WritesFit'
  <2>1. /\ writes' = Append(writes, r) /\ DOMAIN writes' = 1 .. Len(writes) + 1
        /\ writes'[Len(writes) + 1] = r /\ \A i \in DOMAIN writes : writes'[i] = writes[i]
        /\ ~Queued(r) /\ Queued(r)'
    BY <1>1, <1>7 DEF Joins
  <2>2. \A i \in DOMAIN writes' : i \in DOMAIN writes \/ i = Len(writes) + 1
    BY <1>1, <2>1
  <2>3. \A i \in DOMAIN writes : writes[i] # r /\ pc'[writes[i]] = pc[writes[i]]
    BY <1>2, <1>7, <2>1
  <2>4. \A i, j \in DOMAIN writes' : writes'[i] = writes'[j] => i = j
    BY <1>2, <2>1, <2>2, <2>3
  <2>5. \A i \in DOMAIN writes' : pc'[writes'[i]] \in {"saving", "marking"}
    BY <1>2, <2>1, <2>2, <2>3 DEF Queued
  <2>6. ASSUME NEW q \in Requests, Queued(q)'
        PROVE  \E i \in DOMAIN writes' : writes'[i] = q
    <3>1. CASE q = r
      BY <1>1, <2>1, <3>1
    <3>2. CASE q # r
      <4>1. Queued(q)
        BY <1>7, <2>6, <3>2 DEF Queued
      <4>2. PICK i \in DOMAIN writes : writes[i] = q
        BY <1>2, <4>1
      <4>3. i \in DOMAIN writes' /\ writes'[i] = q
        BY <1>1, <2>1, <4>2
      <4>4. QED
        BY <4>3
    <3>3. QED
      BY <3>1, <3>2
  <2>7. ASSUME NEW i \in DOMAIN writes', NEW j \in DOMAIN writes', i < j,
               pc'[writes'[i]] = "saving", pc'[writes'[j]] = "saving",
               thread'[writes'[i]] = thread'[writes'[j]]
        PROVE  writes'[i] \in earlier'[writes'[j]]
    <3>1. i \in DOMAIN writes /\ writes'[i] = writes[i] /\ writes[i] \in Requests
      BY <1>1, <1>2, <2>1, <2>7
    <3>2. CASE j \in DOMAIN writes
      BY <1>4, <2>1, <2>7, <3>1, <3>2
    <3>3. CASE j = Len(writes) + 1
      <4>1. writes'[j] = r /\ writes[i] # r /\ pc[writes[i]] = "saving"
        BY <1>2, <1>3, <2>1, <2>3, <2>7, <3>1, <3>3
      <4>2. pc[r] = "turn" /\ turn[r] \in Ended
        BY <2>1, <2>7, <4>1, EveryEffect DEF Effect, Queued
      <4>3. thread[writes[i]] = thread[r]
        BY <2>7, <3>1, <4>1, <4>2, Settled
      <4>4. writes[i] \in earlier[r]
        BY <3>1, <4>1, <4>2, <4>3 DEF RecordsInv, TurnsInOrder, InTurn, Begun
      <4>5. QED
        BY <3>1, <4>1, <4>2, <4>4, SaversEarlierKept
    <3>4. QED
      BY <2>2, <3>2, <3>3
  <2>8. QED
    BY <2>4, <2>5, <2>6, <2>7 DEF WritesFit, Queued
<1>8. ASSUME NEW r \in Requests, Leaves(r), \A q \in Requests \ {r} : pc'[q] = pc[q]
      PROVE  WritesFit'
  <2>1. PICK k \in DOMAIN writes : writes[k] = r /\ Removed(k)
    BY <1>8 DEF Leaves
  <2>2. DOMAIN writes' = 1 .. Len(writes) - 1
    BY <1>1, <2>1 DEF Removed
  <2> DEFINE old(j) == IF j < k THEN j ELSE j + 1
  <2>3. \A j \in DOMAIN writes' : old(j) \in DOMAIN writes /\ old(j) # k /\ writes'[j] = writes[old(j)]
    BY <1>1, <2>1, <2>2 DEF Removed
  <2>4. \A i, j \in DOMAIN writes' : (i # j => old(i) # old(j)) /\ (i < j => old(i) < old(j))
    BY <1>1, <2>1, <2>2
  <2>5. ASSUME NEW i \in DOMAIN writes, i # k
        PROVE  \E j \in DOMAIN writes' : old(j) = i
    <3>1. CASE i < k
      BY <1>1, <2>1, <2>2, <2>5, <3>1
    <3>2. CASE i > k
      <4>1. i - 1 \in DOMAIN writes' /\ old(i - 1) = i
        BY <1>1, <2>1, <2>2, <3>2
      <4>2. QED
        BY <4>1
    <3>3. QED
      BY <1>1, <2>1, <2>5, <3>1, <3>2
  <2> HIDE DEF old
  <2>6. \A j \in DOMAIN writes' : writes'[j] # r /\ pc'[writes'[j]] = pc[writes'[j]]
    BY <1>2, <1>8, <2>1, <2>3
  <2>7. \A i, j \in DOMAIN writes' : writes'[i] = writes'[j] => i = j
    BY <1>2, <2>3, <2>4
  <2>8. \A i \in DOMAIN writes' : pc'[writes'[i]] \in {"saving", "marking"}
    BY <1>2, <2>3, <2>6 DEF Queued
  <2>9. ASSUME NEW q \in Requests, Queued(q)'
        PROVE  \E i \in DOMAIN writes' : writes'[i] = q
    <3>1. q # r /\ Queued(q)
      BY <1>8, <2>9 DEF Leaves, Queued
    <3>2. PICK i \in DOMAIN writes : writes[i] = q
      BY <1>2, <3>1
    <3>3. i # k
      BY <2>1, <3>1, <3>2
    <3>4. QED
      BY <2>3, <2>5, <3>2, <3>3
  <2>10. ASSUME NEW i \in DOMAIN writes', NEW j \in DOMAIN writes', i < j,
                pc'[writes'[i]] = "saving", pc'[writes'[j]] = "saving",
                thread'[writes'[i]] = thread'[writes'[j]]
         PROVE  writes'[i] \in earlier'[writes'[j]]
    BY <1>4, <2>3, <2>4, <2>10
  <2>11. QED
    BY <2>7, <2>8, <2>9, <2>10 DEF WritesFit, Queued
<1>9. QED
  BY <1>5, <1>6, <1>7, <1>8, QueueChange

LEMMA TurnsInOrderKept ==
    ASSUME ServerInv, OwnerInv, RecordsInv, [Next]_vars
    PROVE  TurnsInOrder'
<1>1. SUFFICES ASSUME NEW p \in Requests, NEW r \in Requests, p # r, thread'[p] = thread'[r],
                      \/ /\ Written(p)' /\ pc'[p] # "saving"
                         /\ pc'[r] = "saving" \/ (pc'[r] \in InTurn /\ turn'[r] \in Begun)
                      \/ /\ pc'[p] = "saving"
                         /\ pc'[r] \in InTurn /\ turn'[r] \in Begun
               PROVE  p \in earlier'[r]
  BY DEF TurnsInOrder
<1>2. Effect(p) /\ Effect(r)
  BY EveryEffect
<1>3. CASE TurnBegins(r)
  <2>1. UNCHANGED <<pc, thread, answer, handler, stray, rows>>
    BY <1>3 DEF TurnBegins, requestVars, serverVars, storeVars, strayVars
  <2>2. earlier'[r] = {q \in Requests : thread[q] = thread[r] /\ turn[q] \in Begun}
    BY <1>3, ServerInvContext DEF ContextOf, BackendTypeOK, TurnBegins
  <2>3. Written(p) \/ pc[p] = "saving"
    BY <1>1, <2>1 DEF Written, Recorded, IsLastTurn
  <2>4. turn[p] \in Begun
    BY <2>3 DEF RecordsInv, WrittenFit, Begun
  <2>5. QED
    BY <1>1, <2>1, <2>2, <2>4
<1>4. CASE ~TurnBegins(r)
  <2>1. earlier'[r] = earlier[r]
    BY <1>4, EarlierKept
  <2>2. pc[r] = "saving" \/ (pc[r] \in InTurn /\ turn[r] \in Begun)
    BY <1>1, <1>2, <1>4 DEF Effect, InTurn, Begun
  <2>3. thread'[r] = thread[r]
    BY <2>2, Settled DEF InTurn
  <2>4. CASE pc'[p] = "saving"
    <3>1. pc'[r] \in InTurn /\ turn'[r] \in Begun
      BY <1>1, <2>4
    <3>2. pc[r] \in InTurn /\ turn[r] \in Begun
      BY <1>2, <1>4, <3>1 DEF Effect
    <3>3. CASE pc[p] = "saving"
      <4>1. thread'[p] = thread[p]
        BY <3>3, Settled
      <4>2. QED
        BY <1>1, <2>1, <2>3, <3>2, <3>3, <4>1 DEF RecordsInv, TurnsInOrder
    <3>4. CASE pc[p] # "saving"
      <4>1. pc[p] = "turn"
        BY <1>2, <2>4, <3>4 DEF Effect
      <4>2. thread'[p] = thread[p]
        BY <4>1, Settled
      <4>3. QED
        BY <1>1, <2>3, <3>2, <4>1, <4>2, ClaimsAreAlone DEF Claiming, InTurn
    <3>5. QED
      BY <3>3, <3>4
  <2>5. CASE Written(p)' /\ Written(p)
    <3>1. pc[p] \in Past
      BY <2>5, WrittenArePast
    <3>2. thread'[p] = thread[p] /\ pc[p] # "saving"
      BY <3>1, Settled DEF Past
    <3>3. QED
      BY <1>1, <2>1, <2>2, <2>3, <2>5, <3>2 DEF RecordsInv, TurnsInOrder
  <2>6. CASE Written(p)' /\ ~Written(p)
    <3>1. pc[p] = "saving" /\ IsNextToWrite(p)
      BY <2>6, WrittenFitKept
    <3>2. thread[p] = thread[r]
      BY <1>1, <2>3, <3>1, Settled
    <3>3. CASE pc[r] = "saving"
      <4>1. writes \in Seq(Requests) /\ 1 \in DOMAIN writes /\ writes[1] = p
            /\ DOMAIN writes = 1 .. Len(writes) /\ Len(writes) \in Nat
        BY <3>1 DEF IsNextToWrite, ServerInv, TypeOK, StoreTypeOK
      <4>2. PICK j \in DOMAIN writes : writes[j] = r
        BY <3>3 DEF RecordsInv, WritesFit
      <4>3. 1 < j
        BY <1>1, <4>1, <4>2
      <4>4. p \in earlier[r]
        BY <3>1, <3>2, <3>3, <4>1, <4>2, <4>3 DEF RecordsInv, WritesFit
      <4>5. QED
        BY <2>1, <4>4
    <3>4. CASE pc[r] \in InTurn /\ turn[r] \in Begun
      BY <1>1, <2>1, <3>1, <3>2, <3>4 DEF RecordsInv, TurnsInOrder
    <3>5. QED
      BY <2>2, <3>3, <3>4
  <2>7. QED
    BY <1>1, <2>4, <2>5, <2>6
<1>5. QED
  BY <1>3, <1>4

LEMMA LastTurnsFitKept ==
    ASSUME ServerInv, OwnerInv, RecordsInv, [Next]_vars
    PROVE  LastTurnsFit'
<1>1. SUFFICES ASSUME NEW table \in Tables, NEW t \in Threads,
                      rows'[table][t].lastTurn # NoRequest
               PROVE  /\ thread'[rows'[table][t].lastTurn] = t
                      /\ pc'[rows'[table][t].lastTurn] \in Past
  BY DEF LastTurnsFit
<1>2. StoreTypeOK /\ StoreTypeOK'
  BY StepServerInv DEF ServerInv, TypeOK
<1>3. CASE rows'[table][t].lastTurn = rows[table][t].lastTurn
  <2> DEFINE last == rows[table][t].lastTurn
  <2>1. last \in Requests /\ thread[last] = t /\ pc[last] \in Past
    BY <1>1, <1>2, <1>3 DEF StoreTypeOK, Row, RecordsInv, LastTurnsFit
  <2>2. pc'[last] \in Past
    BY <2>1, EveryEffect DEF Effect
  <2>3. thread'[last] = thread[last]
    BY <2>1, Settled DEF Past
  <2>4. QED
    BY <1>3, <2>1, <2>2, <2>3
<1>4. CASE rows'[table][t].lastTurn # rows[table][t].lastTurn
  <2>1. ASSUME NEW s \in Requests, Marks(s, table, t)
        PROVE  FALSE
    BY <1>1, <1>2, <1>4, <2>1 DEF Marks, NoRow, NewRow, StoreTypeOK, Row
  <2>2. PICK s \in Requests : Writes(s, table, t)
    BY <1>4, <2>1, RowsChange
  <2>3. rows'[table][t].lastTurn = s
    BY <1>1, <1>2, <2>2 DEF Writes, Inserts, Touches, NewRow, StoreTypeOK, Row
  <2>4. pc'[s] \in Past /\ thread[s] = t /\ pc[s] \notin {"idle", "opening"}
    BY <2>2, WriteLands DEF Past
  <2>5. QED
    BY <2>3, <2>4, Settled
<1>5. QED
  BY <1>3, <1>4

\* The save of r puts on record what its client will be told.
LEMMA SaveRecords ==
    ASSUME ServerInv, OwnerInv, RecordsInv, [Next]_vars, NEW r \in Requests, Save(r),
           r \notin disturbed'
    PROVE  RecordFits(r)'
<1>0. r \notin disturbed /\ WriteRow(r)
  BY DisturbedForGood, UndisturbedCalls
<1>1. StoreTypeOK /\ DeletionFits(r) /\ TableOf(handler[r]) \in Tables
  BY DEF ServerInv, TypeOK, RecordsInv, TableOf, Tables
<1>2. /\ pc[r] = "saving" /\ thread[r] \in Threads
      /\ handler[r] \in TurnHandlers \ {"chat"}
      /\ handler'[r] = handler[r] /\ thread'[r] = thread[r] /\ client'[r] = client[r]
  BY WritersFit, Settled DEF Save
<1>3. CASE handler[r] \in Openers
  <2>1. ~HasRow(TableOf(handler[r]), thread[r])
    BY <1>1, <1>2, <1>3, InsertersAreUnheard DEF Unheard
  <2>2. rows' = [rows EXCEPT ![TableOf(handler[r])][thread[r]] = NewRow(client[r])]
    BY <1>0, <1>2, <1>3, <2>1 DEF WriteRow, InsertRow
  <2>3. rows'[TableOf(handler[r])][thread[r]].owner = client[r]
    BY <1>1, <1>2, <2>2 DEF NewRow, StoreTypeOK
  <2>4. QED
    BY <1>2, <1>3, <2>3 DEF RecordFits
<1>4. CASE handler[r] \notin Openers
  <2>1. handler[r] \in Resumers
    BY <1>2, <1>4 DEF TurnHandlers, PlainTurns, StreamTurns, Openers, Resumers
  <2>2. HasRow(TableOf(handler[r]), thread[r]) \/ Deleted(thread[r])
    BY <1>0, <1>1, <1>2, <2>1 DEF DeletionFits, Outside
  <2>3. CASE Deleted(thread[r])
    BY <1>2, <2>3, DeletedKept DEF RecordFits
  <2>4. CASE HasRow(TableOf(handler[r]), thread[r])
    <3>1. rows' = [rows EXCEPT ![TableOf(handler[r])][thread[r]].lastTurn = r]
      BY <1>0, <1>2, <1>4, <2>4 DEF WriteRow, TouchRow
    <3>2. rows'[TableOf(handler[r])][thread[r]].lastTurn = r
      BY <1>1, <1>2, <3>1 DEF StoreTypeOK, Row
    <3>3. QED
      BY <1>2, <2>1, <3>2 DEF RecordFits
  <2>5. QED
    BY <2>2, <2>3, <2>4
<1>5. QED
  BY <1>3, <1>4

\* What is on record about the turn of r stays on record, or is overtaken by a
\* turn that began later, or by a write that came late.
LEMMA RecordKept ==
    ASSUME ServerInv, OwnerInv, RecordsInv, [Next]_vars, NEW r \in Requests, Recorded(r),
           r \notin disturbed'
    PROVE  RecordFits(r)'
<1>0. r \notin disturbed
  BY DisturbedForGood
<1>1. /\ StoreTypeOK /\ TableOf(handler[r]) \in Tables /\ Written(r)
      /\ RecordFits(r) /\ DeletionFits(r)
  BY <1>0 DEF ServerInv, TypeOK, RecordsInv, TableOf, Tables, Written
<1>2. /\ pc[r] \in Past /\ pc[r] # "saving" /\ handler[r] \in TurnHandlers \ {"chat"}
      /\ handler'[r] = handler[r] /\ thread'[r] = thread[r] /\ client'[r] = client[r]
  BY <1>1, WrittenArePast, Settled DEF Past
<1>3. client[r] # NoClient /\ thread[r] \in Threads
  <2>1. HandlerFits(r) /\ ThreadFits(r) /\ OwnerFits(r)
    BY DEF ServerInv, TaskInv, OwnerInv
  <2>2. turn[r] # "none"
    BY <1>1, WrittenArePast DEF Ended
  <2>3. QED
    BY <1>2, <2>1, <2>2, DomainAssumption DEF HandlerFits, OwnerFits, Past
<1> DEFINE table == TableOf(handler[r])
           t == thread[r]
           row == rows[table][t]
<1>4. CASE Deleted(t)
  BY <1>2, <1>4, DeletedKept DEF RecordFits
<1>5. CASE handler[r] \in Openers /\ row.owner = client[r]
  <2>1. HasRow(table, t)
    BY <1>3, <1>5 DEF HasRow
  <2>2. rows'[table][t].owner = client[r] \/ Deleted(t)'
    BY <1>1, <1>2, <1>3, <1>5, <2>1, RowsGoByDeletion
  <2>3. QED
    BY <1>2, <1>5, <2>2 DEF RecordFits
<1>6. CASE /\ handler[r] \in Resumers
           /\ \/ row.lastTurn = r
              \/ /\ row.lastTurn # NoRequest
                 /\ r \in earlier[row.lastTurn] \/ CameLate(row.lastTurn)
  <2>1. PICK last \in Requests : row.lastTurn = last
    BY <1>1, <1>3, <1>6 DEF StoreTypeOK, Row
  <2>2. IsLastTurn(last)
    BY <1>1, <1>3, <2>1 DEF IsLastTurn
  <2>3. turn[last] \in Ended /\ pc[last] \in Past
    BY <2>1, <2>2, WrittenArePast DEF Written
  <2>4. earlier'[last] = earlier[last]
    BY <2>1, <2>3, SaversEarlierKept
  <2>5. CameLate(last) => CameLate(last)'
    BY <2>1, EveryEffect DEF CameLate, Effect
  <2>6. CASE rows'[table][t].lastTurn = last
    BY <1>2, <1>6, <2>1, <2>4, <2>5, <2>6 DEF RecordFits, CameLate
  <2>7. CASE rows'[table][t].lastTurn # last
    <3>1. CASE \E s \in Requests : Marks(s, table, t)
      <4>1. PICK s \in Requests : Marks(s, table, t)
        BY <3>1
      <4>2. /\ handler[s] = "delete_conversation" /\ t = thread[s]
            /\ Mark(s) \/ MarkFails(s)
        BY <1>1, <1>3, <2>1, <2>7, <4>1 DEF Marks, StoreTypeOK, Row
      <4>3. rows' # rows
        BY <2>1, <2>7
      <4>4. Deleted(t)'
        BY <1>2, <4>2, <4>3, MarkLands DEF Deleted
      <4>5. QED
        BY <1>2, <4>4 DEF RecordFits
    <3>2. CASE \E s \in Requests : Writes(s, table, t)
      <4>1. PICK s \in Requests : Writes(s, table, t)
        BY <3>2
      <4>2. ~Inserts(s, table, t)
        <5>1. handler[r] \in OwnedHandlers /\ (pc[r] \notin Outside \/ answer[r] = "ok")
          BY <1>6 DEF OwnedHandlers, Recorded, Outside
        <5>2. QED
          BY <1>0, <1>1, <1>3, <4>1, <5>1, NoRowComesBack
      <4>3. rows'[table][t].lastTurn = s
        BY <1>1, <1>3, <4>1, <4>2 DEF Writes, Touches, StoreTypeOK, Row
      <4>4. /\ pc[s] = "saving" \/ s \in stray
            /\ turn[s] \in Ended /\ thread[s] = thread[r]
        BY <1>1, <1>3, <4>1, WriteLands
      <4>5. CASE s = r
        BY <1>2, <1>6, <4>3, <4>5 DEF RecordFits
      <4>6. CASE pc[s] = "saving" /\ s # r
        <5>1. r \in earlier[s]
          BY <1>1, <1>2, <4>4, <4>6 DEF RecordsInv, TurnsInOrder
        <5>2. r \in earlier'[s]
          BY <4>4, <5>1, SaversEarlierKept
        <5>3. s # NoRequest
          BY DomainAssumption
        <5>4. QED
          BY <1>2, <1>6, <4>3, <5>2, <5>3 DEF RecordFits
      <4>7. CASE s \in stray
        <5>1. pc[s] \in {"zombie", "done"} /\ answer[s] = "gone"
          BY <4>7 DEF ServerInv, StrayFits, RecordsInv, WrittenFit
        <5>2. CameLate(s)'
          BY <5>1, EveryEffect DEF CameLate, Effect
        <5>3. s # NoRequest
          BY DomainAssumption
        <5>4. QED
          BY <1>2, <1>6, <4>3, <5>2, <5>3 DEF RecordFits, CameLate
      <4>8. QED
        BY <4>4, <4>5, <4>6, <4>7
    <3>3. QED
      BY <1>1, <1>3, <2>1, <2>7, <3>1, <3>2, RowsChange
  <2>8. QED
    BY <2>6, <2>7
<1>7. QED
  BY <1>1, <1>4, <1>5, <1>6 DEF RecordFits

LEMMA StepRecordsInv == ServerInv /\ OwnerInv /\ RecordsInv /\ [Next]_vars => RecordsInv'
<1> SUFFICES ASSUME ServerInv, OwnerInv, RecordsInv, [Next]_vars
             PROVE  RecordsInv'
  OBVIOUS
<1>1. ASSUME NEW r \in Requests, r \notin disturbed', Recorded(r)'
      PROVE  RecordFits(r)'
  <2>1. CASE Recorded(r)
    BY <1>1, <2>1, RecordKept
  <2>2. CASE Save(r)
    BY <1>1, <2>2, SaveRecords
  <2>3. CASE ~Recorded(r) /\ ~Save(r)
    <3>1. Written(r)' /\ ~DisconnectInSave(r) /\ ~SaveFails(r)
      <4>1. DisconnectInSave(r) => ~Recorded(r)'
        BY ServerInvContext DEF ContextOf, TasksTypeOK, DisconnectInSave, Goto, Say, Recorded
      <4>2. SaveFails(r) => ~Recorded(r)'
        BY ServerInvContext
        DEF ContextOf, TasksTypeOK, SaveFails, Finish, Goto, Say, Recorded
      <4>3. QED
        BY <1>1, <4>1, <4>2 DEF Written
    <3>2. Written(r)
      BY <2>3, <3>1, WrittenFitKept
    <3>3. pc[r] \in Past /\ Effect(r) /\ handler'[r] = handler[r]
      BY <3>2, WrittenArePast, Settled, EveryEffect DEF Past
    <3>4. QED
      BY <1>1, <2>3, <3>3 DEF Recorded, Effect, Past
  <2>4. QED
    BY <2>1, <2>2, <2>3
<1>2. QED
  BY <1>1, DeletedStaysDeletedKept, OpenersFitKept, WritesFitKept, TurnsInOrderKept,
     LastTurnsFitKept, DeletionFitsKept, WrittenFitKept DEF RecordsInv

LEMMA InitRecordsInv == Init => RecordsInv
<1> SUFFICES ASSUME Init
             PROVE  RecordsInv
  OBVIOUS
<1>1. /\ \A q \in Requests : pc[q] = "idle" /\ answer[q] = "none" /\ handler[q] = "none"
                             /\ thread[q] = NoThread
      /\ writes = <<>> /\ stray = {}
  BY DEF Init
<1>2. \A table \in Tables, t \in Threads :
         rows[table][t].lastTurn = NoRequest /\ rows[table][t].archived = FALSE
  BY DEF Init, NewRow, NoRow
<1>3. DeletedStaysDeleted /\ OpenersFit /\ WritesFit /\ LastTurnsFit
  BY <1>1, <1>2 DEF DeletedStaysDeleted, OpenersFit, Unwritten, WritesFit, LastTurnsFit, InTurn
<1>4. \A q \in Requests : ~Written(q)
  BY <1>1, <1>2, DomainAssumption DEF Written, Recorded, IsLastTurn
<1>5. \A q \in Requests : DeletionFits(q) /\ WrittenFit(q) /\ ~Recorded(q)
  BY <1>1, <1>4 DEF DeletionFits, WrittenFit, Written, Outside
<1>6. TurnsInOrder
  BY <1>1, <1>4 DEF TurnsInOrder, InTurn
<1>7. QED
  BY <1>3, <1>5, <1>6 DEF RecordsInv
----------------------------------------------------------------------------
\* What the queue of writes, the rows and the turns that began say of each other
\* holds in every state (the database writes of threads.py and chat.py).
THEOREM RecordsInvariant == Spec => []RecordsInv
BY InitRecordsInv, StepRecordsInv, ServerInvariant, OwnerInvariant, PTL DEF Spec

\* A deletion that was confirmed is final, if its calls of the database kept clear
\* of stray workers, whatever turn of the thread was under way (delete_thread and
\* delete_conversation against touch_thread and the rest).
THEOREM DeletionsAreFinal == Spec => []DeletedStaysDeleted
<1>1. RecordsInv => DeletedStaysDeleted
  BY DEF RecordsInv
<1>2. QED
  BY <1>1, RecordsInvariant, PTL

\* A client that was told "ok" finds its work in the tables, if the calls of its
\* request kept clear of stray workers.
THEOREM AnswersAreRecorded == Spec => []AnsweredIsRecorded
<1>1. RecordsInv => AnsweredIsRecorded
  BY DEF RecordsInv, AnsweredIsRecorded, Recorded, RecordFits, CameLate, Deleted
<1>2. QED
  BY <1>1, RecordsInvariant, PTL

\* last_turn_id never goes back to a turn that began earlier, but for the write
\* of a stream that was cancelled in the middle of it.
THEOREM LastTurnMovesForward == Spec => LastTurnForward
<1> DEFINE Forward ==
              \A table \in Tables, t \in Threads :
                 LET last == rows[table][t].lastTurn
                     next == rows'[table][t].lastTurn
                 IN  last # next /\ last # NoRequest /\ next # NoRequest /\ next \notin stray
                        => last \in earlier[next]
<1>1. ServerInv /\ OwnerInv /\ RecordsInv /\ [Next]_vars => Forward
  <2> SUFFICES ASSUME ServerInv, OwnerInv, RecordsInv, [Next]_vars,
                      NEW table \in Tables, NEW t \in Threads,
                      rows[table][t].lastTurn # rows'[table][t].lastTurn,
                      rows[table][t].lastTurn # NoRequest,
                      rows'[table][t].lastTurn # NoRequest,
                      rows'[table][t].lastTurn \notin stray
               PROVE  rows[table][t].lastTurn \in earlier[rows'[table][t].lastTurn]
    OBVIOUS
  <2> DEFINE last == rows[table][t].lastTurn
  <2>1. StoreTypeOK /\ last \in Requests
    BY DEF ServerInv, TypeOK, StoreTypeOK, Row
  <2>2. ASSUME NEW s \in Requests, Marks(s, table, t)
        PROVE  FALSE
    BY <2>1, <2>2 DEF Marks, NoRow, NewRow, StoreTypeOK, Row
  <2>3. PICK s \in Requests : Writes(s, table, t)
    BY <2>2, RowsChange
  <2>4. rows'[table][t].lastTurn = s
    BY <2>1, <2>3 DEF Writes, Inserts, Touches, NewRow, StoreTypeOK, Row
  <2>5. pc[s] = "saving" /\ thread[s] = t
    BY <2>3, <2>4, WriteLands
  <2>6. IsLastTurn(last) /\ thread[last] = t /\ last # s
    BY <2>4 DEF IsLastTurn, RecordsInv, LastTurnsFit
  <2>7. pc[last] # "saving"
    BY <2>1, <2>6, WrittenArePast DEF Written, Past
  <2>8. last \in earlier[s]
    BY <2>1, <2>5, <2>6, <2>7 DEF Written, RecordsInv, TurnsInOrder
  <2>9. QED
    BY <2>4, <2>8
<1>2. ServerInv /\ OwnerInv /\ RecordsInv /\ [Next]_vars => [Forward]_vars
  BY <1>1
<1>3. QED
  BY <1>2, ServerInvariant, OwnerInvariant, RecordsInvariant, PTL DEF Spec, LastTurnForward
=============================================================================
