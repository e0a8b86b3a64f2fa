-------------------------- MODULE OwnershipProofs --------------------------
(***************************************************************************)
(* Whose threads turns run on: OwnerInv is inductive beside ServerInv, and *)
(* the handlers implement TurnGate, for every set of requests, threads,    *)
(* clients and handlers.                                                   *)
(***************************************************************************)
EXTENDS CodexServerProofs

\* Where the owner of the thread is not checked yet, or does not matter any more.
Outside == {"idle", "checking", "done"}

BeforeTurn ==
    {"idle", "checking", "admission", "opening", "waiting", "resuming", "announcing"}

InTurn == {"starting", "turn", "relaying"}

Entitled(r) ==
    /\ creator[thread[r]] = client[r]
    /\ mode[thread[r]] = ModeOf(handler[r])

\* The handle that an interrupt has in hand.
VictimIsOwn(r) ==
    /\ victim[r] \in Requests
    /\ turn[victim[r]] # "none"
    /\ thread[victim[r]] = thread[r]
    /\ client[victim[r]] = client[r]

\* Whoever opened a thread stays entitled to it; whoever names one is entitled
\* from the owner check to the end, and for good once the turn was asked for.
OwnerFits(r) ==
    /\ pc[r] = "idle" => handler[r] = "none"
    /\ handler[r] \in Openers /\ thread[r] \in Threads => Entitled(r)
    /\ handler[r] \in Resumers /\ (pc[r] \notin Outside \/ turn[r] # "none") => Entitled(r)
    /\ handler[r] \in OwnedHandlers /\ pc[r] \notin Outside => creator[thread[r]] = client[r]
    /\ turn[r] # "none" => handler[r] \in TurnHandlers /\ thread[r] \in Threads
    /\ pc[r] \in BeforeTurn => turn[r] = "none"
    /\ pc[r] \in InTurn \/ r \in tracked => turn[r] # "none"
    /\ pc[r] = "signalling" => VictimIsOwn(r)
    /\ pc[r] # "done" => answer[r] # "ok"

\* thread_start is asked for a thread of its own by every request that opens one.
OpenedOnce ==
    \A r, q \in Requests :
       /\ handler[r] \in Openers /\ handler[q] \in Openers
       /\ thread[r] = thread[q] /\ thread[r] \in Threads
       => r = q

\* A row belongs to the client whose request started the thread, and lies in the
\* table of the sandbox the thread was started with.
RowsOwned ==
    \A table \in Tables, t \in Threads : HasRow(table, t) =>
       /\ creator[t] = rows[table][t].owner
       /\ mode[t] = IF table = "codex_threads" THEN "agent" ELSE "read_only"

OwnerInv ==
    /\ RowsOwned /\ OpenedOnce
    /\ \A t \in Threads : mode[t] = "none" => creator[t] = NoClient
    /\ \A r \in stray : Streams(r)
    /\ \A r \in Requests : OwnerFits(r)

----------------------------------------------------------------------------
(* What a step of one task does to the others' ownership. *)

\* A turn that was asked for stays where it is, and no other turn is asked for.
OwnershipKept(r) ==
    /\ \A q \in Requests : turn[q] # "none" =>
          turn'[q] # "none" /\ thread'[q] = thread[q] /\ client'[q] = client[q]
    /\ \A q \in Requests \ {r} :
          /\ turn[q] = "none" => turn'[q] = "none"
          /\ victim'[q] = victim[q]
          /\ answer'[q] = answer[q]
    /\ \A t \in Threads : mode[t] # "none" => mode'[t] = mode[t] /\ creator'[t] = creator[t]

LEMMA OthersKeepOwnerFits ==
    ASSUME ServerInv, NEW r \in Requests, OthersKeep(r), OwnershipKept(r),
           \A q \in Requests : OwnerFits(q), OwnerFits(r)'
    PROVE  \A q \in Requests : OwnerFits(q)'
<1>1. SUFFICES ASSUME NEW q \in Requests \ {r}
               PROVE  OwnerFits(q)'
  OBVIOUS
<1>2. /\ pc'[q] = pc[q] /\ handler'[q] = handler[q]
      /\ client'[q] = client[q] /\ thread'[q] = thread[q]
      /\ q \in tracked' <=> q \in tracked
  BY DEF OthersKeep
<1>3. /\ turn[q] = "none" <=> turn'[q] = "none"
      /\ victim'[q] = victim[q] /\ answer'[q] = answer[q]
  BY DEF OwnershipKept
<1>4. OwnerFits(q) /\ ThreadFits(q) /\ TaskInv(q)
  BY DEF ServerInv, TaskInv
<1>5. \A h : ModeOf(h) # "none"
  BY DEF ModeOf
<1>6. thread[q] \in Threads /\ Entitled(q) => Entitled(q)'
  BY <1>2, <1>5 DEF Entitled, OwnershipKept
<1>7. VictimIsOwn(q) => VictimIsOwn(q)'
  BY <1>2, <1>3 DEF VictimIsOwn, OwnershipKept
<1>8. handler[q] \in OwnedHandlers /\ pc[q] \notin Outside =>
         thread[q] \in Threads /\ creator'[thread[q]] = creator[thread[q]]
  BY <1>4 DEF ThreadFits, Outside, OwnershipKept
<1>9. handler[q] \in Resumers /\ (pc[q] \notin Outside \/ turn[q] # "none") => thread[q] \in Threads
  BY <1>4, <1>8 DEF OwnerFits, OwnedHandlers
<1>10. QED
  BY <1>2, <1>3, <1>4, <1>6, <1>7, <1>8, <1>9 DEF OwnerFits
----------------------------------------------------------------------------
(* Steps that only move a task on. *)

\* From k to l no claim is made that did not hold before.
Onward(k, l) ==
    /\ l \notin {"idle", "signalling"}
    /\ l \notin Outside => k \notin Outside
    /\ l \in BeforeTurn => k \in BeforeTurn
    /\ l \in InTurn => k \in InTurn

Moves(r) ==
    /\ UNCHANGED <<requestVars, mode, creator, turn, victim>>
    /\ \E l \in Locations, a \in Answers :
          /\ pc' = [pc EXCEPT ![r] = l] /\ Onward(pc[r], l)
          /\ answer' = [answer EXCEPT ![r] = a]
          /\ l = "done" \/ a # "ok"
    /\ r \in tracked' => r \in tracked \/ pc[r] \in InTurn

LEMMA MovingKeepsOwner ==
    ASSUME ServerInv, NEW r \in Requests, OwnerFits(r), Moves(r)
    PROVE  OwnershipKept(r) /\ OwnerFits(r)'
<1>1. TasksTypeOK /\ TaskInv(r)
  BY ServerInvContext DEF ContextOf
<1>2. PICK l \in Locations, a \in Answers :
         /\ pc' = [pc EXCEPT ![r] = l] /\ Onward(pc[r], l)
         /\ answer' = [answer EXCEPT ![r] = a]
         /\ l = "done" \/ a # "ok"
  BY DEF Moves
<1>3. pc'[r] = l /\ answer'[r] = a
  BY <1>1, <1>2 DEF TasksTypeOK
<1>4. UNCHANGED <<handler, client, thread, mode, creator, turn, victim>>
  BY DEF Moves, requestVars
<1>5. OwnershipKept(r)
  BY <1>1, <1>2, <1>4 DEF OwnershipKept, TasksTypeOK
<1>6. (Entitled(r) <=> Entitled(r)') /\ (VictimIsOwn(r) <=> VictimIsOwn(r)')
  BY <1>4 DEF Entitled, VictimIsOwn
<1>7. OwnerFits(r)'
  BY <1>2, <1>3, <1>4, <1>6 DEF OwnerFits, Onward, Moves, Outside
<1>8. QED
  BY <1>5, <1>7

\* Most steps only move a task on.
LEMMA MovingSteps ==
    ASSUME ServerInv, NEW r \in Requests, OwnerFits(r),
           \/ Refuse(r) \/ AdmitOpener(r) \/ AdmitResumer(r) \/ LockGranted(r)
           \/ TurnRegistered(r) \/ RunReturns(r) \/ PlainTimeout(r) \/ StreamTimeout(r)
           \/ StreamEnds(r) \/ GeneratorFinalised(r) \/ Save(r) \/ SaveFails(r) \/ Mark(r)
           \/ MarkFails(r) \/ ChunkSentLate(r) \/ ResponseEnds(r) \/ DisconnectInCodex(r)
           \/ DisconnectInYield(r) \/ DisconnectInSave(r) \/ StreamResumed(r)
           \/ RelayEvent(r) \/ RunRaises(r) \/ StreamRaises(r) \/ Archived(r)
           \/ ArchiveFails(r) \/ InterruptRaises(r)
    PROVE  Moves(r)
<1>1. TasksTypeOK /\ HandlerFits(r) /\ TrackedFits(r)
  BY ServerInvContext DEF ContextOf, TaskInv
<1> USE DEF Moves, Onward, Finish, Goto, Say, serverVars, requestVars, backendVars, threadVars,
        InCodex, Yielded, Locations, Answers, Outside, BeforeTurn, InTurn, Unregister,
        GeneratorEnds, Register, registryVars, TasksTypeOK, OwnerFits, HandlerFits, TrackedFits,
        Resumers, PlainResumers
<1>2. CASE Refuse(r)
  <2>1. CASE Streams(r)
    BY <1>1, <1>2, <2>1 DEF Refuse
  <2>2. CASE ~Streams(r)
    BY <1>1, <1>2, <2>2 DEF Refuse
  <2>3. QED
    BY <2>1, <2>2
<1>3. CASE AdmitOpener(r)
  BY <1>1, <1>3 DEF AdmitOpener
<1>4. CASE AdmitResumer(r)
  <2>1. pc[r] = "admission" /\ handler[r] \in Resumers /\ handler[r] \in TurnHandlers
    BY <1>1, <1>4 DEF AdmitResumer
  <2>2. (pc' = [pc EXCEPT ![r] = "resuming"] \/ pc' = [pc EXCEPT ![r] = "waiting"]) /\ turn' = turn
    BY <1>4, <2>1 DEF AdmitResumer, TakeLock, Proceed
  <2>3. QED
    BY <1>1, <1>4, <2>1, <2>2 DEF AdmitResumer
<1>5. CASE LockGranted(r)
  <2>1. pc[r] = "waiting" /\ handler[r] \in Resumers
    BY <1>1, <1>5 DEF LockGranted
  <2>2. pc' = [pc EXCEPT ![r] = "resuming"] /\ turn' = turn
    BY <1>5, <2>1 DEF LockGranted, Proceed
  <2>3. QED
    BY <1>1, <1>5, <2>1, <2>2 DEF LockGranted
<1>6. CASE TurnRegistered(r)
  BY <1>1, <1>6 DEF TurnRegistered
<1>7. CASE RunReturns(r)
  BY <1>1, <1>7 DEF RunReturns
<1>8. CASE PlainTimeout(r)
  BY <1>1, <1>8 DEF PlainTimeout
<1>9. CASE StreamTimeout(r)
  BY <1>1, <1>9 DEF StreamTimeout
<1>10. CASE StreamEnds(r)
  BY <1>1, <1>10 DEF StreamEnds
<1>11. CASE GeneratorFinalised(r)
  BY <1>1, <1>11 DEF GeneratorFinalised
<1>12. CASE Save(r)
  BY <1>1, <1>12 DEF Save
<1>13. CASE SaveFails(r)
  BY <1>1, <1>13 DEF SaveFails
<1>14. CASE Mark(r)
  BY <1>1, <1>14 DEF Mark
<1>15. CASE MarkFails(r)
  BY <1>1, <1>15 DEF MarkFails
<1>16. CASE ChunkSentLate(r)
  BY <1>1, <1>16 DEF ChunkSentLate
<1>17. CASE ResponseEnds(r)
  <2>1. CASE want[r] = NoThread
    BY <1>1, <1>17, <2>1 DEF ResponseEnds
  <2>2. CASE want[r] # NoThread
    BY <1>1, <1>17, <2>2 DEF ResponseEnds
  <2>3. QED
    BY <2>1, <2>2
<1>18. CASE DisconnectInCodex(r)
  BY <1>1, <1>18 DEF DisconnectInCodex
<1>19. CASE DisconnectInYield(r)
  BY <1>1, <1>19 DEF DisconnectInYield
<1>20. CASE DisconnectInSave(r)
  BY <1>1, <1>20 DEF DisconnectInSave
<1>21. CASE StreamResumed(r)
  BY <1>1, <1>21 DEF StreamResumed
<1>22. CASE RelayEvent(r)
  BY <1>1, <1>22 DEF RelayEvent
<1>23. CASE RunRaises(r)
  BY <1>1, <1>23 DEF RunRaises
<1>24. CASE StreamRaises(r)
  BY <1>1, <1>24 DEF StreamRaises
<1>25. CASE Archived(r)
  BY <1>1, <1>25 DEF Archived, ArchiveThread
<1>26. CASE ArchiveFails(r)
  BY <1>1, <1>26 DEF ArchiveFails
<1>27. CASE InterruptRaises(r)
  BY <1>1, <1>27 DEF InterruptRaises
<1>28. QED
  BY <1>2, <1>3, <1>4, <1>5, <1>6, <1>7, <1>8, <1>9, <1>10, <1>11, <1>12, <1>13, <1>14, <1>15, <1>16, <1>17, <1>18, <1>19, <1>20, <1>21, <1>22, <1>23, <1>24, <1>25, <1>26, <1>27
----------------------------------------------------------------------------
(* Steps on which ownership depends. *)

\* An owner that a SELECT finds, committed or not, is the one who opened the thread.
LEMMA SeenOwners ==
    ASSUME ServerInv, OwnerInv, NEW table \in Tables, NEW t \in Threads,
           NEW owner \in OwnersSeen(table, t), owner # NoClient
    PROVE  /\ creator[t] = owner
           /\ mode[t] = IF table = "codex_threads" THEN "agent" ELSE "read_only"
<1>1. CASE owner = rows[table][t].owner
  BY <1>1 DEF OwnerInv, RowsOwned, HasRow
<1>2. ASSUME NEW s \in stray, handler[s] \in Openers, TableOf(handler[s]) = table,
             thread[s] = t, owner = client[s]
      PROVE  /\ creator[t] = owner
             /\ mode[t] = IF table = "codex_threads" THEN "agent" ELSE "read_only"
  <2>1. s \in Requests /\ Streams(s) /\ OwnerFits(s)
    BY DEF OwnerInv, ServerInv, TypeOK, StoreTypeOK
  <2>2. Entitled(s) /\ handler[s] = "stream_new_thread"
    BY <1>2, <2>1 DEF OwnerFits, Streams, StreamTurns, Openers, PlainOpeners
  <2>3. QED
    BY <1>2, <2>2 DEF Entitled, ModeOf, TableOf, ConversationHandlers
<1>3. QED
  BY <1>1, <1>2 DEF OwnersSeen

LEMMA OwnerCheckKeepsOwner ==
    ASSUME ServerInv, OwnerInv, NEW r \in Requests, CheckOwner(r)
    PROVE  OwnershipKept(r) /\ OwnerFits(r)'
<1>1. TasksTypeOK /\ HandlerFits(r) /\ ThreadFits(r) /\ OwnerFits(r)
  BY ServerInvContext DEF ContextOf, TaskInv, OwnerInv
<1>2. UNCHANGED <<handler, client, thread, mode, creator, turn, victim, tracked>>
  BY DEF CheckOwner, requestVars, registryVars, backendVars
<1>3. pc[r] = "checking" /\ handler[r] \in OwnedHandlers /\ thread[r] \in Threads
  BY <1>1 DEF CheckOwner, HandlerFits, ThreadFits
<1>4. ASSUME client[r] \in OwnersSeen(TableOf(handler[r]), thread[r]), answer' = answer,
             \E l \in {"admission", "archiving", "interrupting"} : pc' = [pc EXCEPT ![r] = l]
      PROVE  OwnershipKept(r) /\ OwnerFits(r)'
  <2>1. client[r] # NoClient /\ TableOf(handler[r]) \in Tables
    BY <1>1, <1>3, DomainAssumption DEF HandlerFits, TableOf, Tables
  <2>2. /\ creator[thread[r]] = client[r]
        /\ mode[thread[r]] = IF TableOf(handler[r]) = "codex_threads" THEN "agent" ELSE "read_only"
    BY <1>3, <1>4, <2>1, SeenOwners
  <2>3. handler[r] \in Resumers => Entitled(r)
    BY <2>2 DEF Entitled, ModeOf, TableOf, ConversationHandlers, Resumers, PlainResumers
  <2>4. OwnershipKept(r)
    BY <1>2, <1>4 DEF OwnershipKept
  <2>5. handler[r] \notin Openers
    BY <1>3 DEF OwnedHandlers, Openers, PlainOpeners, Resumers, PlainResumers, Deleters
  <2>6. OwnerFits(r)'
    BY <1>1, <1>2, <1>3, <1>4, <2>2, <2>3, <2>5
    DEF OwnerFits, TasksTypeOK, Entitled, Outside, BeforeTurn, InTurn
  <2>7. QED
    BY <2>4, <2>6
<1>5. CASE Finish(r, "notFound")
  <2>1. pc' = [pc EXCEPT ![r] = "done"] /\ answer' = [answer EXCEPT ![r] = "notFound"]
    BY <1>5 DEF Finish, Goto, Say
  <2>2. Onward(pc[r], "done") /\ "done" \in Locations /\ "notFound" \in Answers
    BY DEF Onward, Locations, Answers, Outside, BeforeTurn, InTurn
  <2>3. Moves(r)
    BY <1>2, <2>1, <2>2 DEF Moves, requestVars
  <2>4. QED
    BY <1>1, <2>3, MovingKeepsOwner
<1>6. QED
  BY <1>4, <1>5 DEF CheckOwner, Goto

LEMMA ArrivalKeepsOwner ==
    ASSUME ServerInv, OwnerInv, NEW r \in Requests, NEW h \in Handlers, NEW c \in Clients,
           NEW t \in IF h \in OwnedHandlers THEN Threads ELSE {NoThread}, Arrive(r, h, c, t)
    PROVE  OwnershipKept(r) /\ OwnerFits(r)'
<1>1. TasksTypeOK /\ TrackedFits(r) /\ OwnerFits(r)
  BY ServerInvContext DEF ContextOf, TaskInv, OwnerInv
<1>2. /\ pc[r] = "idle" /\ turn[r] = "none" /\ r \notin tracked
      /\ UNCHANGED <<mode, creator, turn, victim, answer, tracked>>
  BY <1>1 DEF Arrive, OwnerFits, serverVars, backendVars, registryVars, BeforeTurn
<1>3. /\ handler' = [handler EXCEPT ![r] = h] /\ client' = [client EXCEPT ![r] = c]
      /\ thread' = [thread EXCEPT ![r] = t]
      /\ pc' = [pc EXCEPT ![r] = IF h \in OwnedHandlers THEN "checking" ELSE "admission"]
  BY DEF Arrive, Goto
<1>4. OwnershipKept(r)
  BY <1>1, <1>2, <1>3 DEF OwnershipKept, TasksTypeOK
<1>5. h \in Openers => t = NoThread /\ h \notin OwnedHandlers
  BY DEF OwnedHandlers, Openers, PlainOpeners, Resumers, PlainResumers, Deleters
<1>6. h \in Resumers => h \in OwnedHandlers
  BY DEF OwnedHandlers
<1>7. OwnerFits(r)'
  BY <1>1, <1>2, <1>3, <1>5, <1>6, DomainAssumption
  DEF OwnerFits, TasksTypeOK, Outside, BeforeTurn, InTurn
<1>8. QED
  BY <1>4, <1>7

\* thread_start leads to the turn, or to the first chunk of a stream.
LEMMA OpeningLeads ==
    ASSUME ServerInv, NEW r \in Requests, NEW t \in Threads, Chat(r, t) \/ ThreadStarted(r, t)
    PROVE  \/ pc'[r] = "turn" /\ turn' = [turn EXCEPT ![r] = "requested"]
           \/ pc'[r] = "announcing" /\ turn' = turn
<1>1. TasksTypeOK
  BY ServerInvContext DEF ContextOf
<1>2. CASE Chat(r, t)
  BY <1>1, <1>2 DEF Chat, RequestTurn, Goto, TasksTypeOK
<1>3. CASE ThreadStarted(r, t)
  <2>1. Queue(t) = {}
    BY <1>3, FreshThreadsHaveNoQueue DEF FreshThreadsUnlocked, ThreadStarted, StartThread
  <2>2. Proceed(r)
    BY <1>3, <2>1 DEF ThreadStarted, TakeLock
  <2>3. handler[r] \notin Resumers
    BY <1>3 DEF ThreadStarted, Openers, PlainOpeners, Resumers, PlainResumers
  <2>4. CASE handler[r] = "stream_new_thread"
    BY <1>1, <2>2, <2>3, <2>4 DEF Proceed, Goto, TasksTypeOK
  <2>5. CASE handler[r] # "stream_new_thread"
    BY <1>1, <2>2, <2>3, <2>5 DEF Proceed, Goto, RequestTurn, TasksTypeOK
  <2>6. QED
    BY <2>4, <2>5
<1>4. QED
  BY <1>2, <1>3

\* thread_start: the new thread was nobody's, and is its opener's from now on.
LEMMA OpeningKeepsOwner ==
    ASSUME ServerInv, OwnerInv, NEW r \in Requests, NEW t \in Threads,
           Chat(r, t) \/ ThreadStarted(r, t)
    PROVE  /\ OwnershipKept(r) /\ OwnerFits(r)'
           /\ handler[r] \in Openers /\ handler' = handler
           /\ thread' = [thread EXCEPT ![r] = t] /\ mode[t] = "none"
           /\ creator' = [creator EXCEPT ![t] = client[r]] /\ client' = client
           /\ mode' = [mode EXCEPT ![t] = ModeOf(handler[r])] /\ UNCHANGED <<rows, stray, answer>>
<1>1. TasksTypeOK /\ HandlerFits(r) /\ TrackedFits(r) /\ OwnerFits(r) /\ BackendTypeOK
  BY ServerInvContext DEF ContextOf, TaskInv, OwnerInv
<1>2. /\ pc[r] = "opening" /\ turn[r] = "none" /\ r \notin tracked /\ handler[r] \in Openers
      /\ UNCHANGED <<handler, client, victim, answer, rows, stray, tracked>>
      /\ thread' = [thread EXCEPT ![r] = t] /\ mode[t] = "none"
      /\ creator' = [creator EXCEPT ![t] = client[r]]
      /\ mode' = [mode EXCEPT ![t] = ModeOf(handler[r])]
  BY <1>1 DEF Chat, ThreadStarted, StartThread, HandlerFits, TrackedFits, OwnerFits, BeforeTurn,
     serverVars, storeVars, strayVars, registryVars, ModeOf, Openers, PlainOpeners
<1>3. \/ pc'[r] = "turn" /\ turn' = [turn EXCEPT ![r] = "requested"]
      \/ pc'[r] = "announcing" /\ turn' = turn
  BY OpeningLeads
<1>4. OwnershipKept(r)
  BY <1>1, <1>2, <1>3 DEF OwnershipKept, TasksTypeOK, BackendTypeOK
<1>5. Entitled(r)'
  BY <1>1, <1>2 DEF Entitled, TasksTypeOK, BackendTypeOK
<1>6. handler[r] \in TurnHandlers \ OwnedHandlers
  BY <1>2 DEF OwnedHandlers, Openers, PlainOpeners, Resumers, PlainResumers, Deleters, TurnHandlers,
     PlainTurns, StreamTurns
<1>7. turn'[r] # "none" <=> pc'[r] = "turn"
  BY <1>1, <1>2, <1>3 DEF BackendTypeOK
<1>8. OwnerFits(r)'
  BY <1>1, <1>2, <1>3, <1>5, <1>6, <1>7
  DEF OwnerFits, TasksTypeOK, Outside, BeforeTurn, InTurn, OwnedHandlers
<1>9. QED
  BY <1>2, <1>4, <1>8

\* A task asks for its turn, on the thread its client is entitled to.
RequestsTurn(r) ==
    /\ pc[r] \in {"resuming", "announcing"}
    /\ \E l \in {"starting", "turn"} : pc' = [pc EXCEPT ![r] = l]
    /\ RequestTurn(r)
    /\ UNCHANGED <<requestVars, mode, creator, victim, answer, tracked>>

LEMMA RequestingKeepsOwner ==
    ASSUME ServerInv, OwnerInv, NEW r \in Requests, RequestsTurn(r)
    PROVE  OwnershipKept(r) /\ OwnerFits(r)'
<1>1. /\ TasksTypeOK /\ HandlerFits(r) /\ ThreadFits(r) /\ OwnerFits(r) /\ BackendTypeOK
      /\ LockFits(r)
  BY ServerInvContext DEF ContextOf, TaskInv, OwnerInv
<1>2. /\ handler[r] \in TurnHandlers /\ thread[r] \in Threads
      /\ handler[r] \in Openers \/ handler[r] \in Resumers
  BY <1>1 DEF RequestsTurn, HandlerFits, LockFits, Locked, HoldsItsLock, Yielded, Streams, StreamTurns,
     TurnHandlers, PlainTurns, Openers, Resumers
<1>3. /\ turn' = [turn EXCEPT ![r] = "requested"]
      /\ \E l \in {"starting", "turn"} : pc' = [pc EXCEPT ![r] = l]
      /\ pc[r] \in BeforeTurn \ Outside
      /\ UNCHANGED <<handler, client, thread, mode, creator, victim, answer, tracked>>
  BY DEF RequestsTurn, RequestTurn, requestVars, BeforeTurn, Outside
<1>4. OwnershipKept(r)
  BY <1>1, <1>3 DEF OwnershipKept, BackendTypeOK
<1>5. Entitled(r) <=> Entitled(r)'
  BY <1>3 DEF Entitled
<1>6. OwnerFits(r)'
  BY <1>1, <1>2, <1>3, <1>5
  DEF OwnerFits, TasksTypeOK, BackendTypeOK, Outside, BeforeTurn, InTurn
<1>7. QED
  BY <1>4, <1>6

\* The generator goes on: to its turn, to the next event, or to its end.
LEMMA ChunkSentKeepsOwner ==
    ASSUME ServerInv, OwnerInv, NEW r \in Requests, ChunkSent(r)
    PROVE  OwnershipKept(r) /\ OwnerFits(r)'
<1>1. TasksTypeOK /\ OwnerFits(r) /\ ContextOf(r)
  BY ServerInvContext DEF ContextOf, OwnerInv
<1>2. CASE pc[r] = "announcing"
  <2>1. RequestsTurn(r)
    BY <1>2 DEF ChunkSent, RequestsTurn, Goto, threadVars, registryVars
  <2>2. QED
    BY <2>1, RequestingKeepsOwner
<1>3. CASE pc[r] = "relaying"
  <2>1. Moves(r)
    BY <1>1, <1>3 DEF ChunkSent, Moves, Onward, Goto, threadVars, registryVars, requestVars,
       Locations, InCodex, Outside, BeforeTurn, InTurn, TasksTypeOK, OwnerFits
  <2>2. QED
    BY <1>1, <2>1, MovingKeepsOwner
<1>4. CASE pc[r] \in {"failing", "finishing"}
  <2>1. GeneratorEnds(r) /\ UNCHANGED <<requestVars, mode, creator, turn, victim>>
    BY <1>4 DEF ChunkSent, threadVars
  <2>2. \E a \in Answers : Finish(r, a)
    BY <1>4 DEF ChunkSent, Answers
  <2>3. tracked' \subseteq tracked
    BY <2>1 DEF GeneratorEnds, Unregister, registryVars
  <2>4. Moves(r)
    BY <1>4, <2>1, <2>2, <2>3
    DEF Moves, Onward, Finish, Goto, Say, Locations, Outside, BeforeTurn, InTurn
  <2>5. QED
    BY <1>1, <2>4, MovingKeepsOwner
<1>5. QED
  BY <1>2, <1>3, <1>4 DEF ChunkSent, Yielded

\* The backend's own steps on a turn, and the passing of time.
LEMMA BackendKeepsOwner ==
    ASSUME ServerInv, OwnerInv, NEW r \in Requests,
           TurnBegins(r) \/ TurnEnds(r) \/ DeadlinePasses(r) \/ StrayStep(r)
    PROVE  OwnershipKept(r) /\ OwnerFits(r)'
<1>1. OwnerFits(r) /\ BackendTypeOK
  BY ServerInvContext DEF ContextOf, OwnerInv
<1>2. /\ UNCHANGED <<pc, requestVars, victim, answer, tracked, mode, creator>>
      /\ \A q \in Requests : turn[q] # "none" <=> turn'[q] # "none"
  BY <1>1 DEF TurnBegins, TurnEnds, DeadlinePasses, StrayStep, StrayLands, StrayEnds, serverVars, registryVars, threadVars,
     backendVars, BackendTypeOK
<1>3. OwnershipKept(r)
  BY <1>2 DEF OwnershipKept, requestVars
<1>4. OwnerFits(r)'
  BY <1>1, <1>2 DEF OwnerFits, Entitled, VictimIsOwn, requestVars
<1>5. QED
  BY <1>3, <1>4

\* interrupt_turn: the handle it finds is that of a stream whose owner is the caller.
LEMMA LookUpKeepsOwner ==
    ASSUME ServerInv, OwnerInv, NEW r \in Requests, LookUpTurn(r)
    PROVE  OwnershipKept(r) /\ OwnerFits(r)'
<1>1. /\ TasksTypeOK /\ RegistryTypeOK /\ RegistryExact /\ HandlerFits(r) /\ ThreadFits(r)
      /\ OwnerFits(r)
  BY ServerInvContext DEF ContextOf, TaskInv, OwnerInv
<1>2. /\ pc[r] = "interrupting" /\ handler[r] = "interrupt_thread" /\ thread[r] \in Threads
      /\ creator[thread[r]] = client[r] /\ turn[r] = "none"
  BY <1>1 DEF LookUpTurn, HandlerFits, ThreadFits, OwnerFits, OwnedHandlers, Outside, BeforeTurn,
     TurnHandlers, PlainTurns, PlainOpeners, PlainResumers, StreamTurns
<1>3. UNCHANGED <<handler, client, thread, mode, creator, turn, tracked>>
  BY DEF LookUpTurn, requestVars, registryVars, backendVars
<1>4. victim' = [victim EXCEPT ![r] = registry[thread[r]]]
  BY DEF LookUpTurn
<1>5. CASE registry[thread[r]] = NoRequest
  <2>1. pc' = [pc EXCEPT ![r] = "done"] /\ answer' = [answer EXCEPT ![r] = "ok"]
    BY <1>5 DEF LookUpTurn, Finish, Goto, Say
  <2>2. OwnershipKept(r)
    BY <1>1, <1>3, <1>4, <2>1 DEF OwnershipKept, TasksTypeOK
  <2>3. OwnerFits(r)'
    BY <1>1, <1>2, <1>3, <2>1 DEF OwnerFits, TasksTypeOK, Outside, BeforeTurn, InTurn, Openers,
       PlainOpeners, Resumers, PlainResumers
  <2>4. QED
    BY <2>2, <2>3
<1>6. CASE registry[thread[r]] # NoRequest
  <2> DEFINE v == registry[thread[r]]
  <2>1. v \in Requests /\ v \in tracked /\ thread[v] = thread[r]
    BY <1>1, <1>2, <1>6 DEF RegistryTypeOK, RegistryExact
  <2>2. TrackedFits(v) /\ OwnerFits(v) /\ ThreadFits(v)
    BY <2>1, ServerInvContext DEF ContextOf, TaskInv, OwnerInv
  <2>3. turn[v] # "none" /\ (handler[v] \in Openers \/ handler[v] \in Resumers)
    BY <2>1, <2>2 DEF OwnerFits, TrackedFits, Streams, StreamTurns, Openers, Resumers
  <2>4. client[v] = client[r]
    BY <1>2, <2>1, <2>2, <2>3 DEF OwnerFits, Entitled
  <2>5. pc' = [pc EXCEPT ![r] = "signalling"] /\ answer' = answer
    BY <1>6 DEF LookUpTurn, Goto
  <2>6. OwnershipKept(r)
    BY <1>1, <1>3, <1>4, <2>5 DEF OwnershipKept, TasksTypeOK
  <2>7. VictimIsOwn(r)'
    BY <1>1, <1>3, <1>4, <2>1, <2>3, <2>4 DEF VictimIsOwn, TasksTypeOK
  <2>8. OwnerFits(r)'
    BY <1>1, <1>2, <1>3, <2>5, <2>7 DEF OwnerFits, TasksTypeOK, Entitled, Outside, BeforeTurn, InTurn,
       Openers, PlainOpeners, Resumers, PlainResumers
  <2>9. QED
    BY <2>6, <2>8
<1>7. QED
  BY <1>5, <1>6

\* handle.interrupt(): a turn that was asked for changes its state, nothing more.
LEMMA InterruptKeepsOwner ==
    ASSUME ServerInv, OwnerInv, NEW r \in Requests, Interrupt(r)
    PROVE  OwnershipKept(r) /\ OwnerFits(r)'
<1>1. TasksTypeOK /\ BackendTypeOK /\ OwnerFits(r) /\ HandlerFits(r)
  BY ServerInvContext DEF ContextOf, TaskInv, OwnerInv
<1>2. /\ pc[r] = "signalling" /\ pc' = [pc EXCEPT ![r] = "done"]
      /\ answer' = [answer EXCEPT ![r] = "ok"]
      /\ UNCHANGED <<handler, client, thread, mode, creator, victim, tracked>>
  BY DEF Interrupt, Finish, Goto, Say, requestVars, threadVars, registryVars
<1>3. \A q \in Requests : turn[q] # "none" <=> turn'[q] # "none"
  BY <1>1 DEF Interrupt, BackendTypeOK
<1>4. OwnershipKept(r)
  BY <1>1, <1>2, <1>3 DEF OwnershipKept, TasksTypeOK
<1>5. OwnerFits(r)'
  BY <1>1, <1>2, <1>3 DEF OwnerFits, Entitled, TasksTypeOK, Outside, BeforeTurn, InTurn
<1>6. QED
  BY <1>4, <1>5
----------------------------------------------------------------------------
(* Every step. *)

\* A step of one task, of the clock or of the backend on the turn of one request.
StepOf(r) ==
    \/ \E h \in Handlers, c \in Clients :
          \E t \in IF h \in OwnedHandlers THEN Threads ELSE {NoThread} : Arrive(r, h, c, t)
    \/ ServerStep(r) \/ ClientStep(r) \/ BackendStep(r) \/ DeadlinePasses(r) \/ StrayStep(r)

LEMMA NextIsStepOf ==
    Next <=> (\E r \in Requests : StepOf(r)) \/ Restart \/ AllServed
BY DEF Next, StepOf

LEMMA StepKeepsOthers ==
    ASSUME ServerInv, NEW r \in Requests, StepOf(r)
    PROVE  OthersKeep(r)
<1>1. CASE DeadlinePasses(r) \/ StrayStep(r)
  BY <1>1, NoTaskMovesStep DEF DeadlinePasses, StrayStep, StrayLands, StrayEnds, backendVars, StepOK
<1>2. QED
  BY <1>1, ArriveStep, ServerStepOK, ClientStepOK, BackendStepOK DEF StepOf, StepOK

LEMMA StepKeepsOwner ==
    ASSUME ServerInv, OwnerInv, NEW r \in Requests, StepOf(r)
    PROVE  OwnershipKept(r) /\ OwnerFits(r)'
<1>1. OwnerFits(r)
  BY DEF OwnerInv
<1>2. ASSUME Moves(r)
      PROVE  OwnershipKept(r) /\ OwnerFits(r)'
  BY <1>1, <1>2, MovingKeepsOwner
<1>3. CASE \E h \in Handlers, c \in Clients :
              \E t \in IF h \in OwnedHandlers THEN Threads ELSE {NoThread} : Arrive(r, h, c, t)
  BY <1>3, ArrivalKeepsOwner
<1>4. CASE DeadlinePasses(r) \/ StrayStep(r)
  BY <1>4, BackendKeepsOwner
<1>5. CASE ServerStep(r)
  BY <1>1, <1>2, <1>5, MovingSteps, OwnerCheckKeepsOwner, LookUpKeepsOwner DEF ServerStep
<1>6. CASE ClientStep(r)
  BY <1>1, <1>2, <1>6, MovingSteps, ChunkSentKeepsOwner DEF ClientStep
<1>7. CASE BackendStep(r)
  <2>1. CASE \E t \in Threads : Chat(r, t) \/ ThreadStarted(r, t)
    BY <2>1, OpeningKeepsOwner
  <2>2. CASE ThreadResumed(r)
    <3>1. RequestsTurn(r)
      BY <2>2 DEF ThreadResumed, RequestsTurn, Goto, threadVars, serverVars, registryVars
    <3>2. QED
      BY <3>1, RequestingKeepsOwner
  <2>3. CASE TurnBegins(r) \/ TurnEnds(r)
    BY <2>3, BackendKeepsOwner
  <2>4. CASE Interrupt(r)
    BY <2>4, InterruptKeepsOwner
  <2>5. QED
    BY <1>1, <1>2, <1>7, <2>1, <2>2, <2>3, <2>4, MovingSteps DEF BackendStep
<1>8. QED
  BY <1>3, <1>4, <1>5, <1>6, <1>7 DEF StepOf

LEMMA RestartKeepsOwner ==
    ASSUME ServerInv, OwnerInv, NEW r \in Requests, Restart
    PROVE  OwnerFits(r)'
<1>1. OwnerFits(r) /\ TasksTypeOK /\ BackendTypeOK
  BY ServerInvContext DEF ContextOf, OwnerInv
<1>2. /\ pc'[r] = IF pc[r] = "idle" THEN "idle" ELSE "done"
      /\ answer'[r] = answer[r] \/ answer'[r] = "lost"
      /\ UNCHANGED <<handler, client, thread, mode, creator>> /\ tracked' = {}
  BY DEF Restart, RegistryReset, requestVars, threadVars
<1>3. turn[r] # "none" <=> turn'[r] # "none"
  BY <1>1 DEF Restart, BackendTypeOK
<1>4. QED
  BY <1>1, <1>2, <1>3 DEF OwnerFits, Entitled, Outside, BeforeTurn, InTurn

LEMMA EveryoneKeepsOwner ==
    ASSUME ServerInv, OwnerInv, [Next]_vars
    PROVE  /\ \A r \in Requests : OwnerFits(r)'
           /\ \A t \in Threads : mode[t] # "none" => mode'[t] = mode[t] /\ creator'[t] = creator[t]
<1>1. CASE \E r \in Requests : StepOf(r)
  BY <1>1, StepKeepsOthers, StepKeepsOwner, OthersKeepOwnerFits DEF OwnerInv, OwnershipKept
<1>2. CASE Restart
  BY <1>2, RestartKeepsOwner DEF Restart, threadVars
<1>3. CASE UNCHANGED vars
  <2>1. UNCHANGED <<pc, requestVars, tracked, mode, creator, turn, victim, answer>>
    BY <1>3 DEF vars, serverVars, registryVars, backendVars
  <2>2. QED
    BY <2>1 DEF OwnerInv, OwnerFits, Entitled, VictimIsOwn, requestVars
<1>4. QED
  BY <1>1, <1>2, <1>3, NextIsStepOf DEF AllServed

\* Only an arrival and thread_start touch what ownership is about.
LEMMA OnlyOpeningsOpen ==
    ASSUME ServerInv, [Next]_vars
    PROVE  \/ UNCHANGED <<requestVars, mode, creator>>
           \/ \E r \in Requests, h \in Handlers, c \in Clients :
                 \E t \in IF h \in OwnedHandlers THEN Threads ELSE {NoThread} : Arrive(r, h, c, t)
           \/ \E r \in Requests, t \in Threads : Chat(r, t) \/ ThreadStarted(r, t)
<1> DEFINE Same == UNCHANGED <<requestVars, mode, creator>>
<1> USE DEF requestVars, backendVars, threadVars
<1>1. ASSUME NEW r \in Requests, ServerStep(r)
      PROVE  Same
  BY <1>1 DEF ServerStep, CheckOwner, Refuse, AdmitOpener, AdmitResumer, LockGranted,
     TurnRegistered, RunReturns, PlainTimeout, StreamTimeout, StreamEnds, GeneratorFinalised, Save,
     SaveFails, Mark, MarkFails, LookUpTurn
<1>2. ASSUME NEW r \in Requests, ClientStep(r)
      PROVE  Same
  BY <1>2 DEF ClientStep, ChunkSent, ChunkSentLate, ResponseEnds, DisconnectInCodex,
     DisconnectInYield, DisconnectInSave
<1>3. ASSUME NEW r \in Requests, BackendStep(r)
      PROVE  Same \/ \E t \in Threads : Chat(r, t) \/ ThreadStarted(r, t)
  BY <1>3 DEF BackendStep, ThreadResumed, StreamResumed, RelayEvent, TurnBegins, TurnEnds,
     RunRaises, StreamRaises, Archived, ArchiveThread, ArchiveFails, Interrupt, InterruptRaises
<1>4. ASSUME NEW r \in Requests, DeadlinePasses(r) \/ StrayStep(r)
      PROVE  Same
  BY <1>4 DEF DeadlinePasses, StrayStep, StrayLands, StrayEnds
<1>5. CASE Restart
  BY <1>5 DEF Restart
<1>6. CASE UNCHANGED vars
  BY <1>6 DEF vars
<1>7. QED
  BY <1>1, <1>2, <1>3, <1>4, <1>5, <1>6 DEF Next, AllServed

LEMMA OpenedOnceKept ==
    ASSUME ServerInv, OwnerInv, [Next]_vars
    PROVE  OpenedOnce' /\ \A t \in Threads : mode'[t] = "none" => creator'[t] = NoClient
<1>1. /\ OpenedOnce /\ \A t \in Threads : mode[t] = "none" => creator[t] = NoClient
      /\ TasksTypeOK /\ BackendTypeOK /\ \A q \in Requests : OwnerFits(q)
  BY DEF OwnerInv, ServerInv, TypeOK, TasksTypeOK
<1>2. CASE UNCHANGED <<requestVars, mode, creator>>
  BY <1>1, <1>2 DEF OpenedOnce, requestVars
<1>3. ASSUME NEW r \in Requests, NEW h \in Handlers, NEW c \in Clients,
             NEW t \in IF h \in OwnedHandlers THEN Threads ELSE {NoThread}, Arrive(r, h, c, t)
      PROVE  OpenedOnce' /\ UNCHANGED <<mode, creator>>
  <2>1. /\ handler' = [handler EXCEPT ![r] = h] /\ thread' = [thread EXCEPT ![r] = t]
        /\ UNCHANGED <<mode, creator>>
    BY <1>3 DEF Arrive, backendVars
  <2>2. h \in Openers => t \notin Threads
    BY DomainAssumption DEF OwnedHandlers, Openers, PlainOpeners, Resumers, PlainResumers, Deleters
  <2>3. QED
    BY <1>1, <2>1, <2>2 DEF OpenedOnce, TasksTypeOK
<1>4. ASSUME NEW r \in Requests, NEW t \in Threads, Chat(r, t) \/ ThreadStarted(r, t)
      PROVE  OpenedOnce' /\ \A u \in Threads : mode'[u] = "none" => creator'[u] = NoClient
  <2>1. /\ handler' = handler /\ thread' = [thread EXCEPT ![r] = t] /\ mode[t] = "none"
        /\ creator' = [creator EXCEPT ![t] = client[r]]
        /\ mode' = [mode EXCEPT ![t] = ModeOf(handler[r])]
    BY <1>4, OpeningKeepsOwner
  <2>2. \A q \in Requests : handler[q] \in Openers => thread[q] # t
    BY <1>1, <2>1 DEF OwnerFits, Entitled, ModeOf
  <2>3. OpenedOnce'
    BY <1>1, <2>1, <2>2 DEF OpenedOnce, TasksTypeOK
  <2>4. ModeOf(handler[r]) # "none"
    BY DEF ModeOf
  <2>5. QED
    BY <1>1, <2>1, <2>3, <2>4 DEF BackendTypeOK
<1>5. QED
  BY <1>1, <1>2, <1>3, <1>4, OnlyOpeningsOpen
----------------------------------------------------------------------------
(* What becomes of a row. *)

\* The write of r inserts the row of t, or notes r as its last turn.
Inserts(r, table, t) ==
    /\ handler[r] \in Openers
    /\ ~HasRow(table, t)
    /\ rows'[table][t] = NewRow(client[r])

Touches(r, table, t) ==
    /\ handler[r] \notin Openers
    /\ HasRow(table, t)
    /\ rows'[table][t] = [rows[table][t] EXCEPT !.lastTurn = r]

Writes(r, table, t) ==
    /\ Save(r) \/ SaveFails(r) \/ StrayLands(r)
    /\ table = TableOf(handler[r]) /\ t = thread[r]
    /\ Inserts(r, table, t) \/ Touches(r, table, t)

\* The mark of r archives the row of t, or deletes it.
Marks(r, table, t) ==
    /\ Mark(r) \/ MarkFails(r)
    /\ t = thread[r]
    /\ \/ /\ handler[r] = "delete_thread" /\ table = "codex_threads"
          /\ HasRow(table, t)
          /\ rows'[table][t] = [rows[table][t] EXCEPT !.archived = TRUE]
       \/ /\ handler[r] = "delete_conversation" /\ table = "chat_conversations"
          /\ rows'[table][t] = NoRow

LEMMA WriteRowChange ==
    ASSUME StoreTypeOK, NEW r \in Requests, WriteRow(r), NEW table \in Tables, NEW t \in Threads
    PROVE  \/ rows'[table][t] = rows[table][t]
           \/ table = TableOf(handler[r]) /\ t = thread[r] /\ Inserts(r, table, t)
           \/ table = TableOf(handler[r]) /\ t = thread[r] /\ Touches(r, table, t)
<1> DEFINE own == TableOf(handler[r])
<1>1. rows \in [Tables -> [Threads -> Row]] /\ own \in Tables
  BY DEF StoreTypeOK, TableOf, Tables
<1>2. CASE rows' = rows
  BY <1>2
<1>3. CASE rows' # rows /\ handler[r] \in Openers
  <2>1. rows' = [rows EXCEPT ![own][thread[r]] = NewRow(client[r])] /\ ~HasRow(own, thread[r])
    BY <1>3 DEF WriteRow, InsertRow
  <2>2. QED
    BY <1>1, <1>3, <2>1 DEF Inserts
<1>4. CASE rows' # rows /\ handler[r] \notin Openers
  <2>1. rows' = [rows EXCEPT ![own][thread[r]].lastTurn = r] /\ HasRow(own, thread[r])
    BY <1>4 DEF WriteRow, TouchRow
  <2>2. QED
    BY <1>1, <1>4, <2>1 DEF Touches
<1>5. QED
  BY <1>2, <1>3, <1>4

LEMMA MarkChange ==
    ASSUME ServerInv, NEW r \in Requests, Mark(r) \/ MarkFails(r),
           NEW table \in Tables, NEW t \in Threads
    PROVE  rows'[table][t] = rows[table][t] \/ Marks(r, table, t)
<1>1. rows \in [Tables -> [Threads -> Row]] /\ HandlerFits(r)
  BY ServerInvContext DEF ServerInv, TypeOK, StoreTypeOK, ContextOf, TaskInv
<1>2. handler[r] \in Deleters
  BY <1>1 DEF Mark, MarkFails, HandlerFits
<1>7. rows' = rows \/ MarkRow(r)
  <2>1. CASE Mark(r)
    BY <2>1, Zenon DEF Mark
  <2>2. CASE MarkFails(r)
    BY <2>2, Zenon DEF MarkFails
  <2>3. QED
    BY <2>1, <2>2
<1>3. CASE rows' = rows
  BY <1>3
<1>4. CASE rows' # rows /\ handler[r] = "delete_thread"
  <2>1. /\ rows' = [rows EXCEPT !["codex_threads"][thread[r]].archived = TRUE]
        /\ HasRow("codex_threads", thread[r])
    BY <1>4, <1>7 DEF MarkRow, ArchiveRow
  <2>2. CASE table = "codex_threads" /\ t = thread[r]
    <3>1. rows'[table][t] = [rows[table][t] EXCEPT !.archived = TRUE]
      BY <1>1, <2>1, <2>2 DEF Tables
    <3>2. QED
      BY <1>4, <2>1, <2>2, <3>1 DEF Marks
  <2>3. CASE ~(table = "codex_threads" /\ t = thread[r])
    BY <1>1, <2>1, <2>3
  <2>4. QED
    BY <2>2, <2>3
<1>5. CASE rows' # rows /\ handler[r] = "delete_conversation"
  <2>1. rows' = [rows EXCEPT !["chat_conversations"][thread[r]] = NoRow]
    BY <1>5, <1>7 DEF MarkRow, DeleteRow
  <2>2. CASE table = "chat_conversations" /\ t = thread[r]
    BY <1>1, <1>5, <2>1, <2>2 DEF Marks
  <2>3. CASE ~(table = "chat_conversations" /\ t = thread[r])
    BY <1>1, <2>1, <2>3
  <2>4. QED
    BY <2>2, <2>3
<1>6. QED
  BY <1>2, <1>3, <1>4, <1>5 DEF Deleters

\* Rows change by a save, by a stray write that lands, or by a mark.
LEMMA RowsChange ==
    ASSUME ServerInv, [Next]_vars, NEW table \in Tables, NEW t \in Threads
    PROVE  \/ rows'[table][t] = rows[table][t]
           \/ \E r \in Requests : Writes(r, table, t) \/ Marks(r, table, t)
<1>1. StoreTypeOK
  BY DEF ServerInv, TypeOK
<1>2. ASSUME NEW r \in Requests, Save(r) \/ SaveFails(r) \/ StrayLands(r)
      PROVE  rows'[table][t] = rows[table][t] \/ Writes(r, table, t)
  <2>1. CASE rows' = rows
    BY <2>1
  <2>2. CASE WriteRow(r)
    BY <1>1, <1>2, <2>2, WriteRowChange DEF Writes
  <2>3. Save(r) => WriteRow(r) \/ rows' = rows
    BY Zenon DEF Save
  <2>4. SaveFails(r) => WriteRow(r) \/ rows' = rows
    BY Zenon DEF SaveFails
  <2>5. StrayLands(r) => WriteRow(r) \/ rows' = rows
    BY Zenon DEF StrayLands
  <2>6. QED
    BY <1>2, <2>1, <2>2, <2>3, <2>4, <2>5
<1>3. ASSUME NEW r \in Requests, Mark(r) \/ MarkFails(r)
      PROVE  rows'[table][t] = rows[table][t] \/ Marks(r, table, t)
  BY <1>3, MarkChange
<1>4. ASSUME NEW r \in Requests, StepOf(r), ~(Save(r) \/ SaveFails(r) \/ StrayLands(r)),
             ~(Mark(r) \/ MarkFails(r))
      PROVE  rows' = rows
  <2>1. CASE ServerStep(r)
    BY <1>4, <2>1 DEF ServerStep, storeVars, strayVars, CheckOwner, Refuse, AdmitOpener, AdmitResumer,
       LockGranted, TurnRegistered, RunReturns, PlainTimeout, StreamTimeout, StreamEnds,
       GeneratorFinalised, LookUpTurn
  <2>2. CASE ClientStep(r)
    BY <2>2 DEF ClientStep, storeVars, strayVars, ChunkSent, ChunkSentLate, ResponseEnds, DisconnectInCodex,
       DisconnectInYield, DisconnectInSave
  <2>3. CASE BackendStep(r)
    BY <2>3 DEF BackendStep, storeVars, strayVars, Chat, ThreadStarted, ThreadResumed, StreamResumed,
       RelayEvent, TurnBegins, TurnEnds, RunRaises, StreamRaises, Archived, ArchiveFails, Interrupt,
       InterruptRaises
  <2>4. QED
    BY <1>4, <2>1, <2>2, <2>3 DEF StepOf, StrayStep, StrayEnds, Arrive, DeadlinePasses, storeVars,
       strayVars
<1>5. CASE Restart \/ UNCHANGED vars
  BY <1>5 DEF Restart, vars, storeVars, strayVars
<1>6. QED
  BY <1>2, <1>3, <1>4, <1>5, NextIsStepOf DEF AllServed

\* Whoever writes a row served a turn on a thread it was entitled to.
LEMMA WritersFit ==
    ASSUME ServerInv, OwnerInv, NEW r \in Requests, pc[r] = "saving" \/ r \in stray
    PROVE  /\ handler[r] \in TurnHandlers \ {"chat"}
           /\ thread[r] \in Threads /\ mode[thread[r]] # "none"
<1>1. TaskInv(r)
  BY ServerInvContext DEF ContextOf
<1>2. CASE pc[r] = "saving"
  BY <1>1, <1>2 DEF TaskInv, HandlerFits, ThreadFits, WithThread
<1>3. CASE r \in stray
  BY <1>3 DEF OwnerInv, ServerInv, StrayFits, Streams, StreamTurns, TurnHandlers
<1>4. QED
  BY <1>2, <1>3

LEMMA RowsOwnedKept ==
    ASSUME ServerInv, OwnerInv, [Next]_vars
    PROVE  RowsOwned'
<1> SUFFICES ASSUME NEW table \in Tables, NEW t \in Threads, HasRow(table, t)'
             PROVE  /\ creator'[t] = rows'[table][t].owner
                    /\ mode'[t] = IF table = "codex_threads" THEN "agent" ELSE "read_only"
  BY DEF RowsOwned
<1>1. rows[table][t] \in Row /\ RowsOwned /\ RowsKnown
  BY DEF ServerInv, TypeOK, StoreTypeOK, OwnerInv
<1>2. mode[t] # "none" => mode'[t] = mode[t] /\ creator'[t] = creator[t]
  BY EveryoneKeepsOwner
<1>3. CASE rows'[table][t].owner = rows[table][t].owner
  <2>1. HasRow(table, t)
    BY <1>3 DEF HasRow
  <2>2. QED
    BY <1>1, <1>2, <1>3, <2>1 DEF RowsOwned, RowsKnown
<1>4. ASSUME NEW r \in Requests, Writes(r, table, t), Inserts(r, table, t)
      PROVE  /\ creator'[t] = rows'[table][t].owner
             /\ mode'[t] = IF table = "codex_threads" THEN "agent" ELSE "read_only"
  <2>1. handler[r] \in Openers \ {"chat"} /\ thread[r] = t /\ mode[t] # "none"
    BY <1>4, WritersFit DEF Writes, Save, SaveFails, StrayLands, Inserts
  <2>2. Entitled(r)
    BY <2>1 DEF OwnerInv, OwnerFits
  <2>3. rows'[table][t].owner = client[r] /\ table = TableOf(handler[r])
    BY <1>4 DEF Writes, Inserts, NewRow
  <2>4. QED
    BY <1>2, <2>1, <2>2, <2>3 DEF Entitled, ModeOf, TableOf, ConversationHandlers, Openers,
       PlainOpeners
<1>5. ASSUME NEW r \in Requests, Writes(r, table, t), Touches(r, table, t)
      PROVE  rows'[table][t].owner = rows[table][t].owner
  BY <1>1, <1>5 DEF Touches, Row
<1>6. ASSUME NEW r \in Requests, Marks(r, table, t)
      PROVE  rows'[table][t].owner = rows[table][t].owner
  BY <1>1, <1>6 DEF Marks, Row, NoRow, NewRow, HasRow
<1>7. QED
  BY <1>3, <1>4, <1>5, <1>6, RowsChange DEF Writes

LEMMA StraysStream ==
    ASSUME ServerInv, OwnerInv, [Next]_vars
    PROVE  \A q \in stray' : Streams(q)'
<1>1. /\ \A q \in stray : Streams(q) /\ pc[q] # "idle"
      /\ stray \subseteq Requests /\ TasksTypeOK
  BY DEF OwnerInv, ServerInv, TypeOK, StoreTypeOK, StrayFits, TasksTypeOK
<1>2. \A q \in stray : Streams(q)'
  <2>1. CASE handler' = handler
    BY <1>1, <2>1 DEF Streams
  <2>2. ASSUME NEW r \in Requests, NEW h \in Handlers, NEW c \in Clients, NEW t, Arrive(r, h, c, t)
        PROVE  \A q \in stray : handler'[q] = handler[q]
    BY <1>1, <2>2 DEF Arrive, TasksTypeOK
  <2>3. ASSUME NEW r \in Requests, NEW t \in Threads, Chat(r, t) \/ ThreadStarted(r, t)
        PROVE  handler' = handler
    BY <2>3 DEF Chat, ThreadStarted
  <2>4. QED
    BY <1>1, <2>1, <2>2, <2>3, OnlyOpeningsOpen DEF requestVars, Streams
<1>3. CASE stray' \subseteq stray
  BY <1>2, <1>3
<1>4. ASSUME NEW r \in Requests, DisconnectInSave(r)
      PROVE  stray' \subseteq stray \cup {r} /\ Streams(r)'
  BY <1>4 DEF DisconnectInSave, requestVars, Streams
<1>5. ASSUME NEW r \in Requests, StepOf(r), ~DisconnectInSave(r)
      PROVE  stray' \subseteq stray
  <2>1. CASE ServerStep(r)
    BY <2>1 DEF ServerStep, storeVars, strayVars, CheckOwner, Refuse, AdmitOpener, AdmitResumer, LockGranted,
       TurnRegistered, RunReturns, PlainTimeout, StreamTimeout, StreamEnds, GeneratorFinalised,
       Save, SaveFails, Mark, MarkFails, LookUpTurn
  <2>2. CASE ClientStep(r)
    BY <1>5, <2>2 DEF ClientStep, storeVars, strayVars, ChunkSent, ChunkSentLate, ResponseEnds,
       DisconnectInCodex, DisconnectInYield
  <2>3. CASE BackendStep(r)
    BY <2>3 DEF BackendStep, storeVars, strayVars, Chat, ThreadStarted, ThreadResumed, StreamResumed,
       RelayEvent, TurnBegins, TurnEnds, RunRaises, StreamRaises, Archived, ArchiveFails, Interrupt,
       InterruptRaises
  <2>4. QED
    BY <1>5, <2>1, <2>2, <2>3 DEF StepOf, Arrive, DeadlinePasses, StrayStep, StrayLands, StrayEnds, storeVars, strayVars
<1>6. CASE Restart \/ UNCHANGED vars
  BY <1>3, <1>6 DEF Restart, vars, storeVars, strayVars
<1>7. QED
  BY <1>2, <1>3, <1>4, <1>5, <1>6, NextIsStepOf DEF AllServed
----------------------------------------------------------------------------
(* The theorems about ownership. *)

LEMMA InitOwnerInv == Init => OwnerInv
<1> SUFFICES ASSUME Init
             PROVE  OwnerInv
  OBVIOUS
<1>1. PICK owner \in [Existing -> Clients], table \in [Existing -> Tables] :
         /\ creator = [t \in Threads |-> IF t \in Existing THEN owner[t] ELSE NoClient]
         /\ mode = [t \in Threads |->
                       IF t \notin Existing THEN "none"
                       ELSE IF table[t] = "codex_threads" THEN "agent" ELSE "read_only"]
         /\ rows = [tb \in Tables |-> [t \in Threads |->
                       IF t \in Existing /\ table[t] = tb THEN NewRow(owner[t]) ELSE NoRow]]
  BY DEF Init
<1>2. RowsOwned
  BY <1>1 DEF RowsOwned, HasRow, NoRow, NewRow
<1>3. OpenedOnce
  BY DomainAssumption DEF Init, OpenedOnce
<1>4. \A t \in Threads : mode[t] = "none" => creator[t] = NoClient
  BY <1>1
<1>5. ASSUME NEW r \in Requests
      PROVE  OwnerFits(r)
  BY DEF Init, RegistryInit, OwnerFits, Openers, PlainOpeners, Resumers, PlainResumers,
     OwnedHandlers, Deleters, BeforeTurn, InTurn
<1>6. QED
  BY <1>2, <1>3, <1>4, <1>5 DEF Init, OwnerInv

LEMMA StepOwnerInv == ServerInv /\ OwnerInv /\ [Next]_vars => OwnerInv'
<1> SUFFICES ASSUME ServerInv, OwnerInv, [Next]_vars
             PROVE  OwnerInv'
  OBVIOUS
<1>1. QED
  BY RowsOwnedKept, OpenedOnceKept, StraysStream, EveryoneKeepsOwner DEF OwnerInv

\* Who owns what is settled when a thread is started and when its owner is
\* checked, and no step of anybody changes it afterwards.
THEOREM OwnerInvariant == Spec => []OwnerInv
BY InitOwnerInv, StepOwnerInv, ServerInvariant, PTL DEF Spec

\* A turn runs only on a thread of its own client, in the sandbox the thread was
\* started with, whatever happens between the owner check and the turn.
THEOREM TurnsAreOwned == Spec => []TurnsStayWithOwner
<1>1. OwnerInv => TurnsStayWithOwner
  <2> SUFFICES ASSUME OwnerInv
               PROVE  TurnsStayWithOwner
    OBVIOUS
  <2>1. ASSUME NEW r \in Requests, turn[r] # "none"
        PROVE  Entitled(r)
    <3>1. OwnerFits(r)
      BY DEF OwnerInv
    <3>2. QED
      BY <2>1, <3>1 DEF OwnerFits, TurnHandlers, PlainTurns, StreamTurns, Openers, Resumers
  <2>2. QED
    BY <2>1 DEF OwnerInv, RowsOwned, Entitled, TurnsStayWithOwner
<1>2. QED
  BY <1>1, OwnerInvariant, PTL

\* An interrupt reaches a turn of the caller's own, on the thread it named.
THEOREM InterruptsAreOwned == Spec => []InterruptsOwnTurn
<1>1. OwnerInv => InterruptsOwnTurn
  BY DEF OwnerInv, OwnerFits, VictimIsOwn, InterruptsOwnTurn
<1>2. QED
  BY <1>1, OwnerInvariant, PTL

\* Once a task claims its thread, it holds the lock, or the thread is a chat's own.
Claiming == InTurn \cup {"resuming", "announcing"}

LEMMA ClaimsAreAlone ==
    ASSUME ServerInv, OwnerInv, NEW r \in Requests, NEW q \in Requests,
           pc[r] \in Claiming, pc[q] \in Claiming, thread[r] = thread[q]
    PROVE  r = q
<1>1. OneHolder /\ OpenedOnce
  BY ServerInvContext, OrderedQueuesHaveOneHolder DEF ContextOf, OwnerInv
<1>2. ASSUME NEW p \in Requests, pc[p] \in Claiming
      PROVE  /\ handler[p] # "chat" => HoldsItsLock(p)
             /\ handler[p] \in Openers \cup Resumers /\ thread[p] \in Threads /\ Entitled(p)
  <2>1. TaskInv(p) /\ OwnerFits(p)
    BY ServerInvContext DEF ContextOf, OwnerInv
  <2>2. handler[p] # "chat" => HoldsItsLock(p)
    BY <1>2, <2>1 DEF TaskInv, LockFits, Locked, Claiming, InTurn
  <2>3. handler[p] \in Openers \cup Resumers
    BY <1>2, <2>1 DEF TaskInv, HandlerFits, Claiming, InTurn, Yielded, Streams, StreamTurns,
       TurnHandlers, PlainTurns, Openers, Resumers
  <2>4. thread[p] \in Threads
    BY <1>2, <2>1, <2>2 DEF HoldsItsLock, TaskInv, HandlerFits, ThreadFits, WithThread, Claiming,
       InTurn, Streams, StreamTurns, Resumers, PlainResumers
  <2>5. pc[p] \notin Outside
    BY <1>2 DEF Claiming, InTurn, Outside
  <2>6. QED
    BY <2>1, <2>2, <2>3, <2>4, <2>5 DEF OwnerFits
<1>3. handler[r] = "chat" <=> handler[q] = "chat"
  BY <1>2 DEF Entitled, ModeOf
<1>4. CASE handler[r] = "chat"
  BY <1>1, <1>2, <1>3, <1>4 DEF OpenedOnce, Openers, PlainOpeners
<1>5. CASE handler[r] # "chat"
  BY <1>1, <1>2, <1>3, <1>5 DEF HoldsItsLock, OneHolder
<1>6. QED
  BY <1>4, <1>5

\* No two turns of one thread are awaited at once: those that share a lock take
\* turns, and a chat shares its thread with nobody.
THEOREM TurnsRunAlone == Spec => []OneTurnPerThread
<1>1. ServerInv /\ OwnerInv => OneTurnPerThread
  BY ClaimsAreAlone DEF OneTurnPerThread, Claiming, InTurn
<1>2. QED
  BY <1>1, ServerInvariant, OwnerInvariant, PTL
----------------------------------------------------------------------------
(* The handlers implement TurnGate. *)

\* Where TurnGate lets a request that is past its start go.
GateMove(r) ==
    \/ Phase(r)' = Phase(r)
    \/ Phase(r) = "asked" /\ Phase(r)' = "refused"
    \/ Phase(r) = "running" /\ Phase(r)' \in {"ended", "ok", "refused"}
    \/ Phase(r) = "ended" /\ Phase(r)' \in {"ok", "refused"}

\* Deletions and interrupts are no business of TurnGate.
LEMMA OthersStayAway ==
    ASSUME NEW r \in Requests, handler[r] \notin TurnHandlers, handler' = handler
    PROVE  GateMove(r)
BY DEF GateMove, Phase

LEMMA TurnStepsInGate ==
    ASSUME ServerInv, NEW r \in Requests, OwnerFits(r),
           \/ Refuse(r) \/ AdmitOpener(r) \/ AdmitResumer(r) \/ LockGranted(r)
           \/ TurnRegistered(r) \/ RunReturns(r) \/ PlainTimeout(r) \/ StreamTimeout(r)
           \/ StreamEnds(r) \/ GeneratorFinalised(r) \/ Save(r) \/ SaveFails(r)
           \/ ChunkSentLate(r) \/ ResponseEnds(r) \/ DisconnectInCodex(r) \/ DisconnectInYield(r)
           \/ DisconnectInSave(r) \/ StreamResumed(r) \/ RelayEvent(r) \/ RunRaises(r)
           \/ StreamRaises(r)
    PROVE  GateMove(r)
<1>1. TasksTypeOK /\ HandlerFits(r) /\ OwnerFits(r)
  BY ServerInvContext DEF ContextOf, TaskInv
<1> USE DEF GateMove, Phase, Finish, Goto, Say, serverVars, requestVars, InCodex, Yielded,
        TasksTypeOK, OwnerFits, HandlerFits, Streams, StreamTurns, TurnHandlers, PlainTurns, Openers,
        PlainOpeners, Resumers, PlainResumers
<1>2. CASE Refuse(r)
  BY <1>1, <1>2 DEF Refuse
<1>3. CASE AdmitOpener(r)
  BY <1>1, <1>3 DEF AdmitOpener
<1>4. CASE AdmitResumer(r)
  BY <1>1, <1>4 DEF AdmitResumer, TakeLock, Proceed
<1>5. CASE LockGranted(r)
  BY <1>1, <1>5 DEF LockGranted, Proceed
<1>6. CASE TurnRegistered(r)
  BY <1>1, <1>6 DEF TurnRegistered
<1>7. CASE RunReturns(r)
  BY <1>1, <1>7 DEF RunReturns
<1>8. CASE PlainTimeout(r)
  BY <1>1, <1>8 DEF PlainTimeout
<1>9. CASE StreamTimeout(r)
  BY <1>1, <1>9 DEF StreamTimeout
<1>10. CASE StreamEnds(r)
  BY <1>1, <1>10 DEF StreamEnds
<1>11. CASE GeneratorFinalised(r)
  BY <1>1, <1>11 DEF GeneratorFinalised
<1>12. CASE Save(r)
  BY <1>1, <1>12 DEF Save
<1>13. CASE SaveFails(r)
  <2>1. CASE Streams(r)
    BY <1>1, <1>13, <2>1 DEF SaveFails
  <2>2. CASE ~Streams(r)
    BY <1>1, <1>13, <2>2 DEF SaveFails
  <2>3. QED
    BY <2>1, <2>2
<1>14. CASE ChunkSentLate(r)
  BY <1>1, <1>14 DEF ChunkSentLate
<1>15. CASE ResponseEnds(r)
  BY <1>1, <1>15 DEF ResponseEnds
<1>16. CASE DisconnectInCodex(r)
  BY <1>1, <1>16 DEF DisconnectInCodex
<1>17. CASE DisconnectInYield(r)
  BY <1>1, <1>17 DEF DisconnectInYield
<1>18. CASE DisconnectInSave(r)
  BY <1>1, <1>18 DEF DisconnectInSave
<1>19. CASE StreamResumed(r)
  BY <1>1, <1>19 DEF StreamResumed
<1>20. CASE RelayEvent(r)
  BY <1>1, <1>20 DEF RelayEvent
<1>21. CASE RunRaises(r)
  BY <1>1, <1>21 DEF RunRaises
<1>22. CASE StreamRaises(r)
  BY <1>1, <1>22 DEF StreamRaises
<1>23. QED
  BY <1>2, <1>3, <1>4, <1>5, <1>6, <1>7, <1>8, <1>9, <1>10, <1>11, <1>12, <1>13, <1>14, <1>15, <1>16, <1>17, <1>18, <1>19, <1>20, <1>21, <1>22

LEMMA OtherStepsInGate ==
    ASSUME ServerInv, NEW r \in Requests, OwnerFits(r),
           \/ CheckOwner(r) \/ Archived(r) \/ ArchiveFails(r) \/ Mark(r) \/ MarkFails(r)
           \/ LookUpTurn(r) \/ Interrupt(r) \/ InterruptRaises(r)
    PROVE  GateMove(r)
<1>1. TasksTypeOK /\ HandlerFits(r) /\ OwnerFits(r)
  BY ServerInvContext DEF ContextOf, TaskInv
<1>2. handler' = handler
  BY DEF CheckOwner, Archived, ArchiveFails, Mark, MarkFails, LookUpTurn, Interrupt, InterruptRaises,
     requestVars
<1>3. CASE handler[r] \notin TurnHandlers
  BY <1>2, <1>3, OthersStayAway
<1>4. CASE handler[r] \in TurnHandlers
  <2>1. handler[r] \notin Deleters \cup {"interrupt_thread"}
    BY <1>4 DEF Deleters, TurnHandlers, PlainTurns, PlainOpeners, PlainResumers, StreamTurns
  <2>2. CheckOwner(r)
    BY <1>1, <2>1 DEF HandlerFits, Archived, ArchiveFails, Mark, MarkFails, LookUpTurn, Interrupt,
       InterruptRaises
  <2>3. \/ pc' = [pc EXCEPT ![r] = "admission"]
        \/ pc' = [pc EXCEPT ![r] = "done"] /\ answer' = [answer EXCEPT ![r] = "notFound"]
    BY <1>4, <2>1, <2>2 DEF CheckOwner, Goto, Finish, Say
  <2>4. pc[r] = "checking"
    BY <2>2 DEF CheckOwner
  <2>5. QED
    BY <1>1, <1>2, <1>4, <2>3, <2>4 DEF GateMove, Phase, TasksTypeOK
<1>5. QED
  BY <1>3, <1>4

\* A step of r is seen by TurnGate as a step of r alone.
CallerOf(q) == OfTurnRequest(q, client[q], NoClient)
PlaceOf(q) == OfTurnRequest(q, thread[q], NoThread)
Phases == [q \in Requests |-> Phase(q)]
Callers == [q \in Requests |-> CallerOf(q)]
Places == [q \in Requests |-> PlaceOf(q)]

LEMMA GateFrame ==
    ASSUME NEW r \in Requests, OthersKeep(r), OwnershipKept(r)
    PROVE  /\ Phases' = [Phases EXCEPT ![r] = Phase(r)']
           /\ Callers' = [Callers EXCEPT ![r] = CallerOf(r)']
           /\ Places' = [Places EXCEPT ![r] = PlaceOf(r)']
<1>1. ASSUME NEW q \in Requests \ {r}
      PROVE  Phase(q)' = Phase(q) /\ CallerOf(q)' = CallerOf(q) /\ PlaceOf(q)' = PlaceOf(q)
  <2>1. /\ pc'[q] = pc[q] /\ handler'[q] = handler[q]
        /\ client'[q] = client[q] /\ thread'[q] = thread[q]
        /\ answer'[q] = answer[q]
    BY DEF OthersKeep, OwnershipKept
  <2>2. QED
    BY <2>1 DEF Phase, CallerOf, PlaceOf, OfTurnRequest
<1>2. QED
  BY <1>1 DEF Phases, Callers, Places

\* The actions of TurnGate, in the names of this module.
LEMMA GateLeaves ==
    ASSUME NEW r \in Requests, GateMove(r), Phases' = [Phases EXCEPT ![r] = Phase(r)'],
           UNCHANGED <<creator, Callers, Places>>
    PROVE  Gate!GateNext \/ Phases' = Phases
<1>1. CASE Phase(r)' = Phase(r)
  BY <1>1 DEF Phases
<1>2. CASE Phase(r)' # Phase(r)
  <2>1. Gate!Leave(r) \/ Gate!Confirm(r) \/ Gate!Reject(r)
    BY <1>2 DEF GateMove, Gate!Leave, Gate!Confirm, Gate!Reject, Gate!Enter, Phases, Callers, Places,
       CallerOf, PlaceOf
  <2>2. QED
    BY <2>1 DEF Gate!GateNext
<1>3. QED
  BY <1>1, <1>2

LEMMA GateRuns ==
    ASSUME NEW r \in Requests, Phase(r) = "asked", PlaceOf(r) \in Threads,
           creator[PlaceOf(r)] = CallerOf(r),
           \A q \in Requests : Phase(q) = "running" => PlaceOf(q) # PlaceOf(r),
           Phases' = [Phases EXCEPT ![r] = "running"], UNCHANGED <<creator, Callers, Places>>
    PROVE  Gate!GateNext
<1>1. Gate!Run(r)
  BY DEF Gate!Run, Gate!Enter, Phases, Callers, Places, CallerOf, PlaceOf
<1>2. QED
  BY <1>1 DEF Gate!GateNext

LEMMA GateOpens ==
    ASSUME NEW r \in Requests, NEW t \in Threads, Phase(r) = "asked", creator[t] = NoClient,
           \E p \in {"asked", "running"} : Phases' = [Phases EXCEPT ![r] = p],
           creator' = [creator EXCEPT ![t] = CallerOf(r)],
           Places' = [Places EXCEPT ![r] = t], Callers' = Callers
    PROVE  Gate!GateNext
<1>1. Gate!Open(r, t)
  BY DEF Gate!Open, Gate!Enter, Phases, Callers, Places, CallerOf, PlaceOf
<1>2. QED
  BY <1>1 DEF Gate!GateNext

LEMMA GateAsks ==
    ASSUME NEW r \in Requests, NEW c \in Clients, NEW t \in Threads \cup {NoThread},
           Phase(r) = "away", Phases' = [Phases EXCEPT ![r] = "asked"],
           Callers' = [Callers EXCEPT ![r] = c], Places' = [Places EXCEPT ![r] = t],
           creator' = creator
    PROVE  Gate!GateNext
<1>1. Gate!Ask(r, c, t)
  BY DEF Gate!Ask, Gate!Enter, Phases, Callers, Places, CallerOf, PlaceOf
<1>2. QED
  BY <1>1 DEF Gate!GateNext

\* A step of the server, as TurnGate sees it.
GateStep == Gate!GateNext \/ UNCHANGED <<creator, Callers, Places, Phases>>

LEMMA MoveInGate ==
    ASSUME ServerInv, OwnerInv, NEW r \in Requests, StepOf(r), GateMove(r),
           UNCHANGED <<requestVars, creator>>
    PROVE  GateStep
<1>1. Phases' = [Phases EXCEPT ![r] = Phase(r)']
  BY StepKeepsOthers, StepKeepsOwner, GateFrame
<1>2. UNCHANGED <<creator, Callers, Places>>
  BY DEF requestVars, Callers, Places, CallerOf, PlaceOf, OfTurnRequest
<1>3. QED
  BY <1>1, <1>2, GateLeaves DEF GateStep

LEMMA ArrivalInGate ==
    ASSUME ServerInv, OwnerInv, NEW r \in Requests, NEW h \in Handlers, NEW c \in Clients,
           NEW t \in IF h \in OwnedHandlers THEN Threads ELSE {NoThread}, Arrive(r, h, c, t)
    PROVE  GateStep
<1>1. /\ TasksTypeOK /\ OwnerFits(r) /\ OthersKeep(r) /\ OwnershipKept(r)
  BY ServerInvContext, ArriveStep, ArrivalKeepsOwner DEF ContextOf, OwnerInv, StepOK
<1>2. /\ pc[r] = "idle" /\ handler[r] \notin TurnHandlers /\ creator' = creator
      /\ handler'[r] = h /\ client'[r] = c /\ thread'[r] = t
      /\ pc'[r] \in {"checking", "admission"}
  BY <1>1 DEF Arrive, Goto, OwnerFits, TasksTypeOK, TurnHandlers, PlainTurns, PlainOpeners,
     PlainResumers, StreamTurns, backendVars
<1>3. /\ Phases' = [Phases EXCEPT ![r] = Phase(r)']
      /\ Callers' = [Callers EXCEPT ![r] = CallerOf(r)']
      /\ Places' = [Places EXCEPT ![r] = PlaceOf(r)']
  BY <1>1, GateFrame
<1>4. Phase(r) = "away" /\ CallerOf(r) = NoClient /\ PlaceOf(r) = NoThread
  BY <1>2 DEF Phase, CallerOf, PlaceOf, OfTurnRequest
<1>5. CASE h \in TurnHandlers
  <2>1. Phase(r)' = "asked" /\ CallerOf(r)' = c /\ PlaceOf(r)' = t
    BY <1>2, <1>5 DEF Phase, CallerOf, PlaceOf, OfTurnRequest
  <2>2. QED
    BY <1>2, <1>3, <1>4, <2>1, GateAsks DEF GateStep
<1>6. CASE h \notin TurnHandlers
  <2>1. Phase(r)' = "away" /\ CallerOf(r)' = NoClient /\ PlaceOf(r)' = NoThread
    BY <1>2, <1>6 DEF Phase, CallerOf, PlaceOf, OfTurnRequest
  <2>2. QED
    BY <1>2, <1>3, <1>4, <2>1 DEF GateStep, Phases, Callers, Places
<1>7. QED
  BY <1>5, <1>6

LEMMA OpeningInGate ==
    ASSUME ServerInv, OwnerInv, NEW r \in Requests, NEW t \in Threads,
           Chat(r, t) \/ ThreadStarted(r, t)
    PROVE  GateStep
<1>1. TasksTypeOK /\ OthersKeep(r) /\ OwnershipKept(r)
  BY ServerInvContext, ChatStep, ThreadStartedStep, OpeningKeepsOwner DEF ContextOf, StepOK
<1>2. /\ pc[r] = "opening" /\ handler[r] \in TurnHandlers /\ creator[t] = NoClient
      /\ handler' = handler /\ client' = client /\ thread' = [thread EXCEPT ![r] = t]
      /\ creator' = [creator EXCEPT ![t] = client[r]]
  BY OpeningKeepsOwner DEF Chat, ThreadStarted, OwnerInv, Openers, TurnHandlers, PlainTurns,
     StreamTurns
<1>3. pc'[r] \in {"turn", "announcing"}
  BY <1>1, OpeningLeads DEF TasksTypeOK
<1>4. /\ Phases' = [Phases EXCEPT ![r] = Phase(r)']
      /\ Callers' = [Callers EXCEPT ![r] = CallerOf(r)']
      /\ Places' = [Places EXCEPT ![r] = PlaceOf(r)']
  BY <1>1, GateFrame
<1>5. /\ Phase(r) = "asked" /\ CallerOf(r) = client[r]
      /\ Phase(r)' \in {"asked", "running"} /\ PlaceOf(r)' = t
  BY <1>1, <1>2, <1>3 DEF Phase, CallerOf, PlaceOf, OfTurnRequest, TasksTypeOK
<1>6. Callers' = Callers
  BY <1>2 DEF Callers, CallerOf, OfTurnRequest
<1>7. QED
  BY <1>2, <1>4, <1>5, <1>6, GateOpens DEF GateStep

\* A turn that is asked for is the only one of its thread.
LEMMA RequestingInGate ==
    ASSUME ServerInv, OwnerInv, NEW r \in Requests, StepOf(r), RequestsTurn(r)
    PROVE  GateStep
<1>1. /\ TasksTypeOK /\ HandlerFits(r) /\ LockFits(r) /\ OwnerFits(r)
      /\ OthersKeep(r) /\ OwnershipKept(r)
  BY ServerInvContext, StepKeepsOthers, StepKeepsOwner DEF ContextOf, TaskInv, OwnerInv
<1>2. /\ pc[r] \in {"resuming", "announcing"} /\ pc'[r] \in {"starting", "turn"}
      /\ UNCHANGED <<handler, client, thread, creator>>
  BY <1>1 DEF RequestsTurn, requestVars, TasksTypeOK
<1>3. /\ handler[r] \in TurnHandlers /\ handler[r] \in Openers \cup Resumers
      /\ thread[r] \in Threads
  BY <1>1, <1>2 DEF HandlerFits, LockFits, Locked, HoldsItsLock, Yielded, Streams, StreamTurns,
     TurnHandlers, PlainTurns, Openers, Resumers
<1>4. Entitled(r)
  BY <1>1, <1>2, <1>3 DEF OwnerFits, Outside
<1>5. /\ Phase(r) = "asked" /\ Phase(r)' = "running"
      /\ PlaceOf(r) = thread[r] /\ CallerOf(r) = client[r]
  BY <1>2, <1>3 DEF Phase, PlaceOf, CallerOf, OfTurnRequest
<1>6. ASSUME NEW q \in Requests, Phase(q) = "running"
      PROVE  PlaceOf(q) # PlaceOf(r)
  <2>1. pc[q] \in InTurn /\ handler[q] \in TurnHandlers
    BY <1>6 DEF Phase, InTurn
  <2>2. q # r
    BY <1>2, <2>1 DEF InTurn
  <2>3. thread[q] # thread[r]
    BY <1>2, <2>1, <2>2, ClaimsAreAlone DEF Claiming
  <2>4. QED
    BY <1>5, <2>1, <2>3 DEF PlaceOf, OfTurnRequest
<1>7. Phases' = [Phases EXCEPT ![r] = "running"]
  BY <1>1, <1>5, GateFrame
<1>8. UNCHANGED <<creator, Callers, Places>>
  BY <1>2 DEF Callers, Places, CallerOf, PlaceOf, OfTurnRequest
<1>9. QED
  BY <1>3, <1>4, <1>5, <1>6, <1>7, <1>8, GateRuns DEF Entitled, GateStep

LEMMA RestartInGate ==
    ASSUME ServerInv, OwnerInv, Restart
    PROVE  GateStep
<1>1. UNCHANGED <<creator, Callers, Places>>
  BY DEF Restart, threadVars, requestVars, Callers, Places, CallerOf, PlaceOf, OfTurnRequest
<1>2. ASSUME NEW r \in Requests
      PROVE  Phase(r)' = IF Phase(r) \in {"asked", "running", "ended"} THEN "refused" ELSE Phase(r)
  <2>1. OwnerFits(r) /\ pc[r] \in Locations
    BY ServerInvContext DEF OwnerInv, ContextOf, TasksTypeOK
  <2>2. /\ pc'[r] = IF pc[r] = "idle" THEN "idle" ELSE "done"
        /\ answer'[r] = IF pc[r] \in {"idle", "done", "zombie"} THEN answer[r] ELSE "lost"
        /\ handler'[r] = handler[r]
    BY DEF Restart, requestVars
  <2>3. QED
    BY <2>1, <2>2 DEF Phase, OwnerFits
<1>3. Gate!Crash
  BY <1>1, <1>2 DEF Gate!Crash, Phases, Callers, Places, CallerOf, PlaceOf
<1>4. QED
  BY <1>3 DEF GateStep, Gate!GateNext

LEMMA TaskStepInGate ==
    ASSUME ServerInv, OwnerInv, NEW r \in Requests, StepOf(r)
    PROVE  GateStep
<1>1. OwnerFits(r) /\ TasksTypeOK /\ HandlerFits(r)
  BY ServerInvContext DEF OwnerInv, ContextOf, TaskInv
<1>2. CASE \E h \in Handlers, c \in Clients :
              \E t \in IF h \in OwnedHandlers THEN Threads ELSE {NoThread} : Arrive(r, h, c, t)
  BY <1>2, ArrivalInGate
<1>3. CASE \E t \in Threads : Chat(r, t) \/ ThreadStarted(r, t)
  BY <1>3, OpeningInGate
<1>4. CASE ThreadResumed(r) \/ (ChunkSent(r) /\ pc[r] = "announcing")
  <2>1. RequestsTurn(r)
    BY <1>4 DEF ThreadResumed, ChunkSent, RequestsTurn, Goto, threadVars, serverVars, registryVars
  <2>2. QED
    BY <2>1, RequestingInGate
<1>5. CASE ChunkSent(r) /\ pc[r] # "announcing"
  <2>1. UNCHANGED <<requestVars, creator>>
    BY <1>5 DEF ChunkSent, threadVars
  <2>2. \/ pc[r] = "relaying" /\ pc' = [pc EXCEPT ![r] = "turn"]
        \/ /\ pc[r] \in {"failing", "finishing"} /\ pc' = [pc EXCEPT ![r] = "done"]
           /\ answer' = [answer EXCEPT ![r] = IF pc[r] = "finishing" THEN "ok" ELSE "codexError"]
    BY <1>5 DEF ChunkSent, Yielded, Goto, Finish, Say
  <2>3. handler[r] \in TurnHandlers
    BY <1>1, <2>2 DEF HandlerFits, Yielded, Streams, TurnHandlers
  <2>4. GateMove(r)
    BY <1>1, <2>1, <2>2, <2>3 DEF GateMove, Phase, TasksTypeOK, requestVars
  <2>5. QED
    BY <2>1, <2>4, MoveInGate
<1>6. CASE TurnBegins(r) \/ TurnEnds(r) \/ DeadlinePasses(r) \/ StrayStep(r)
  <2>1. UNCHANGED <<requestVars, creator, pc, answer>>
    BY <1>6 DEF TurnBegins, TurnEnds, DeadlinePasses, StrayStep, StrayLands, StrayEnds, serverVars, threadVars, backendVars
  <2>2. GateMove(r)
    BY <2>1 DEF GateMove, Phase, requestVars
  <2>3. QED
    BY <2>1, <2>2, MoveInGate
<1>7. CASE ServerStep(r)
  <2>1. GateMove(r)
    BY <1>1, <1>7, TurnStepsInGate, OtherStepsInGate DEF ServerStep
  <2>2. UNCHANGED <<requestVars, creator>>
    BY <1>7 DEF backendVars, threadVars, ServerStep, CheckOwner, Refuse, AdmitOpener, AdmitResumer,
       LockGranted, TurnRegistered, RunReturns, PlainTimeout, StreamTimeout, StreamEnds,
       GeneratorFinalised, Save, SaveFails, Mark, MarkFails, LookUpTurn
  <2>3. QED
    BY <2>1, <2>2, MoveInGate
<1>8. CASE ClientStep(r) /\ ~ChunkSent(r)
  <2>1. GateMove(r)
    BY <1>1, <1>8, TurnStepsInGate DEF ClientStep
  <2>2. UNCHANGED <<requestVars, creator>>
    BY <1>8 DEF backendVars, ClientStep, ChunkSentLate, ResponseEnds, DisconnectInCodex,
       DisconnectInYield, DisconnectInSave
  <2>3. QED
    BY <2>1, <2>2, MoveInGate
<1>9. CASE \/ StreamResumed(r) \/ RelayEvent(r) \/ RunRaises(r) \/ StreamRaises(r)
           \/ Archived(r) \/ ArchiveFails(r) \/ Interrupt(r) \/ InterruptRaises(r)
  <2>1. GateMove(r)
    BY <1>1, <1>9, TurnStepsInGate, OtherStepsInGate
  <2>2. UNCHANGED <<requestVars, creator>>
    BY <1>9 DEF backendVars, threadVars, StreamResumed, RelayEvent, RunRaises, StreamRaises,
       Archived, ArchiveThread, ArchiveFails, Interrupt, InterruptRaises
  <2>3. QED
    BY <2>1, <2>2, MoveInGate
<1>10. QED
  BY <1>2, <1>3, <1>4, <1>5, <1>6, <1>7, <1>8, <1>9 DEF StepOf, ClientStep, BackendStep

LEMMA NextInGate == ServerInv /\ OwnerInv /\ [Next]_vars => [Gate!GateNext]_<<creator, Callers, Places, Phases>>
<1> SUFFICES ASSUME ServerInv, OwnerInv, [Next]_vars
             PROVE  GateStep
  BY DEF GateStep
<1>1. CASE UNCHANGED vars
  BY <1>1 DEF vars, serverVars, backendVars, requestVars, GateStep, Callers, Places, Phases,
     CallerOf, PlaceOf, OfTurnRequest, Phase
<1>2. QED
  BY <1>1, NextIsStepOf, TaskStepInGate, RestartInGate DEF AllServed

LEMMA InitInGate == Init => Gate!GateInit
<1> SUFFICES ASSUME Init
             PROVE  Gate!GateInit
  OBVIOUS
<1>1. creator \in [Threads -> Clients \cup {NoClient}]
  BY InitServerInv DEF ServerInv, TypeOK, BackendTypeOK
<1>2. \A r \in Requests : handler[r] \notin TurnHandlers /\ pc[r] = "idle"
  BY DEF Init, TurnHandlers, PlainTurns, PlainOpeners, PlainResumers, StreamTurns
<1>3. QED
  BY <1>1, <1>2 DEF Gate!GateInit, OfTurnRequest, Phase

\* The handlers keep TurnGate's promise, with every limit, lock, deadline,
\* disconnect and restart in between.
THEOREM HandlersImplementGate == Spec => TurnGateSpec
<1>1. [Gate!GateNext]_<<creator, Callers, Places, Phases>> => [Gate!GateNext]_(Gate!gateVars)
  BY DEF Gate!gateVars, Callers, Places, Phases, CallerOf, PlaceOf
<1>2. ServerInv /\ OwnerInv /\ [Next]_vars => [Gate!GateNext]_(Gate!gateVars)
  BY <1>1, NextInGate
<1>3. QED
  BY <1>2, InitInGate, ServerInvariant, OwnerInvariant, PTL DEF Spec, TurnGateSpec, Gate!GateSpec
----------------------------------------------------------------------------
(* What TurnGate promises, whoever keeps to it. *)

\* The invariant of TurnGate, in the names of this module.
GateFits ==
    /\ creator \in [Threads -> Clients \cup {NoClient}]
    /\ Callers \in [Requests -> Clients \cup {NoClient}]
    /\ Places \in [Requests -> Threads \cup {NoThread}]
    /\ Phases \in [Requests -> Gate!Phases]
    /\ \A q \in Requests : Phases[q] # "away" => Callers[q] \in Clients
    /\ \A q \in Requests : Phases[q] = "running" =>
          /\ Places[q] \in Threads
          /\ creator[Places[q]] = Callers[q]
          /\ \A o \in Requests \ {q} : Phases[o] = "running" => Places[o] # Places[q]

LEMMA GateInvIsGateFits == (Gate!GateInv <=> GateFits) /\ (Gate!GateInv' <=> GateFits')
BY DEF Gate!GateInv, Gate!TurnsApart, GateFits, Phases, Callers, Places, CallerOf, PlaceOf

LEMMA GateStepKeepsInv ==
    ASSUME Gate!GateInv, Gate!GateNext
    PROVE  Gate!GateInv'
<1>1. GateFits
  BY GateInvIsGateFits
<1>2. SUFFICES GateFits'
  BY GateInvIsGateFits
<1>3. ASSUME NEW r \in Requests, NEW c \in Clients, NEW t \in Threads \cup {NoThread},
             Gate!Ask(r, c, t)
      PROVE  GateFits'
  <2>1. /\ Phases' = [Phases EXCEPT ![r] = "asked"]
        /\ Callers' = [Callers EXCEPT ![r] = c]
        /\ Places' = [Places EXCEPT ![r] = t]
        /\ creator' = creator
    BY <1>3 DEF Gate!Ask, Gate!Enter, Phases, Callers, Places, CallerOf, PlaceOf
  <2>2. QED
    BY <1>1, <2>1 DEF GateFits, Gate!Phases
<1>4. ASSUME NEW r \in Requests, NEW t \in Threads, Gate!Open(r, t)
      PROVE  GateFits'
  <2>1. /\ Phases[r] = "asked" /\ creator[t] = NoClient
        /\ \E p \in {"asked", "running"} : Phases' = [Phases EXCEPT ![r] = p]
        /\ creator' = [creator EXCEPT ![t] = Callers[r]]
        /\ Places' = [Places EXCEPT ![r] = t]
        /\ Callers' = Callers
    BY <1>4 DEF Gate!Open, Gate!Enter, Phases, Callers, Places, CallerOf, PlaceOf
  <2>2. \A q \in Requests : Phases[q] = "running" => Places[q] # t
    BY <1>1, <2>1, DomainAssumption DEF GateFits
  <2>3. QED
    BY <1>1, <2>1, <2>2 DEF GateFits, Gate!Phases
<1>5. ASSUME NEW r \in Requests, Gate!Run(r)
      PROVE  GateFits'
  <2>1. /\ Places[r] \in Threads /\ creator[Places[r]] = Callers[r]
        /\ \A q \in Requests : Phases[q] = "running" => Places[q] # Places[r]
        /\ Phases[r] = "asked" /\ Phases' = [Phases EXCEPT ![r] = "running"]
        /\ UNCHANGED <<creator, Callers, Places>>
    BY <1>5 DEF Gate!Run, Gate!Enter, Phases, Callers, Places, CallerOf, PlaceOf
  <2>2. QED
    BY <1>1, <2>1 DEF GateFits, Gate!Phases
<1>6. ASSUME NEW r \in Requests, Gate!Leave(r) \/ Gate!Confirm(r) \/ Gate!Reject(r)
      PROVE  GateFits'
  <2>1. /\ Phases[r] # "away"
        /\ \E p \in {"ended", "ok", "refused"} : Phases' = [Phases EXCEPT ![r] = p]
        /\ UNCHANGED <<creator, Callers, Places>>
    BY <1>6 DEF Gate!Leave, Gate!Confirm, Gate!Reject, Gate!Enter, Phases, Callers, Places,
       CallerOf, PlaceOf
  <2>2. QED
    BY <1>1, <2>1 DEF GateFits, Gate!Phases
<1>7. CASE Gate!Crash
  <2>1. /\ Phases' = [q \in Requests |-> IF Phases[q] \in {"asked", "running", "ended"}
                                         THEN "refused" ELSE Phases[q]]
        /\ UNCHANGED <<creator, Callers, Places>>
    BY <1>7 DEF Gate!Crash, Phases, Callers, Places, CallerOf, PlaceOf
  <2>2. QED
    BY <1>1, <2>1 DEF GateFits, Gate!Phases
<1>8. QED
  BY <1>3, <1>4, <1>5, <1>6, <1>7 DEF Gate!GateNext

\* What the handlers are held to (app/routes/threads.py and chat.py) is worth
\* something: in every behaviour that TurnGate allows, turns run on threads of
\* their callers and apart from each other.
THEOREM GateKeepsTurnsApart == TurnGateSpec => []Gate!TurnsApart
<1>1. Gate!GateInit => Gate!GateInv
  BY DEF Gate!GateInit, Gate!GateInv, Gate!TurnsApart, Gate!Phases
<1>2. Gate!GateInv /\ UNCHANGED Gate!gateVars => Gate!GateInv'
  BY DEF Gate!gateVars, Gate!GateInv, Gate!TurnsApart
<1>3. Gate!GateInv => Gate!TurnsApart
  BY DEF Gate!GateInv
<1>4. QED
  BY <1>1, <1>2, <1>3, GateStepKeepsInv, PTL DEF TurnGateSpec, Gate!GateSpec
=============================================================================
