---------------------------- MODULE CodexServer ----------------------------
(***************************************************************************)
(* The request handlers of app/routes/threads.py and app/routes/chat.py,   *)
(* from an authenticated request to its answer, with what they share: the  *)
(* job limiter, the per-thread locks, the turn registry, the two ownership *)
(* tables and the Codex backend.                                           *)
(*                                                                         *)
(* One asyncio task runs per request.  A step of the model is what a task  *)
(* does between two points at which it really suspends; pc[r] names the    *)
(* point where the task of r is suspended.  Requests that fail validation  *)
(* change nothing and are left out.                                        *)
(***************************************************************************)
EXTENDS JobLimiter, ThreadLocks, TurnRegistry, ThreadStore, CodexBackend

CONSTANTS
    Handlers,    \* the handlers that clients call, a subset of AllHandlers
    Existing,    \* the threads and conversations the tables start with
    MaxRestarts  \* bound on the number of process restarts

\* Handlers, by the name of the function that serves the endpoint.
PlainOpeners == {"chat", "start_conversation", "create_thread"}
PlainResumers == {"continue_conversation", "post_message"}
PlainTurns == PlainOpeners \cup PlainResumers
StreamTurns == {"stream_new_thread", "stream_existing_thread"}
Openers == PlainOpeners \cup {"stream_new_thread"}
Resumers == PlainResumers \cup {"stream_existing_thread"}
TurnHandlers == PlainTurns \cup StreamTurns
Deleters == {"delete_thread", "delete_conversation"}
AllHandlers == TurnHandlers \cup Deleters \cup {"interrupt_thread"}

\* Handlers that name a thread or conversation, so check its owner first.
OwnedHandlers == Resumers \cup Deleters \cup {"interrupt_thread"}

ConversationHandlers ==
    {"start_conversation", "continue_conversation", "delete_conversation"}

TableOf(h) == IF h \in ConversationHandlers THEN "chat_conversations"
                                            ELSE "codex_threads"

\* The sandbox a handler starts its thread with, or resumes one with.
ModeOf(h) == CASE h = "chat" -> "ephemeral"
               [] h \in {"start_conversation", "continue_conversation"} -> "read_only"
               [] OTHER -> "agent"

ASSUME ServerAssumption ==
    /\ Handlers \subseteq AllHandlers
    /\ Existing \subseteq Threads
    /\ MaxRestarts \in Nat

VARIABLES
    pc,        \* pc[r]: where the task of r is suspended
    handler,   \* handler[r]: the handler that serves r
    client,    \* client[r]: principal.client_id
    thread,    \* thread[r]: the thread or conversation id r is about
    victim,    \* victim[r]: the turn whose handle an interrupt got hold of
    late,      \* the requests whose CODEX_REQUEST_TIMEOUT has passed
    answer,    \* answer[r]: what the client of r was told last
    restarts   \* restarts so far

requestVars == <<handler, client, thread>>
serverVars == <<victim, late, answer, restarts>>
vars == <<pc, requestVars, serverVars, limiterVars, lockVars, registryVars,
          storeVars, backendVars>>

(***************************************************************************)
(* pc: "idle" before the request, "checking" the owner in the database,    *)
(* "admission" before the limiter, then                                    *)
(*   in CodexService: "opening" (thread_start), "waiting" for the lock of  *)
(*     the thread, "resuming" (thread_resume), "starting" (thread.turn of  *)
(*     a stream), "turn" (thread.run, or the events of a stream);          *)
(*   with a stream's generator suspended at a yield and its chunk on the   *)
(*     way to the client: "announcing" (status), "relaying" (an event),    *)
(*     "failing" (error), "finishing" (completed), "closing" (the last     *)
(*     chunk, or the finalisation of a response that was dropped);         *)
(*   "saving" (the turn's row), "archiving" (thread_archive), "marking"    *)
(*     (the archived or deleted row), "interrupting" before the registry   *)
(*     lookup, "signalling" (handle.interrupt());                          *)
(*   "zombie": answered and out of its slot, but the generator of the      *)
(*     stream has not been finalised; "done".                              *)
(***************************************************************************)
InCodex == {"opening", "waiting", "resuming", "starting", "turn"}
Yielded == {"announcing", "relaying", "failing", "finishing"}
Locations == InCodex \cup Yielded \cup
    {"idle", "checking", "admission", "closing", "saving", "archiving", "marking",
     "interrupting", "signalling", "zombie", "done"}

Answers == {"none", "ok", "notFound", "busy", "timeout", "codexError",
            "internalError", "brokenStream", "gone", "lost"}

Streams(r) == handler[r] \in StreamTurns

Goto(r, l) == pc' = [pc EXCEPT ![r] = l]
Say(r, a) == answer' = [answer EXCEPT ![r] = a]
Finish(r, a) == Goto(r, "done") /\ Say(r, a)

\* Any number of rows may be there from earlier; each belongs to the client
\* that started the thread, with the sandbox of its table.
Init ==
    /\ LimiterInit /\ LocksInit /\ RegistryInit
    /\ pc = [r \in Requests |-> "idle"]
    /\ handler = [r \in Requests |-> "none"]
    /\ client = [r \in Requests |-> NoClient]
    /\ thread = [r \in Requests |-> NoThread]
    /\ victim = [r \in Requests |-> NoRequest]
    /\ late = {}
    /\ answer = [r \in Requests |-> "none"]
    /\ restarts = 0
    /\ turn = [r \in Requests |-> "none"]
    /\ earlier = [r \in Requests |-> {}]
    /\ archivedThreads = {}
    /\ writes = <<>>
    /\ stray = {} /\ leaving = {} /\ disturbed = {}
    /\ \E owner \in [Existing -> Clients], table \in [Existing -> Tables] :
          /\ creator = [t \in Threads |-> IF t \in Existing THEN owner[t] ELSE NoClient]
          /\ mode = [t \in Threads |->
                        IF t \notin Existing THEN "none"
                        ELSE IF table[t] = "codex_threads" THEN "agent" ELSE "read_only"]
          /\ rows = [tb \in Tables |-> [t \in Threads |->
                        IF t \in Existing /\ table[t] = tb THEN NewRow(owner[t]) ELSE NoRow]]
----------------------------------------------------------------------------
(* From the request to the limiter. *)

\* A request of client c arrives, about any thread id the client can name.
Arrive(r, h, c, t) ==
    /\ pc[r] = "idle"
    /\ handler' = [handler EXCEPT ![r] = h]
    /\ client' = [client EXCEPT ![r] = c]
    /\ thread' = [thread EXCEPT ![r] = t]
    /\ Goto(r, IF h \in OwnedHandlers THEN "checking" ELSE "admission")
    /\ UNCHANGED <<serverVars, limiterVars, lockVars, registryVars, storeVars, backendVars>>

\* The owners a SELECT may find for t: the one in its row, and that of an INSERT
\* which a stray worker has not committed yet.
OwnersSeen(table, t) ==
    {rows[table][t].owner} \cup
    {client[q] : q \in {s \in stray : /\ handler[s] \in Openers
                                     /\ TableOf(handler[s]) = table
                                     /\ thread[s] = t}}

\* Mutant: only a missing row is refused.
CheckExists(r) ==
    /\ pc[r] = "checking"
    /\ \E owner \in OwnersSeen(TableOf(handler[r]), thread[r]) :
          IF owner # NoClient
          THEN /\ Goto(r, CASE handler[r] \in TurnHandlers -> "admission"
                            [] handler[r] \in Deleters -> "archiving"
                            [] OTHER -> "interrupting")
               /\ UNCHANGED answer
          ELSE Finish(r, "notFound")
    /\ MeetStrays(r)
    /\ UNCHANGED <<requestVars, victim, late, restarts, limiterVars, lockVars,
                   registryVars, rows, writes, stray, leaving, backendVars>>

\* Mutant: a missing row is nobody's, so it is let through.
CheckNotForeign(r) ==
    /\ pc[r] = "checking"
    /\ \E owner \in OwnersSeen(TableOf(handler[r]), thread[r]) :
          IF owner \in {client[r], NoClient}
          THEN /\ Goto(r, CASE handler[r] \in TurnHandlers -> "admission"
                            [] handler[r] \in Deleters -> "archiving"
                            [] OTHER -> "interrupting")
               /\ UNCHANGED answer
          ELSE Finish(r, "notFound")
    /\ MeetStrays(r)
    /\ UNCHANGED <<requestVars, victim, late, restarts, limiterVars, lockVars,
                   registryVars, rows, writes, stray, leaving, backendVars>>

\* Mutant: the owner is looked up in both tables.
CheckOwnerAnywhere(r) ==
    /\ pc[r] = "checking"
    /\ \E owner \in UNION {OwnersSeen(table, thread[r]) : table \in Tables} :
          IF owner = client[r]
          THEN /\ Goto(r, CASE handler[r] \in TurnHandlers -> "admission"
                            [] handler[r] \in Deleters -> "archiving"
                            [] OTHER -> "interrupting")
               /\ UNCHANGED answer
          ELSE Finish(r, "notFound")
    /\ MeetStrays(r)
    /\ UNCHANGED <<requestVars, victim, late, restarts, limiterVars, lockVars,
                   registryVars, rows, writes, stray, leaving, backendVars>>

\* _require_owned_thread, _require_owned_conversation: a missing row and a row
\* of somebody else give the same 404.  Whether it is archived is not asked.
CheckOwner(r) ==
    /\ pc[r] = "checking"
    /\ \E owner \in OwnersSeen(TableOf(handler[r]), thread[r]) :
          IF owner = client[r]
          THEN /\ Goto(r, CASE handler[r] \in TurnHandlers -> "admission"
                            [] handler[r] \in Deleters -> "archiving"
                            [] OTHER -> "interrupting")
               /\ UNCHANGED answer
          ELSE Finish(r, "notFound")
    /\ MeetStrays(r)
    /\ UNCHANGED <<requestVars, victim, late, restarts, limiterVars, lockVars,
                   registryVars, rows, writes, stray, leaving, backendVars>>

\* slot() at capacity: 429, or, for a stream, whose 200 and headers are out by
\* then, a response that breaks off.
Refuse(r) ==
    /\ pc[r] = "admission"
    /\ AtCapacity
    /\ Finish(r, IF Streams(r) THEN "brokenStream" ELSE "busy")
    /\ UNCHANGED <<requestVars, victim, late, restarts, limiterVars, lockVars,
                   registryVars, storeVars, backendVars>>

\* Inside the slot a new thread is asked for.
AdmitOpener(r) ==
    /\ pc[r] = "admission"
    /\ handler[r] \in Openers
    /\ EnterSlot(r)
    /\ Goto(r, "opening")
    /\ UNCHANGED <<requestVars, serverVars, lockVars, registryVars, storeVars, backendVars>>

\* What a task does once it holds the lock of its thread.
Proceed(r) ==
    LET next == CASE handler[r] \in Resumers -> "resuming"
                  [] handler[r] = "stream_new_thread" -> "announcing"
                  [] OTHER -> "turn"
    IN  /\ Goto(r, next)
        /\ IF next = "turn" THEN RequestTurn(r) ELSE UNCHANGED turn

\* Mutant: _lock_for makes a new lock for every request.
TakeOwnLock(r, t) ==
    /\ Acquire(r, t)
    /\ Proceed(r)

\* lock.acquire(): the task goes on at once, or suspends.
TakeLock(r, t) ==
    /\ Acquire(r, t)
    /\ IF Queue(t) = {} THEN Proceed(r) ELSE Goto(r, "waiting") /\ UNCHANGED turn

\* Inside the slot an existing thread's lock is asked for.
AdmitResumer(r) ==
    /\ pc[r] = "admission"
    /\ handler[r] \in Resumers
    /\ EnterSlot(r)
    /\ TakeLock(r, thread[r])
    /\ UNCHANGED <<requestVars, serverVars, registryVars, storeVars, threadVars, earlier>>

\* The lock of the thread is free and r is the first that waits for it.
LockGranted(r) ==
    /\ pc[r] = "waiting"
    /\ WakeUp(r)
    /\ Proceed(r)
    /\ UNCHANGED <<requestVars, serverVars, limiterVars, registryVars, storeVars,
                   threadVars, earlier>>
----------------------------------------------------------------------------
(* Turns. *)

\* chat(): an ephemeral thread, which no lock guards.
Chat(r, t) ==
    /\ pc[r] = "opening"
    /\ handler[r] = "chat"
    /\ StartThread(t, "ephemeral", client[r])
    /\ thread' = [thread EXCEPT ![r] = t]
    /\ RequestTurn(r)
    /\ Goto(r, "turn")
    /\ UNCHANGED <<handler, client, serverVars, limiterVars, lockVars, registryVars,
                   storeVars, earlier>>

\* chat_start(), start_thread() and stream_turn(None): thread_start returns,
\* and the lock of the new thread is taken.
ThreadStarted(r, t) ==
    /\ pc[r] = "opening"
    /\ handler[r] \in Openers \ {"chat"}
    /\ StartThread(t, ModeOf(handler[r]), client[r])
    /\ thread' = [thread EXCEPT ![r] = t]
    /\ TakeLock(r, t)
    /\ UNCHANGED <<handler, client, serverVars, limiterVars, registryVars, storeVars, earlier>>

\* chat_resume() and resume_thread(): thread_resume returns, thread.run begins.
ThreadResumed(r) ==
    /\ pc[r] = "resuming"
    /\ handler[r] \in PlainResumers
    /\ RequestTurn(r)
    /\ Goto(r, "turn")
    /\ UNCHANGED <<requestVars, serverVars, limiterVars, lockVars, registryVars, storeVars,
                   threadVars, earlier>>

\* stream_turn(): thread_resume returns, the "started" status is yielded.
StreamResumed(r) ==
    /\ pc[r] = "resuming"
    /\ Streams(r)
    /\ Goto(r, "announcing")
    /\ UNCHANGED <<requestVars, serverVars, limiterVars, lockVars, registryVars, storeVars,
                   backendVars>>

\* stream_turn(): thread.turn returns and its handle is registered.
TurnRegistered(r) ==
    /\ pc[r] = "starting"
    /\ turn[r] \in Begun
    /\ Register(r, thread[r])
    /\ Goto(r, "turn")
    /\ UNCHANGED <<requestVars, serverVars, limiterVars, lockVars, storeVars, backendVars>>

\* The backend begins a turn it was asked for, even if nobody awaits it any more.
TurnBegins(r) ==
    /\ turn[r] = "requested"
    /\ turn' = [turn EXCEPT ![r] = "running"]
    /\ earlier' = [earlier EXCEPT ![r] =
                      {q \in Requests : thread[q] = thread[r] /\ turn[q] \in Begun}]
    /\ UNCHANGED <<pc, requestVars, serverVars, limiterVars, lockVars, registryVars, storeVars,
                   threadVars>>

TurnEnds(r) ==
    /\ turn[r] = "running"
    /\ \E s \in {"completed", "failed"} : turn' = [turn EXCEPT ![r] = s]
    /\ UNCHANGED <<pc, requestVars, serverVars, limiterVars, lockVars, registryVars, storeVars,
                   threadVars, earlier>>
----------------------------------------------------------------------------
(* Plain requests: thread.run inside wait_for inside slot(). *)

\* The exits of "async with lock" and of "async with slot()", in one step.
LeaveLockAndSlot(r) == LeaveLock(r) /\ ExitSlot(r)

\* Mutant: the row of a resumed thread is not touched.
RunReturnsUnsaved(r) ==
    /\ pc[r] = "turn"
    /\ ~Streams(r)
    /\ turn[r] \in {"completed", "interrupted"}
    /\ LeaveLockAndSlot(r)
    /\ IF handler[r] \in PlainResumers \cup {"chat"}
       THEN Finish(r, "ok") /\ UNCHANGED writes
       ELSE Goto(r, "saving") /\ AskToWrite(r) /\ UNCHANGED answer
    /\ UNCHANGED <<requestVars, victim, late, restarts, registryVars, rows, strayVars,
                   backendVars>>

\* thread.run returns: lock and slot are left, then the row is written; the
\* place in the database queue is taken in the same step.
RunReturns(r) ==
    /\ pc[r] = "turn"
    /\ ~Streams(r)
    /\ turn[r] \in {"completed", "interrupted"}
    /\ LeaveLockAndSlot(r)
    /\ IF handler[r] = "chat"
       THEN Finish(r, "ok") /\ UNCHANGED writes
       ELSE Goto(r, "saving") /\ AskToWrite(r) /\ UNCHANGED answer
    /\ UNCHANGED <<requestVars, victim, late, restarts, registryVars, rows, strayVars,
                   backendVars>>

\* Mutant: acquire and release by hand, and no release on an error.
RunRaisesLocked(r) ==
    /\ pc[r] \in {"opening", "resuming", "turn"}
    /\ ~Streams(r)
    /\ ExitSlot(r)
    /\ Finish(r, "codexError")
    /\ UNCHANGED <<requestVars, victim, late, restarts, lockVars, registryVars, storeVars,
                   backendVars>>

\* A CodexError out of the SDK, or the RuntimeError of a turn that failed.
RunRaises(r) ==
    /\ pc[r] \in {"opening", "resuming", "turn"}
    /\ ~Streams(r)
    /\ LeaveLockAndSlot(r)
    /\ Finish(r, "codexError")
    /\ UNCHANGED <<requestVars, victim, late, restarts, registryVars, storeVars, backendVars>>

\* Mutant: wait_for covers thread.run only.
RunTimeout(r) ==
    /\ pc[r] = "turn"
    /\ ~Streams(r)
    /\ r \in late
    /\ LeaveLockAndSlot(r)
    /\ Finish(r, "timeout")
    /\ UNCHANGED <<requestVars, victim, late, restarts, registryVars, storeVars, backendVars>>

\* Mutant: the slot is not left when wait_for gives up.
PlainTimeoutInSlot(r) ==
    /\ pc[r] \in InCodex
    /\ ~Streams(r)
    /\ r \in late
    /\ LeaveLock(r)
    /\ Finish(r, "timeout")
    /\ UNCHANGED <<requestVars, victim, late, restarts, limiterVars, registryVars, storeVars,
                   backendVars>>

\* wait_for gives up.  The turn is only abandoned: nothing interrupts it.
PlainTimeout(r) ==
    /\ pc[r] \in InCodex
    /\ ~Streams(r)
    /\ r \in late
    /\ LeaveLockAndSlot(r)
    /\ Finish(r, "timeout")
    /\ UNCHANGED <<requestVars, victim, late, restarts, registryVars, storeVars, backendVars>>
----------------------------------------------------------------------------
(* Streams: the generator stream_turn inside _stream_response inside slot(). *)

\* Mutant: acquire moved inside the try, so that its failure releases too.
GeneratorEndsReleasing(r) ==
    /\ Unregister(r, thread[r])
    /\ ReleaseIfLocked(r)

\* Mutant: the inner finally is missing.
GeneratorEndsRegistered(r) ==
    /\ UNCHANGED registryVars
    /\ IF pc[r] = "waiting" /\ handler[r] \in Resumers
       THEN LeaveLock(r)
       ELSE ReleaseIfLocked(r)

\* The finally clauses of stream_turn.  A task cancelled while it waits for
\* the lock of an existing thread is outside the try and only leaves the queue.
GeneratorEnds(r) ==
    /\ Unregister(r, thread[r])
    /\ IF pc[r] = "waiting" /\ handler[r] \in Resumers
       THEN LeaveLock(r)
       ELSE ReleaseIfLocked(r)

\* A notification of the turn becomes an event for the client.
RelayEvent(r) ==
    /\ pc[r] = "turn"
    /\ Streams(r)
    /\ Goto(r, "relaying")
    /\ UNCHANGED <<requestVars, serverVars, limiterVars, lockVars, registryVars, storeVars,
                   backendVars>>

\* The events end: the turn is unregistered and the final event is yielded.
\* "completed" makes _stream_response write the row before it relays it.
StreamEnds(r) ==
    /\ pc[r] = "turn"
    /\ Streams(r)
    /\ turn[r] \in Ended
    /\ Unregister(r, thread[r])
    /\ IF turn[r] = "failed"
       THEN Goto(r, "failing") /\ UNCHANGED writes
       ELSE Goto(r, "saving") /\ AskToWrite(r)
    /\ UNCHANGED <<requestVars, serverVars, limiterVars, lockVars, rows, strayVars,
                   backendVars>>

\* A CodexError or RuntimeError inside stream_turn becomes an error event.
StreamRaises(r) ==
    /\ pc[r] \in {"opening", "resuming", "starting", "turn"}
    /\ Streams(r)
    /\ Unregister(r, thread[r])
    /\ Goto(r, "failing")
    /\ UNCHANGED <<requestVars, serverVars, limiterVars, lockVars, storeVars, backendVars>>

\* Mutant: only the events of the turn are awaited with a timeout.
EventsTimeout(r) ==
    /\ pc[r] = "turn"
    /\ Streams(r)
    /\ r \in late
    /\ GeneratorEnds(r)
    /\ Goto(r, "closing")
    /\ Say(r, "timeout")
    /\ UNCHANGED <<requestVars, victim, late, restarts, limiterVars, storeVars, backendVars>>

\* wait_for cancels the generator, which cleans up; the timeout event is sent.
StreamTimeout(r) ==
    /\ pc[r] \in InCodex
    /\ Streams(r)
    /\ r \in late
    /\ GeneratorEnds(r)
    /\ Goto(r, "closing")
    /\ Say(r, "timeout")
    /\ UNCHANGED <<requestVars, victim, late, restarts, limiterVars, storeVars, backendVars>>

\* The client took the chunk and the deadline has not passed: the generator
\* goes on, to the next await or to its end.
ChunkSent(r) ==
    /\ pc[r] \in Yielded
    /\ r \notin late
    /\ CASE pc[r] = "announcing" ->
              /\ RequestTurn(r)
              /\ Goto(r, "starting")
              /\ UNCHANGED <<answer, limiterVars, lockVars, registryVars>>
         [] pc[r] = "relaying" ->
              /\ Goto(r, "turn")
              /\ UNCHANGED <<turn, answer, limiterVars, lockVars, registryVars>>
         [] OTHER ->
              /\ GeneratorEnds(r)
              /\ ExitSlot(r)
              /\ Finish(r, IF pc[r] = "finishing" THEN "ok" ELSE "codexError")
              /\ UNCHANGED turn
    /\ UNCHANGED <<requestVars, victim, late, restarts, storeVars, threadVars, earlier>>

\* The client took the chunk, but at the top of the loop the deadline has
\* passed: _stream_response returns and leaves the generator suspended.
ChunkSentLate(r) ==
    /\ pc[r] \in Yielded
    /\ r \in late
    /\ Goto(r, "closing")
    /\ Say(r, "timeout")
    /\ UNCHANGED <<requestVars, victim, late, restarts, limiterVars, lockVars, registryVars,
                   storeVars, backendVars>>

\* The response ends: the slot is left.  A generator that is still suspended,
\* with its lock and its registered turn, is finalised only later.
ResponseEnds(r) ==
    /\ pc[r] = "closing"
    /\ ExitSlot(r)
    /\ Goto(r, IF want[r] = NoThread THEN "done" ELSE "zombie")
    /\ UNCHANGED <<requestVars, serverVars, lockVars, registryVars, storeVars, backendVars>>

\* Mutant: the slot belongs to the generator as well as to the response.
GeneratorFinalisedInSlot(r) ==
    /\ pc[r] = "zombie"
    /\ GeneratorEnds(r)
    /\ ExitSlot(r)
    /\ Goto(r, "done")
    /\ UNCHANGED <<requestVars, serverVars, storeVars, backendVars>>

\* Mutant: the outer finally is missing.
GeneratorFinalisedLocked(r) ==
    /\ pc[r] = "zombie"
    /\ Unregister(r, thread[r])
    /\ Goto(r, "done")
    /\ UNCHANGED <<requestVars, serverVars, limiterVars, lockVars, storeVars, backendVars>>

GeneratorFinalised(r) ==
    /\ pc[r] = "zombie"
    /\ GeneratorEnds(r)
    /\ Goto(r, "done")
    /\ UNCHANGED <<requestVars, serverVars, limiterVars, storeVars, backendVars>>

\* The client of a stream goes away while the task awaits CodexService: the
\* cancellation unwinds the generator and the slot.
DisconnectInCodex(r) ==
    /\ pc[r] \in InCodex
    /\ Streams(r)
    /\ GeneratorEnds(r)
    /\ ExitSlot(r)
    /\ Finish(r, "gone")
    /\ UNCHANGED <<requestVars, victim, late, restarts, storeVars, backendVars>>

\* It goes away while a chunk is on its way: the response is dropped.
DisconnectInYield(r) ==
    /\ pc[r] \in Yielded
    /\ Goto(r, "closing")
    /\ Say(r, "gone")
    /\ UNCHANGED <<requestVars, victim, late, restarts, limiterVars, lockVars, registryVars,
                   storeVars, backendVars>>
----------------------------------------------------------------------------
(* Rows. *)

\* Mutant: touching a row is an upsert.
UpsertRow(r) ==
    IF handler[r] \in Openers \/ ~HasRow(TableOf(handler[r]), thread[r])
    THEN InsertRow(TableOf(handler[r]), thread[r], client[r])
    ELSE TouchRow(TableOf(handler[r]), thread[r], r)

\* create_thread, create_conversation, touch_thread, touch_conversation.
WriteRow(r) ==
    IF handler[r] \in Openers
    THEN InsertRow(TableOf(handler[r]), thread[r], client[r])
    ELSE TouchRow(TableOf(handler[r]), thread[r], r)

\* The worker has written the row and committed it, or a stray worker next to it
\* has rolled it back: its commit finds no transaction, and that is no error.
Save(r) ==
    /\ pc[r] = "saving"
    /\ IsNextToWrite(r)
    /\ \/ WriteRow(r)
       \/ Strays # {} /\ UNCHANGED rows
    /\ WriteDone /\ MeetStrays(r)
    /\ IF Streams(r) THEN Goto(r, "finishing") /\ UNCHANGED answer ELSE Finish(r, "ok")
    /\ UNCHANGED <<requestVars, victim, late, restarts, limiterVars, lockVars, registryVars,
                   stray, leaving, backendVars>>

\* The write raises: the command line held the database longer than SQLite
\* waits, or a stray worker was in the way, who may have committed it before.
\* No handler maps that; a stream leaves its generator suspended.
SaveFails(r) ==
    /\ pc[r] = "saving"
    /\ IsNextToWrite(r)
    /\ \/ UNCHANGED rows
       \/ Strays # {} /\ WriteRow(r)
    /\ WriteDone /\ MeetStrays(r)
    /\ IF Streams(r)
       THEN ExitSlot(r) /\ Goto(r, "zombie") /\ Say(r, "brokenStream")
       ELSE Finish(r, "internalError") /\ UNCHANGED limiterVars
    /\ UNCHANGED <<requestVars, victim, late, restarts, lockVars, registryVars, stray,
                   leaving, backendVars>>

\* The client of a stream goes away during the write.  A write that waits is
\* withdrawn; one that has begun goes on without its task.
DisconnectInSave(r) ==
    /\ pc[r] = "saving"
    /\ Streams(r)
    /\ \/ IsNextToWrite(r) /\ stray' = stray \cup {r}
       \/ UNCHANGED stray
    /\ WithdrawWrite(r)
    /\ ExitSlot(r)
    /\ Goto(r, "zombie")
    /\ Say(r, "gone")
    /\ UNCHANGED <<requestVars, victim, late, restarts, lockVars, registryVars, rows,
                   leaving, disturbed, backendVars>>

\* The write of a stray worker is committed, by itself or by its neighbour.
StrayLands(r) ==
    /\ r \in stray
    /\ stray' = stray \ {r}
    /\ leaving' = leaving \cup {r}
    /\ WriteRow(r)
    /\ UNCHANGED <<pc, requestVars, serverVars, limiterVars, lockVars, registryVars, writes,
                   disturbed, backendVars>>

\* A stray worker lets go of the connection; if its write has not been
\* committed by then, it has raised or was rolled back.
StrayEnds(r) ==
    /\ r \in Strays
    /\ stray' = stray \ {r}
    /\ leaving' = leaving \ {r}
    /\ UNCHANGED <<pc, requestVars, serverVars, limiterVars, lockVars, registryVars, rows,
                   writes, disturbed, backendVars>>

StrayStep(r) == StrayLands(r) \/ StrayEnds(r)
----------------------------------------------------------------------------
(* Archiving, deleting, interrupting. *)

\* thread_archive succeeds, then the row is updated or deleted.
Archived(r) ==
    /\ pc[r] = "archiving"
    /\ ArchiveThread(thread[r])
    /\ AskToWrite(r)
    /\ Goto(r, "marking")
    /\ UNCHANGED <<requestVars, serverVars, limiterVars, lockVars, registryVars, rows,
                   strayVars>>

\* thread_archive fails: delete_thread gives up, delete_conversation goes on.
ArchiveFails(r) ==
    /\ pc[r] = "archiving"
    /\ IF handler[r] = "delete_conversation"
       THEN Goto(r, "marking") /\ AskToWrite(r) /\ UNCHANGED answer
       ELSE Finish(r, "codexError") /\ UNCHANGED writes
    /\ UNCHANGED <<requestVars, victim, late, restarts, limiterVars, lockVars, registryVars,
                   rows, strayVars, backendVars>>

\* archive_thread raises if it finds no row; delete_conversation does not look.
FindsRow(r) ==
    handler[r] = "delete_thread" => OwnersSeen("codex_threads", thread[r]) # {NoClient}

MarkRow(r) ==
    IF handler[r] = "delete_thread" THEN ArchiveRow(thread[r]) ELSE DeleteRow(thread[r])

\* As for a save: next to a stray worker the change may be lost with its own.
Mark(r) ==
    /\ pc[r] = "marking"
    /\ IsNextToWrite(r)
    /\ FindsRow(r)
    /\ \/ MarkRow(r)
       \/ Strays # {} /\ UNCHANGED rows
    /\ WriteDone /\ MeetStrays(r)
    /\ Finish(r, "ok")
    /\ UNCHANGED <<requestVars, victim, late, restarts, limiterVars, lockVars, registryVars,
                   stray, leaving, backendVars>>

\* As for a save; the thread may be archived by then.
MarkFails(r) ==
    /\ pc[r] = "marking"
    /\ IsNextToWrite(r)
    /\ \/ UNCHANGED rows
       \/ Strays # {} /\ FindsRow(r) /\ MarkRow(r)
    /\ WriteDone /\ MeetStrays(r)
    /\ Finish(r, "internalError")
    /\ UNCHANGED <<requestVars, victim, late, restarts, limiterVars, lockVars, registryVars,
                   stray, leaving, backendVars>>

\* interrupt_turn: the registry is asked, and a turn it knows is interrupted.
LookUpTurn(r) ==
    /\ pc[r] = "interrupting"
    /\ victim' = [victim EXCEPT ![r] = registry[thread[r]]]
    /\ IF registry[thread[r]] = NoRequest
       THEN Finish(r, "ok")
       ELSE Goto(r, "signalling") /\ UNCHANGED answer
    /\ UNCHANGED <<requestVars, late, restarts, limiterVars, lockVars, registryVars, storeVars,
                   backendVars>>

\* handle.interrupt(): the turn may have ended since.
Interrupt(r) ==
    /\ pc[r] = "signalling"
    /\ turn' = [turn EXCEPT ![victim[r]] = IF @ = "running" THEN "interrupted" ELSE @]
    /\ Finish(r, "ok")
    /\ UNCHANGED <<requestVars, victim, late, restarts, limiterVars, lockVars, registryVars,
                   storeVars, threadVars, earlier>>

\* interrupt_thread does not map a CodexError: it ends as an internal error.
InterruptRaises(r) ==
    /\ pc[r] = "signalling"
    /\ Finish(r, "internalError")
    /\ UNCHANGED <<requestVars, victim, late, restarts, limiterVars, lockVars, registryVars,
                   storeVars, backendVars>>
----------------------------------------------------------------------------
(* Time and restarts. *)

\* CODEX_REQUEST_TIMEOUT seconds have passed since r entered its slot.
DeadlinePasses(r) ==
    /\ r \in slots
    /\ r \notin late
    /\ late' = late \cup {r}
    /\ UNCHANGED <<pc, requestVars, victim, answer, restarts, limiterVars, lockVars,
                   registryVars, storeVars, backendVars>>

\* The process dies and a new one starts: the database stays, everything in
\* memory is new, and a turn may or may not survive the client it served.
Restart ==
    /\ restarts < MaxRestarts
    /\ restarts' = restarts + 1
    /\ LimiterReset /\ LocksReset /\ RegistryReset
    /\ writes' = <<>>
    /\ stray' = {} /\ leaving' = {}
    /\ pc' = [r \in Requests |-> IF pc[r] = "idle" THEN "idle" ELSE "done"]
    /\ answer' = [r \in Requests |->
                     IF pc[r] \in {"idle", "done", "zombie"} THEN answer[r] ELSE "lost"]
    /\ late' = {}
    /\ \E killed \in SUBSET {r \in Requests : turn[r] \in {"requested", "running"}} :
          turn' = [r \in Requests |-> IF r \in killed THEN "interrupted" ELSE turn[r]]
    /\ UNCHANGED <<requestVars, victim, rows, disturbed, threadVars, earlier>>

\* Every request has been served: nothing is left to do.
AllServed ==
    /\ \A r \in Requests : pc[r] = "done"
    /\ UNCHANGED vars
----------------------------------------------------------------------------
\* Steps the event loop takes on its own.
ServerStep(r) ==
    \/ CheckOwner(r) \/ Refuse(r) \/ AdmitOpener(r) \/ AdmitResumer(r) \/ LockGranted(r)
    \/ TurnRegistered(r) \/ RunReturns(r) \/ PlainTimeout(r) \/ StreamTimeout(r)
    \/ StreamEnds(r) \/ GeneratorFinalised(r) \/ Save(r) \/ SaveFails(r)
    \/ Mark(r) \/ MarkFails(r) \/ LookUpTurn(r)

\* Steps of the client at the other end of a stream.
ClientStep(r) ==
    \/ ChunkSent(r) \/ ChunkSentLate(r) \/ ResponseEnds(r)
    \/ DisconnectInCodex(r) \/ DisconnectInYield(r) \/ DisconnectInSave(r)

\* Answers of the backend, and its own steps.
BackendStep(r) ==
    \/ \E t \in Threads : Chat(r, t) \/ ThreadStarted(r, t)
    \/ ThreadResumed(r) \/ StreamResumed(r) \/ RelayEvent(r)
    \/ TurnBegins(r) \/ TurnEnds(r)
    \/ RunRaises(r) \/ StreamRaises(r)
    \/ Archived(r) \/ ArchiveFails(r) \/ Interrupt(r) \/ InterruptRaises(r)

Next ==
    \/ \E r \in Requests :
          \/ \E h \in Handlers, c \in Clients :
                \E t \in IF h \in OwnedHandlers THEN Threads ELSE {NoThread} :
                   Arrive(r, h, c, t)
          \/ ServerStep(r)
          \/ ClientStep(r)
          \/ BackendStep(r)
          \/ DeadlinePasses(r)
          \/ StrayStep(r)
    \/ Restart
    \/ AllServed

Spec == Init /\ [][Next]_vars

(***************************************************************************)
(* Fairness: the event loop runs the tasks that can run, time passes, and  *)
(* the client of a stream eventually takes a chunk or drops the response.  *)
(* The backend owes nothing: it may never answer.                          *)
(***************************************************************************)
TakesChunk(r) == ChunkSent(r) \/ ChunkSentLate(r) \/ ResponseEnds(r)

FairSpec ==
    /\ Spec
    /\ \A r \in Requests :
          /\ WF_vars(ServerStep(r))
          /\ WF_vars(DeadlinePasses(r))
          /\ WF_vars(TakesChunk(r))
=============================================================================
