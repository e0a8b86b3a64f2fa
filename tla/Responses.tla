------------------------------ MODULE Responses ------------------------------
(***************************************************************************)
(* One request from its arrival to its answer: the handler's exception or  *)
(* result, its translation (app/errors.py), the marks it leaves for the    *)
(* audit log, the row RequestContextMiddleware writes (app/middleware.py), *)
(* and the events of a stream (_stream_response).                          *)
(*                                                                         *)
(* The handler and the middleware are two tasks.  The middleware goes on   *)
(* as soon as the handler's response starts: it fixes the audit entry,     *)
(* awaits its insertion and only then lets the head of the response and    *)
(* the first chunk through to the client.  The generator of a stream runs  *)
(* on meanwhile, up to its first chunk.                                    *)
(***************************************************************************)
EXTENDS Integers, Sequences, SequencesExt

CONSTANT MaxEvents   \* bound: the events a client is sent before the last ones

ASSUME MaxEventsAssumption == MaxEvents \in Nat

VARIABLES
    route,     \* the kind of endpoint
    at,        \* how far the handler, or the generator of its stream, has come
    raised,    \* the exception that left the handler
    marks,     \* request.state, what the audit entry is made of
    late,      \* codex_request_timeout has passed
    upstream,  \* how far CodexService.stream_turn has come
    saved,     \* the row of the finished turn is written
    dispatch,  \* how far RequestContextMiddleware.dispatch has come
    answer,    \* the status and error code the application answers with
    entry,     \* the audit entry
    log,       \* the rows of this request in audit_logs
    unaudited, \* the insertion failed, and dispatch went on without
    chunk,     \* the event the generator has yielded
    got,       \* the answer as the client has received it
    events     \* the events the client has received

handlerVars == <<at, raised, marks, late, upstream, saved, chunk>>
middlewareVars == <<dispatch, answer, entry, log, unaudited>>
clientVars == <<got, events>>
responseVars == <<route, handlerVars, middlewareVars, clientVars>>
----------------------------------------------------------------------------
(* The endpoints.  "turn" stands for those that run a turn and store it,   *)
(* "chat" for the one that stores nothing, "archive" for delete_thread,    *)
(* "delete" for delete_conversation, "read" for the lists, me and account, *)
(* "health" for the path /health, "docs" for the pages FastAPI serves,     *)
(* "slash" for a path with a slash too many or too few, "preflight" for a  *)
(* CORS preflight of any path but /health.                                 *)

Routes == {"stream", "turn", "chat", "archive", "delete", "interrupt", "read",
           "health", "docs", "slash", "preflight", "unknown"}
HasBody == {"stream", "turn", "chat"}
Open == {"health", "docs", "slash", "preflight", "unknown"}
RunsTurn == {"turn", "chat"}
Stores == {"turn", "archive", "delete"}

ActionOf ==
    [stream |-> "stream_execution", turn |-> "thread_create", chat |-> "chat",
     archive |-> "thread_archive", delete |-> "chat_conversation_delete",
     interrupt |-> "interrupt"]

\* What may be wrong with an authenticated request, before the handler marks it.
Refusals ==
    [stream    |-> {"validation_error", "invalid_request", "thread_not_found",
                    "repository_not_found", "unhandled"},
     turn      |-> {"validation_error", "invalid_request", "thread_not_found",
                    "conversation_not_found", "repository_not_found", "unhandled"},
     chat      |-> {"validation_error", "invalid_request"},
     archive   |-> {"thread_not_found", "unhandled"},
     delete    |-> {"conversation_not_found", "unhandled"},
     interrupt |-> {"thread_not_found", "unhandled"},
     read      |-> {"validation_error", "unhandled"}]

\* What is answered without require_auth, and without an error of the handlers: a
\* preflight is refused with a 400 of the CORS middleware's own.
OpenAnswers ==
    [health |-> {200, 400}, docs |-> {200}, slash |-> {307}, preflight |-> {200, 400}]

\* The HTTPExceptions that are no 404: a method the path does not have, a body
\* that cannot be read.
HttpErrors == {"method_not_allowed", "unreadable_body"}

\* The errors of app/errors.py and of the framework, with their statuses.
StatusOf ==
    [unauthorized |-> 401, repository_not_found |-> 404, thread_not_found |-> 404,
     conversation_not_found |-> 404, invalid_request |-> 400, too_many_requests |-> 429,
     codex_unavailable |-> 503, codex_error |-> 502, timeout |-> 504,
     not_found |-> 404, method_not_allowed |-> 405, unreadable_body |-> 400,
     validation_error |-> 422, unhandled |-> 500]

\* The code that the exception handlers answer with.
CodeOf(exc) ==
    CASE exc = "unhandled" -> "internal_error"
      [] exc \in HttpErrors -> "http_error"
      [] OTHER -> exc

CodexErrors == {"ServerBusyError", "RetryLimitExceededError", "TransportClosedError",
                "OtherCodexError"}

MapCodexException(exc) ==
    IF exc = "OtherCodexError" THEN "codex_error" ELSE "codex_unavailable"

NoMarks == [action |-> "none", result |-> "none", authFailure |-> FALSE, known |-> FALSE]
NoAnswer == [status |-> 0, code |-> "none"]
NoEntry == [action |-> "none", result |-> "none", known |-> FALSE, status |-> 0, code |-> "none"]

DefaultAction(m) ==
    IF m.action # "none" THEN m.action
    ELSE IF m.authFailure THEN "authentication_failure" ELSE "method_path"

AuditEntry(m, status, code) ==
    [action |-> DefaultAction(m), result |-> m.result, known |-> m.known,
     status |-> status, code |-> code]

ResponseInit ==
    /\ route \in Routes
    /\ at = "arrived" /\ raised = "none" /\ marks = NoMarks /\ late = FALSE
    /\ upstream = "unstarted" /\ saved = FALSE /\ chunk = "none"
    /\ dispatch = "waiting" /\ answer = NoAnswer /\ entry = NoEntry
    /\ log = <<>> /\ unaudited = FALSE
    /\ got = NoAnswer /\ events = <<>>
----------------------------------------------------------------------------
(* The handler. *)

Raise(exc) == at' = "raised" /\ raised' = exc

MarkedAs(a, r) == [marks EXCEPT !.action = a, !.result = IF r = "none" THEN @ ELSE r]

\* The response starts: dispatch, woken first, fixes the entry.  What is marked
\* later is not in it.  Responses of /health are let through unaudited, but not
\* an exception that no handler answers.
Respond(status, code) ==
    /\ answer' = [status |-> status, code |-> code]
    /\ entry' = AuditEntry(marks', status, code)
    /\ dispatch' = IF route = "health" /\ raised # "unhandled" THEN "sending" ELSE "auditing"
    /\ UNCHANGED <<log, unaudited, clientVars>>

Silent == UNCHANGED <<middlewareVars, clientVars>>

\* No such path, no such method there, or a body that is no JSON or not even text:
\* refused before require_auth runs.
RefuseUnread ==
    /\ at = "arrived"
    /\ \/ route = "unknown" /\ Raise("not_found")
       \/ route \notin {"unknown", "slash", "preflight"} /\ Raise("method_not_allowed")
       \/ route \in HasBody /\ \E exc \in {"validation_error", "unreadable_body"} : Raise(exc)
    /\ UNCHANGED <<marks, late, upstream, saved, chunk>> /\ Silent

\* require_auth.  A database that cannot be read or touched is nobody's fault.
Authenticate ==
    /\ at = "arrived"
    /\ route \notin Open
    /\ \/ at' = "admitted" /\ marks' = [marks EXCEPT !.known = TRUE] /\ UNCHANGED raised
       \/ Raise("unauthorized") /\ marks' = [marks EXCEPT !.authFailure = TRUE]
       \/ Raise("unhandled") /\ UNCHANGED marks
    /\ UNCHANGED <<late, upstream, saved, chunk>> /\ Silent

\* Validation of the body or the query, prompt length, owner, repository.
Refuse ==
    /\ at = "admitted"
    /\ \E code \in Refusals[route] : Raise(code)
    /\ UNCHANGED <<marks, late, upstream, saved, chunk>> /\ Silent

\* health, which never fails, the pages of FastAPI, a redirect, a preflight.
AnswerOpen ==
    /\ at = "arrived" /\ route \in DOMAIN OpenAnswers
    /\ at' = "responded"
    /\ UNCHANGED <<raised, marks, late, upstream, saved, chunk>>
    /\ \E status \in OpenAnswers[route] : Respond(status, "none")

\* The lists, me and account.
AnswerRead ==
    /\ at = "admitted" /\ route = "read"
    /\ at' = "responded"
    /\ UNCHANGED <<raised, marks, late, upstream, saved, chunk>>
    /\ Respond(200, "none")

\* The first marks: the request is what its endpoint says.
StartWork ==
    /\ at = "admitted"
    /\ route \in DOMAIN ActionOf \ {"stream"}
    /\ marks' = MarkedAs(ActionOf[route], "none")
    /\ at' = "working"
    /\ UNCHANGED <<raised, late, upstream, saved, chunk>> /\ Silent

SlotRefused ==
    /\ at = "working" /\ route \in RunsTurn
    /\ Raise("too_many_requests")
    /\ UNCHANGED <<marks, late, upstream, saved, chunk>> /\ Silent

\* wait_for gives up.
TurnTimesOut ==
    /\ at = "working" /\ route \in RunsTurn /\ late
    /\ marks' = MarkedAs("timeout", "timeout")
    /\ Raise("timeout")
    /\ UNCHANGED <<late, upstream, saved, chunk>> /\ Silent

\* A CodexError: mapped, or by interrupt_thread not, or, when a conversation is
\* deleted, logged and forgotten.
CodexFails ==
    /\ at = "working"
    /\ \/ /\ route \in RunsTurn \cup {"archive"}
          /\ \E exc \in CodexErrors : Raise(MapCodexException(exc))
          /\ marks' = IF route \in RunsTurn THEN MarkedAs(ActionOf[route], "error") ELSE marks
       \/ route = "interrupt" /\ Raise("unhandled") /\ UNCHANGED marks
       \/ route = "delete" /\ at' = "saving" /\ UNCHANGED <<raised, marks>>
    /\ UNCHANGED <<late, upstream, saved, chunk>> /\ Silent

\* Any other exception, of the SDK or, while the row is written, of sqlite3.
Unexpected ==
    /\ at \in {"working", "saving"}
    /\ Raise("unhandled")
    /\ UNCHANGED <<marks, late, upstream, saved, chunk>> /\ Silent

\* Mutant: the turn is marked as completed before it is stored.
WorkDoneMarked ==
    /\ at = "working"
    /\ marks' = IF route \in RunsTurn THEN MarkedAs(ActionOf[route], "completed") ELSE marks
    /\ UNCHANGED <<raised, late, upstream, saved, chunk>>
    /\ \/ route \in Stores /\ at' = "saving" /\ Silent
       \/ route \notin Stores /\ at' = "responded" /\ Respond(200, "none")

\* The backend has answered.
WorkDone ==
    /\ at = "working"
    /\ marks' = IF route = "chat" THEN MarkedAs("chat", "completed") ELSE marks
    /\ UNCHANGED <<raised, late, upstream, saved, chunk>>
    /\ \/ route \in Stores /\ at' = "saving" /\ Silent
       \/ route \notin Stores /\ at' = "responded" /\ Respond(200, "none")

\* The row is written; then the marks of a success.
Save ==
    /\ at = "saving"
    /\ saved' = TRUE
    /\ marks' = IF route = "turn" THEN MarkedAs(ActionOf[route], "completed") ELSE marks
    /\ at' = "responded"
    /\ UNCHANGED <<raised, late, upstream, chunk>>
    /\ Respond(200, "none")

\* The exception handlers answer with the status and code of the exception.  An
\* unhandled one passes dispatch, which audits it as internal_error, and is
\* answered outside of it.
HandleError ==
    /\ at = "raised"
    /\ at' = "responded"
    /\ UNCHANGED <<raised, marks, late, upstream, saved, chunk>>
    /\ Respond(StatusOf[raised], CodeOf(raised))
----------------------------------------------------------------------------
(* The generator of a stream. *)

\* The handler returns a StreamingResponse, whose head is sent at once.
StartStream ==
    /\ at = "admitted" /\ route = "stream"
    /\ marks' = MarkedAs(ActionOf[route], "none")
    /\ at' = "entering"
    /\ UNCHANGED <<raised, late, upstream, saved, chunk>>
    /\ Respond(200, "none")

\* job_limiter.slot(): its 429 comes after the head and breaks the response off.
EnterSlot ==
    /\ at = "entering"
    /\ at' \in {"looping", "broken"}
    /\ UNCHANGED <<raised, marks, late, upstream, saved, chunk>> /\ Silent

Yield(event) == at' = "yielding" /\ chunk' = event

\* The top of the loop looks at the clock.
CheckDeadline ==
    /\ at = "looping"
    /\ IF late
       THEN /\ marks' = MarkedAs("timeout", "timeout")
            /\ Yield("timeout")
       ELSE at' = "awaiting" /\ UNCHANGED <<marks, chunk>>
    /\ UNCHANGED <<raised, late, upstream, saved>> /\ Silent

\* wait_for gives up on the next event.
NextEventTimesOut ==
    /\ at = "awaiting" /\ late
    /\ marks' = MarkedAs("timeout", "timeout")
    /\ Yield("timeout")
    /\ UNCHANGED <<raised, late, upstream, saved>> /\ Silent

\* The thread has been started or resumed.
StatusEvent ==
    /\ at = "awaiting" /\ upstream = "unstarted"
    /\ upstream' = "running"
    /\ Yield("status")
    /\ UNCHANGED <<raised, marks, late, saved>> /\ Silent

\* A notification of the running turn.  An ErrorNotification need not be the end.
RelayNotification ==
    /\ at = "awaiting" /\ upstream = "running"
    /\ Len(events) < MaxEvents
    /\ \/ Yield("delta") /\ UNCHANGED marks
       \/ Yield("error") /\ marks' = MarkedAs("stream_execution", "error")
    /\ UNCHANGED <<raised, late, upstream, saved>> /\ Silent

\* Mutant: an error of the SDK ends the stream without a word.
TurnFailsSilently ==
    /\ at = "awaiting" /\ upstream \in {"unstarted", "running"}
    /\ upstream' = "finished"
    /\ at' = "over"
    /\ marks' = MarkedAs("stream_execution", "error")
    /\ UNCHANGED <<raised, late, saved, chunk>> /\ Silent

\* stream_turn turns a failed turn and the errors of the SDK into an event.
TurnFails ==
    /\ at = "awaiting" /\ upstream \in {"unstarted", "running"}
    /\ upstream' = "finished"
    /\ Yield("error")
    /\ marks' = MarkedAs("stream_execution", "error")
    /\ UNCHANGED <<raised, late, saved>> /\ Silent

\* Mutant: the completed event is passed on before the row is written.
TurnCompletesUnsaved ==
    /\ at = "awaiting" /\ upstream = "running"
    /\ upstream' = "finished"
    /\ Yield("completed")
    /\ UNCHANGED <<raised, marks, late, saved>> /\ Silent

TurnCompletes ==
    /\ at = "awaiting" /\ upstream = "running"
    /\ upstream' = "finished"
    /\ at' = "storing"
    /\ UNCHANGED <<raised, marks, late, saved, chunk>> /\ Silent

\* Before the completed event is passed on, the row is written.
Store ==
    /\ at = "storing"
    /\ saved' = TRUE
    /\ marks' = MarkedAs("stream_execution", "completed")
    /\ Yield("completed")
    /\ UNCHANGED <<raised, late, upstream>> /\ Silent

\* sqlite3, or the SDK with an error stream_turn does not catch: the response
\* breaks off.
BreakOff ==
    /\ at \in {"awaiting", "storing"}
    /\ at' = "broken"
    /\ UNCHANGED <<raised, marks, late, upstream, saved, chunk>> /\ Silent

StreamEnds ==
    /\ at = "awaiting" /\ upstream = "finished"
    /\ at' = "over"
    /\ UNCHANGED <<raised, marks, late, upstream, saved, chunk>> /\ Silent
----------------------------------------------------------------------------
(* The middleware, the client and the clock. *)

\* Mutant: dispatch waits for the generator, to get its last marks.
InsertRowAtTheEnd ==
    /\ dispatch = "auditing"
    /\ route = "stream" /\ answer.status = 200 => at \in {"over", "broken", "left"}
    /\ dispatch' = "sending"
    /\ \/ log' = Append(log, entry) /\ UNCHANGED unaudited
       \/ unaudited' = TRUE /\ UNCHANGED log
    /\ UNCHANGED <<handlerVars, answer, entry, clientVars>>

\* _audit: the row is inserted, or that fails and is only logged.
InsertRow ==
    /\ dispatch = "auditing"
    /\ dispatch' = "sending"
    /\ \/ log' = Append(log, entry) /\ UNCHANGED unaudited
       \/ unaudited' = TRUE /\ UNCHANGED log
    /\ UNCHANGED <<handlerVars, answer, entry, clientVars>>

\* Mutant: the row is written in a background task.
SendHeadUnaudited ==
    /\ dispatch \in {"auditing", "sending"} /\ got = NoAnswer
    /\ got' = answer
    /\ at' = IF at = "responded" THEN "over" ELSE at
    /\ UNCHANGED <<raised, marks, late, upstream, saved, chunk, middlewareVars, events>>

\* dispatch returns the response: its head, and a plain body, go out.
SendHead ==
    /\ dispatch = "sending"
    /\ dispatch' = "sent"
    /\ got' = answer
    /\ at' = IF at = "responded" THEN "over" ELSE at
    /\ UNCHANGED <<raised, marks, late, upstream, saved, chunk, answer, entry, log,
                   unaudited, events>>

\* The client takes the chunk, and the generator goes on or has returned.
TakeChunk ==
    /\ at = "yielding" /\ dispatch = "sent"
    /\ events' = Append(events, chunk)
    /\ chunk' = "none"
    /\ at' = IF chunk = "timeout" THEN "over" ELSE "looping"
    /\ UNCHANGED <<raised, marks, late, upstream, saved, middlewareVars, got>>

\* The client of a stream disconnects: the generator is cancelled, and a write
\* under way may or may not be done.
ClientLeaves ==
    /\ at \in {"entering", "looping", "awaiting", "yielding", "storing"}
    /\ at' = "left"
    /\ saved' \in (IF at = "storing" THEN BOOLEAN ELSE {saved})
    /\ UNCHANGED <<raised, marks, late, upstream, chunk>> /\ Silent

DeadlinePasses ==
    /\ ~late
    /\ at \in {"working", "looping", "awaiting", "yielding", "storing"}
    /\ late' = TRUE
    /\ UNCHANGED <<at, raised, marks, upstream, saved, chunk>> /\ Silent

\* What the server does by itself.
ServerRuns ==
    \/ RefuseUnread \/ AnswerOpen \/ Authenticate \/ Refuse \/ AnswerRead \/ StartWork
    \/ TurnTimesOut \/ Save \/ HandleError
    \/ StartStream \/ EnterSlot \/ CheckDeadline \/ NextEventTimesOut \/ Store
    \/ StreamEnds

Middleware == InsertRow \/ SendHead

Backend ==
    \/ SlotRefused \/ CodexFails \/ Unexpected \/ WorkDone
    \/ StatusEvent \/ RelayNotification \/ TurnFails \/ TurnCompletes \/ BreakOff

ResponseNext ==
    /\ \/ ServerRuns \/ Middleware \/ Backend
       \/ TakeChunk \/ ClientLeaves \/ DeadlinePasses
    /\ UNCHANGED route

Answered ==
    /\ at \in {"over", "broken", "left"} /\ dispatch = "sent"
    /\ UNCHANGED responseVars

ResponseSpec == ResponseInit /\ [][ResponseNext \/ Answered]_responseVars

\* The event loop runs the handler and the middleware, time passes, and a client
\* that stays reads.  The backend owes nothing.
FairResponseSpec ==
    /\ ResponseSpec
    /\ WF_responseVars(ServerRuns /\ UNCHANGED route)
    /\ WF_responseVars(Middleware /\ UNCHANGED route)
    /\ WF_responseVars(DeadlinePasses /\ UNCHANGED route)
    /\ WF_responseVars(TakeChunk /\ UNCHANGED route)
----------------------------------------------------------------------------
Told(event) == Contains(events, event)

\* A client that has an answer, but for one of /health, finds it in the audit log:
\* one row, with the status and the error code it was given, unless the insertion
\* failed (middleware.py:65-71).  A request is never audited twice, whatever is raised.
AnswersAreAudited ==
    /\ Len(log) <= 1
    /\ got # NoAnswer /\ ~unaudited /\ route # "health"
       => /\ log # <<>>
          /\ log[1].status = got.status
          /\ log[1].code = got.code

\* What a row says of the outcome is true of the request: a 401, and nothing
\* else, is an authentication failure; a row that names no client bears no mark of
\* an endpoint, and tells of a success only where no key is asked for; a plain
\* timeout is recorded as one; a row marked completed belongs to a request that
\* succeeded, and one marked as an error to a request that failed.
RowsAreTrue ==
    \A i \in DOMAIN log : LET row == log[i] IN
       /\ (row.action = "authentication_failure") <=> (row.status = 401)
       /\ ~row.known => /\ row.action \in {"authentication_failure", "method_path"}
                        /\ row.result = "none"
                        /\ row.status < 400 => route \in Open
       /\ (row.action = "timeout") <=> (row.code = "timeout")
       /\ row.result = "completed" => row.code = "none" /\ (route = "turn" => saved)
       /\ row.result = "error" => row.status >= 500

\* Whoever is told of a success, by a 200 or by a completed event, finds the row
\* in its table: the event follows the write (threads.py:302-313, 320).
SuccessIsSaved ==
    /\ Told("completed") => saved
    /\ got.status = 200 /\ route \in Stores => saved

\* A stream that was neither abandoned nor broken off has told how it ended, and
\* nothing follows that but, after completed, the timeout event of a deadline
\* that passed while the client was reading (threads.py:285-288).
StreamsTellTheirEnd ==
    /\ at = "over" /\ route = "stream" /\ got.status = 200
       => events # <<>> /\ Last(events) \in {"completed", "error", "timeout"}
    /\ \A i, j \in DOMAIN events :
          i < j => /\ events[i] # "timeout"
                   /\ events[i] = "completed" => events[j] = "timeout"

\* Every request to run a turn is answered, and every stream comes to an end,
\* even if the backend never answers: the deadline ends it.
TurnsAreAnswered ==
    /\ at = "working" /\ route \in RunsTurn ~> got # NoAnswer
    /\ at = "entering" ~> at \in {"over", "broken", "left"}

\* prompt.md:914-933 lists what the audit log must record at the least, and
\* "timeout" (line 928) among it: a client that was told of a timeout finds it
\* in the log.
TimeoutsAreAudited ==
    Told("timeout") /\ ~unaudited => \E i \in DOMAIN log : log[i].action = "timeout"
=============================================================================
