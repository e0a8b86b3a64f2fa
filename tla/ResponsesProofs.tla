--------------------------- MODULE ResponsesProofs ---------------------------
(***************************************************************************)
(* What a client is told, what the audit log says of it and what is stored *)
(* agree, for every endpoint, every failure and every number of events.    *)
(***************************************************************************)
EXTENDS Responses, TLAPS

\* The handler has not responded yet.
Early == {"arrived", "admitted", "working", "saving", "raised"}

\* The generator of the stream is there.
Streaming == {"entering", "looping", "awaiting", "yielding", "storing"}

Places == Early \cup Streaming \cup {"responded", "over", "broken", "left"}

Actions == {"stream_execution", "thread_create", "chat", "thread_archive",
            "chat_conversation_delete", "interrupt"}

Marks(a, r, f, k) == [action |-> a, result |-> r, authFailure |-> f, known |-> k]

MarkSet == [action : Actions \cup {"none", "timeout"},
            result : {"none", "timeout", "error", "completed"},
            authFailure : BOOLEAN, known : BOOLEAN]

Ends == {"completed", "error", "timeout"}
Events == Ends \cup {"status", "delta"}

ResponseTypeOK ==
    /\ route \in Routes /\ at \in Places
    /\ marks \in MarkSet
    /\ upstream \in {"unstarted", "running", "finished"}
    /\ saved \in BOOLEAN /\ unaudited \in BOOLEAN
    /\ dispatch \in {"waiting", "auditing", "sending", "sent"}
    /\ events \in Seq(Events)
    /\ chunk \in Events \cup {"none"}

\* The one path whose answers are not audited.
Healthy == route = "health"

\* dispatch follows the handler: response, row, head, in that order, once each.
DispatchFits ==
    /\ at \in Early <=> dispatch = "waiting"
    /\ dispatch = "waiting" => log = <<>> /\ ~unaudited /\ answer = NoAnswer
    /\ dispatch = "auditing" => log = <<>> /\ ~unaudited /\ ~Healthy
    /\ dispatch # "sent" => got = NoAnswer /\ events = <<>>
    /\ dispatch = "sent" => got = answer
    /\ log = <<>> \/ (log = <<entry>> /\ dispatch \in {"sending", "sent"} /\ ~Healthy)
    /\ dispatch \in {"sending", "sent"} => log # <<>> \/ unaudited \/ Healthy
    /\ dispatch # "waiting" => entry.status = answer.status /\ entry.code = answer.code

\* What the handler has marked when it raises.
RaisedFits ==
    /\ raised \in DOMAIN StatusOf
    /\ route = "health" => raised # "unhandled"
    /\ raised = "unauthorized" <=> marks.authFailure
    /\ marks.authFailure => marks.action = "none"
    /\ raised = "timeout" <=> marks.action = "timeout"
    /\ ~marks.known => marks.action = "none" /\ marks.result = "none"
    /\ marks.result # "completed"
    /\ marks.result = "error" => raised \in {"codex_error", "codex_unavailable"}

\* The marks at each place of the handler.
MarksFit ==
    /\ at = "arrived" => marks = Marks("none", "none", FALSE, FALSE) /\ raised = "none"
    /\ at = "admitted" => marks = Marks("none", "none", FALSE, TRUE) /\ route \notin Open
    /\ at \in {"working", "saving"} =>
          /\ route \in DOMAIN ActionOf \ {"stream"}
          /\ marks = Marks(ActionOf[route], "none", FALSE, TRUE)
    /\ at = "saving" => route \in Stores
    /\ at = "raised" => RaisedFits

\* What the audit entry says is true of the request.
EntryIsTrue ==
    /\ entry.action = "authentication_failure" <=> entry.status = 401
    /\ ~entry.known => /\ entry.action \in {"authentication_failure", "method_path"}
                       /\ entry.result = "none"
                       /\ entry.status < 400 => route \in Open
    /\ entry.action = "timeout" <=> entry.code = "timeout"
    /\ entry.result = "completed" => entry.code = "none" /\ (route = "turn" => saved)
    /\ entry.result = "error" => entry.status >= 500

EntryFits == dispatch # "waiting" /\ ~Healthy => EntryIsTrue

Sent(event) == \E i \in DOMAIN events : events[i] = event

\* Where the generator is, what it has sent and what it is about to send.
StreamFits ==
    /\ answer.status = 200 /\ route \in Stores => saved
    /\ at \in Streaming \cup {"broken", "left"} => route = "stream" /\ answer.status = 200
    /\ at = "responded" /\ route = "stream" => answer.status # 200
    /\ at \notin {"yielding", "left"} => chunk = "none"
    /\ at = "yielding" => chunk \in Events
    /\ at \in Streaming => ~Sent("timeout")
    /\ at \in Early \cup {"entering"} => upstream = "unstarted" /\ events = <<>>
    /\ at = "storing" => upstream = "finished"
    /\ upstream # "finished" \/ at = "storing" => ~Sent("completed") /\ chunk # "completed"
    /\ Sent("completed") \/ chunk = "completed" => saved
    /\ at = "yielding" /\ Sent("completed") => chunk = "timeout"
    /\ at = "yielding" /\ upstream = "finished" => chunk \in Ends

EndFits ==
    /\ at \in {"looping", "awaiting"} /\ upstream = "finished" =>
          events # <<>> /\ events[Len(events)] \in {"completed", "error"}
    /\ at = "over" /\ route = "stream" /\ answer.status = 200 =>
          events # <<>> /\ events[Len(events)] \in Ends
    /\ \A i, j \in DOMAIN events :
          i < j => /\ events[i] # "timeout"
                   /\ events[i] = "completed" => events[j] = "timeout"

ResponseInv ==
    ResponseTypeOK /\ DispatchFits /\ MarksFit /\ EntryFits /\ StreamFits /\ EndFits
----------------------------------------------------------------------------
(* Facts about the answers and the marks. *)

LEMMA StatusesDiffer ==
    /\ \A exc \in DOMAIN StatusOf :
          /\ StatusOf[exc] \in Int /\ StatusOf[exc] >= 400
          /\ exc # "none"
          /\ StatusOf[exc] = 401 <=> exc = "unauthorized"
    /\ StatusOf["codex_error"] = 502
    /\ StatusOf["codex_unavailable"] = 503
  BY DEF StatusOf

LEMMA CodesDiffer ==
    \A exc \in DOMAIN StatusOf : CodeOf(exc) # "none" /\ (CodeOf(exc) = "timeout" <=> exc = "timeout")
  BY StatusesDiffer DEF CodeOf, HttpErrors

LEMMA ErrorCodes ==
    DOMAIN StatusOf = {"unauthorized", "repository_not_found", "thread_not_found",
                       "conversation_not_found", "invalid_request", "too_many_requests",
                       "codex_unavailable", "codex_error", "timeout", "not_found",
                       "method_not_allowed", "unreadable_body", "validation_error",
                       "unhandled"}
  BY DEF StatusOf

LEMMA RefusalsAreErrors ==
    ASSUME route \in Routes \ Open
    PROVE  \A code \in Refusals[route] : code \in DOMAIN StatusOf \ {"unauthorized", "timeout"}
<1>1. route \in {"stream", "turn", "chat", "archive", "delete", "interrupt", "read"}
  BY DEF Routes, Open
<1>2. QED
  BY <1>1, ErrorCodes DEF Refusals

LEMMA MappedAreErrors ==
    \A exc \in CodexErrors : MapCodexException(exc) \in {"codex_error", "codex_unavailable"}
  BY DEF CodexErrors, MapCodexException

LEMMA ActionNames ==
    /\ DOMAIN ActionOf = {"stream", "turn", "chat", "archive", "delete", "interrupt"}
    /\ \A e \in DOMAIN ActionOf : ActionOf[e] \in Actions
    /\ ActionOf["stream"] = "stream_execution" /\ ActionOf["chat"] = "chat"
  BY DEF ActionOf, Actions

\* MarkedAs changes the action, and the result where one is given.
LEMMA MarksChange ==
    ASSUME marks \in MarkSet,
           NEW a \in Actions \cup {"timeout"},
           NEW r \in {"none", "timeout", "error", "completed"}
    PROVE  /\ MarkedAs(a, r) \in MarkSet
           /\ MarkedAs(a, r).action = a
           /\ MarkedAs(a, r).result = IF r = "none" THEN marks.result ELSE r
           /\ MarkedAs(a, r).authFailure = marks.authFailure
           /\ MarkedAs(a, r).known = marks.known
           /\ MarkedAs(a, r) = Marks(a, MarkedAs(a, r).result, marks.authFailure, marks.known)
<1> DEFINE res == IF r = "none" THEN marks.result ELSE r
<1>1. MarkedAs(a, r) = [marks EXCEPT !.action = a, !.result = res]
  BY DEF MarkedAs
<1>2. MarkedAs(a, r) = Marks(a, res, marks.authFailure, marks.known)
  BY <1>1 DEF MarkSet, Marks
<1>3. /\ res \in {"none", "timeout", "error", "completed"}
      /\ marks.authFailure \in BOOLEAN /\ marks.known \in BOOLEAN
  BY DEF MarkSet
<1>4. Marks(a, res, marks.authFailure, marks.known) \in MarkSet
  BY <1>3 DEF MarkSet, Marks
<1>5. QED
  BY <1>2, <1>4 DEF Marks

LEMMA MarkedRecord ==
    ASSUME NEW a, NEW r, NEW b, NEW f, NEW k, marks = Marks(b, "none", f, k)
    PROVE  MarkedAs(a, r) = Marks(a, r, f, k)
<1> DEFINE res == IF r = "none" THEN marks.result ELSE r
<1>1. MarkedAs(a, r) = [marks EXCEPT !.action = a, !.result = res]
  BY DEF MarkedAs
<1>2. marks.result = "none"
  BY DEF Marks
<1>3. res = r
  BY <1>2
<1>4. QED
  BY <1>1, <1>3 DEF Marks

LEMMA MarkRecords ==
    ASSUME NEW a \in Actions \cup {"none", "timeout"},
           NEW r \in {"none", "timeout", "error", "completed"},
           NEW f \in BOOLEAN, NEW k \in BOOLEAN
    PROVE  Marks(a, r, f, k) \in MarkSet
  BY DEF Marks, MarkSet

LEMMA EntryFields ==
    ASSUME NEW m, NEW status, NEW code
    PROVE  /\ AuditEntry(m, status, code).action = DefaultAction(m)
           /\ AuditEntry(m, status, code).result = m.result
           /\ AuditEntry(m, status, code).known = m.known
           /\ AuditEntry(m, status, code).status = status
           /\ AuditEntry(m, status, code).code = code
  BY DEF AuditEntry

LEMMA InitResponse == ResponseInit => ResponseInv
<1> SUFFICES ASSUME ResponseInit
             PROVE  ResponseInv
  OBVIOUS
<1> USE DEF ResponseInit
<1>1. ResponseTypeOK
  <2>1. marks \in MarkSet
    BY DEF MarkSet, NoMarks
  <2>2. events \in Seq(Events)
    OBVIOUS
  <2>3. QED
    BY <2>1, <2>2 DEF ResponseTypeOK, Places, Early
<1>2. DispatchFits
  BY DEF DispatchFits, Early, NoAnswer
<1>3. MarksFit
  BY DEF MarksFit, Marks, NoMarks
<1>4. EntryFits
  BY DEF EntryFits
<1>5. StreamFits
  BY DEF StreamFits, Sent, NoAnswer, Streaming
<1>6. EndFits
  BY DEF EndFits
<1>7. QED
  BY <1>1, <1>2, <1>3, <1>4, <1>5, <1>6 DEF ResponseInv

----------------------------------------------------------------------------
(* What the steps of one kind have in common. *)

\* Before the response starts only the handler's own state changes.
LEMMA EarlySteps ==
    ASSUME ResponseInv, UNCHANGED route, Silent, at \in Early, at' \in Early,
           UNCHANGED <<upstream, saved, chunk>>
    PROVE  DispatchFits' /\ EntryFits' /\ StreamFits' /\ EndFits'
<1> USE DEF ResponseInv, Silent, middlewareVars, clientVars, Early
<1>1. DispatchFits'
  BY DEF DispatchFits, Healthy
<1>2. EntryFits'
  BY DEF EntryFits, EntryIsTrue, DispatchFits
<1>3. events = <<>> /\ answer.status # 200 /\ chunk = "none"
  BY DEF DispatchFits, StreamFits, NoAnswer
<1>4. StreamFits'
  BY <1>3 DEF StreamFits, Sent, Streaming
<1>5. EndFits'
  BY <1>3 DEF EndFits
<1>6. QED
  BY <1>1, <1>2, <1>4, <1>5

\* The marks of a request whose response has started are not looked at.
LEMMA LateSteps ==
    ASSUME ResponseInv, UNCHANGED route, Silent, at \notin Early,
           at' \in Streaming \cup {"over", "broken", "left"},
           saved' = saved \/ saved' = TRUE \/ route = "stream"
    PROVE  DispatchFits' /\ EntryFits' /\ MarksFit'
<1> USE DEF ResponseInv, Silent, middlewareVars, clientVars, Early, Streaming
<1>1. DispatchFits'
  BY DEF DispatchFits, Healthy
<1>2. EntryFits'
  BY DEF EntryFits, EntryIsTrue, Healthy
<1>3. MarksFit'
  BY DEF MarksFit
<1>4. QED
  BY <1>1, <1>2, <1>3

\* The response starts.
LEMMA ResponseStarts ==
    ASSUME ResponseInv, UNCHANGED <<route, upstream, chunk>>, at \in Early,
           at' \in {"responded", "entering"},
           NEW status, NEW code, Respond(status, code),
           at' = "entering" <=> route = "stream" /\ status = 200,
           status = 200 /\ route \in Stores => saved',
           route = "health" => raised # "unhandled",
           saved => saved'
    PROVE  DispatchFits' /\ MarksFit' /\ StreamFits' /\ EndFits'
<1> USE DEF ResponseInv, Respond, clientVars, Early
<1>1. log = <<>> /\ ~unaudited /\ got = NoAnswer /\ events = <<>> /\ dispatch = "waiting"
  BY DEF DispatchFits
<1>2. answer'.status = status /\ answer'.code = code
  OBVIOUS
<1>3. entry'.status = status /\ entry'.code = code
  BY EntryFields
<1>4. DispatchFits'
  BY <1>1, <1>2, <1>3 DEF DispatchFits, Healthy
<1>5. MarksFit'
  BY DEF MarksFit
<1>6. chunk = "none"
  BY DEF StreamFits
<1>7. StreamFits'
  BY <1>1, <1>2, <1>6 DEF StreamFits, Sent, Streaming
<1>8. EndFits'
  BY <1>1 DEF EndFits
<1>9. QED
  BY <1>4, <1>5, <1>7, <1>8
----------------------------------------------------------------------------
(* The handler, one lemma for each of its steps. *)

LEMMA RefuseUnreadKeeps ==
    ASSUME ResponseInv, UNCHANGED route, RefuseUnread
    PROVE  ResponseInv'
<1> USE DEF ResponseInv, RefuseUnread, Raise
<1>1. ResponseTypeOK'
  BY DEF ResponseTypeOK, Silent, middlewareVars, clientVars, Places, Early, Streaming
<1>2. MarksFit'
  BY ErrorCodes DEF MarksFit, RaisedFits, Marks
<1>3. DispatchFits' /\ EntryFits' /\ StreamFits' /\ EndFits'
  BY EarlySteps DEF Early
<1>4. QED
  BY <1>1, <1>2, <1>3

LEMMA AuthenticateKeeps ==
    ASSUME ResponseInv, UNCHANGED route, Authenticate
    PROVE  ResponseInv'
<1> USE DEF ResponseInv, Authenticate, Raise
<1>1. ResponseTypeOK'
  <2>1. marks' \in MarkSet
    <3>1. marks = Marks("none", "none", FALSE, FALSE)
      BY DEF MarksFit
    <3>2. \/ marks' = marks
          \/ marks' = Marks("none", "none", FALSE, TRUE)
          \/ marks' = Marks("none", "none", TRUE, FALSE)
      BY <3>1 DEF Marks
    <3>3. QED
      BY <3>1, <3>2, MarkRecords
  <2>2. QED
    BY <2>1 DEF ResponseTypeOK, Silent, middlewareVars, clientVars, Places, Early, Streaming
<1>2. MarksFit'
  <2>1. marks = Marks("none", "none", FALSE, FALSE)
    BY DEF MarksFit
  <2>2. QED
    BY <2>1, ErrorCodes DEF MarksFit, RaisedFits, Marks, Open
<1>3. DispatchFits' /\ EntryFits' /\ StreamFits' /\ EndFits'
  BY EarlySteps DEF Early
<1>4. QED
  BY <1>1, <1>2, <1>3

LEMMA RefuseKeeps ==
    ASSUME ResponseInv, UNCHANGED route, Refuse
    PROVE  ResponseInv'
<1> USE DEF ResponseInv, Refuse, Raise
<1>1. ResponseTypeOK'
  BY DEF ResponseTypeOK, Silent, middlewareVars, clientVars, Places, Early, Streaming
<1>2. MarksFit'
  <2>1. raised' \in DOMAIN StatusOf \ {"unauthorized", "timeout"}
    <3>1. route \in Routes \ Open
      BY DEF MarksFit, ResponseTypeOK
    <3>2. QED
      BY <3>1, RefusalsAreErrors
  <2>2. marks = Marks("none", "none", FALSE, TRUE)
    BY DEF MarksFit
  <2>3. route # "health"
    BY DEF MarksFit, Open
  <2>4. QED
    BY <2>1, <2>2, <2>3 DEF MarksFit, RaisedFits, Marks
<1>3. DispatchFits' /\ EntryFits' /\ StreamFits' /\ EndFits'
  BY EarlySteps DEF Early
<1>4. QED
  BY <1>1, <1>2, <1>3

LEMMA StartWorkKeeps ==
    ASSUME ResponseInv, UNCHANGED route, StartWork
    PROVE  ResponseInv'
<1> USE DEF ResponseInv, StartWork
<1>1. ResponseTypeOK'
  <2>1. marks' \in MarkSet
    BY MarksChange, ActionNames DEF ResponseTypeOK
  <2>2. QED
    BY <2>1 DEF ResponseTypeOK, Silent, middlewareVars, clientVars, Places, Early, Streaming
<1>2. MarksFit'
  <2>1. marks = Marks("none", "none", FALSE, TRUE)
    BY DEF MarksFit
  <2>2. marks' = Marks(ActionOf[route], "none", FALSE, TRUE)
    BY <2>1, MarkedRecord
  <2>3. QED
    BY <2>2 DEF MarksFit
<1>3. DispatchFits' /\ EntryFits' /\ StreamFits' /\ EndFits'
  BY EarlySteps DEF Early
<1>4. QED
  BY <1>1, <1>2, <1>3

LEMMA SlotRefusedKeeps ==
    ASSUME ResponseInv, UNCHANGED route, SlotRefused
    PROVE  ResponseInv'
<1> USE DEF ResponseInv, SlotRefused, Raise
<1>1. ResponseTypeOK'
  BY DEF ResponseTypeOK, Silent, middlewareVars, clientVars, Places, Early, Streaming
<1>2. MarksFit'
  <2>1. marks = Marks(ActionOf[route], "none", FALSE, TRUE) /\ route \in DOMAIN ActionOf
    BY DEF MarksFit
  <2>2. QED
    BY <2>1, ErrorCodes, ActionNames DEF MarksFit, RaisedFits, Marks, Actions
<1>3. DispatchFits' /\ EntryFits' /\ StreamFits' /\ EndFits'
  BY EarlySteps DEF Early
<1>4. QED
  BY <1>1, <1>2, <1>3

LEMMA TurnTimesOutKeeps ==
    ASSUME ResponseInv, UNCHANGED route, TurnTimesOut
    PROVE  ResponseInv'
<1> USE DEF ResponseInv, TurnTimesOut, Raise
<1>1. ResponseTypeOK'
  <2>1. marks' \in MarkSet
    BY MarksChange DEF ResponseTypeOK
  <2>2. QED
    BY <2>1 DEF ResponseTypeOK, Silent, middlewareVars, clientVars, Places, Early, Streaming
<1>2. MarksFit'
  <2>1. marks = Marks(ActionOf[route], "none", FALSE, TRUE)
    BY DEF MarksFit
  <2>2. marks' = Marks("timeout", "timeout", FALSE, TRUE)
    BY <2>1, MarkedRecord
  <2>3. QED
    BY <2>2, ErrorCodes DEF MarksFit, RaisedFits, Marks
<1>3. DispatchFits' /\ EntryFits' /\ StreamFits' /\ EndFits'
  BY EarlySteps DEF Early
<1>4. QED
  BY <1>1, <1>2, <1>3

LEMMA CodexFailsKeeps ==
    ASSUME ResponseInv, UNCHANGED route, CodexFails
    PROVE  ResponseInv'
<1> USE DEF ResponseInv, CodexFails, Raise
<1>1. ResponseTypeOK'
  <2>1. marks' \in MarkSet
    <3>1. MarkedAs(ActionOf[route], "error") \in MarkSet
      BY MarksChange, ActionNames DEF MarksFit, ResponseTypeOK
    <3>2. QED
      BY <3>1 DEF ResponseTypeOK
  <2>2. QED
    BY <2>1 DEF ResponseTypeOK, Silent, middlewareVars, clientVars, Places, Early, Streaming
<1>2. MarksFit'
  <2>1. marks = Marks(ActionOf[route], "none", FALSE, TRUE) /\ route \in DOMAIN ActionOf \ {"stream"}
    BY DEF MarksFit
  <2>2. ActionOf[route] \in Actions
    BY <2>1, ActionNames
  <2>3. MarkedAs(ActionOf[route], "error") = Marks(ActionOf[route], "error", FALSE, TRUE)
    BY <2>1, MarkedRecord
  <2>4. CASE raised' \in {"codex_error", "codex_unavailable"} /\ at' = "raised"
    <3>1. marks' = Marks(ActionOf[route], marks'.result, FALSE, TRUE)
          /\ marks'.result \in {"none", "error"}
      BY <2>1, <2>3, <2>4 DEF Marks
    <3>2. QED
      BY <3>1, <2>2, <2>4, ErrorCodes, ActionNames DEF MarksFit, RaisedFits, Marks, Actions
  <2>5. CASE raised' = "unhandled" /\ at' = "raised" /\ marks' = marks
    BY <2>1, <2>2, <2>5, ErrorCodes, ActionNames DEF MarksFit, RaisedFits, Marks, Actions
  <2>6. CASE route = "delete" /\ at' = "saving" /\ marks' = marks
    BY <2>1, <2>6, ErrorCodes DEF MarksFit, RaisedFits, Marks, Actions, Stores
  <2>7. QED
    BY <2>4, <2>5, <2>6, MappedAreErrors
<1>3. DispatchFits' /\ EntryFits' /\ StreamFits' /\ EndFits'
  BY EarlySteps DEF Early
<1>4. QED
  BY <1>1, <1>2, <1>3

LEMMA UnexpectedKeeps ==
    ASSUME ResponseInv, UNCHANGED route, Unexpected
    PROVE  ResponseInv'
<1> USE DEF ResponseInv, Unexpected, Raise
<1>1. ResponseTypeOK'
  BY DEF ResponseTypeOK, Silent, middlewareVars, clientVars, Places, Early, Streaming
<1>2. MarksFit'
  <2>1. marks = Marks(ActionOf[route], "none", FALSE, TRUE) /\ route \in DOMAIN ActionOf
    BY DEF MarksFit
  <2>2. QED
    BY <2>1, ErrorCodes, ActionNames DEF MarksFit, RaisedFits, Marks, Actions
<1>3. DispatchFits' /\ EntryFits' /\ StreamFits' /\ EndFits'
  BY EarlySteps DEF Early
<1>4. QED
  BY <1>1, <1>2, <1>3

LEMMA AnswerReadKeeps ==
    ASSUME ResponseInv, UNCHANGED route, AnswerRead
    PROVE  ResponseInv'
<1> USE DEF ResponseInv, AnswerRead
<1>1. ResponseTypeOK'
  BY DEF ResponseTypeOK, Respond, clientVars, Places, Early
<1>2. EntryFits'
  <2>1. marks = Marks("none", "none", FALSE, TRUE)
    BY DEF MarksFit
  <2>2. entry' = AuditEntry(marks, 200, "none")
    BY DEF Respond
  <2>3. QED
    BY <2>1, <2>2, EntryFields DEF EntryFits, EntryIsTrue, Marks, DefaultAction
<1>3. DispatchFits' /\ MarksFit' /\ StreamFits' /\ EndFits'
  BY ResponseStarts DEF Early, Stores
<1>4. QED
  BY <1>1, <1>2, <1>3

\* What is answered without a key, an error or a mark.
LEMMA AnswerOpenKeeps ==
    ASSUME ResponseInv, UNCHANGED route, AnswerOpen
    PROVE  ResponseInv'
<1> USE DEF ResponseInv, AnswerOpen
<1>1. PICK status \in OpenAnswers[route] : Respond(status, "none")
  OBVIOUS
<1>2. route \in Open \ {"unknown"} /\ status \in {200, 307, 400}
  BY DEF OpenAnswers, Open
<1>3. marks = Marks("none", "none", FALSE, FALSE) /\ raised = "none"
  BY DEF MarksFit
<1>4. ResponseTypeOK'
  BY <1>1 DEF ResponseTypeOK, Respond, clientVars, Places, Early
<1>5. EntryFits'
  <2>1. entry' = AuditEntry(marks, status, "none")
    BY <1>1 DEF Respond
  <2>2. QED
    BY <1>2, <1>3, <2>1, EntryFields DEF EntryFits, EntryIsTrue, Marks, DefaultAction
<1>6. DispatchFits' /\ MarksFit' /\ StreamFits' /\ EndFits'
  BY <1>1, <1>2, <1>3, ResponseStarts DEF Early, Stores, Open
<1>7. QED
  BY <1>4, <1>5, <1>6

LEMMA WorkDoneKeeps ==
    ASSUME ResponseInv, UNCHANGED route, WorkDone
    PROVE  ResponseInv'
<1> USE DEF ResponseInv, WorkDone
<1>1. marks = Marks(ActionOf[route], "none", FALSE, TRUE) /\ route \in DOMAIN ActionOf \ {"stream"}
  BY DEF MarksFit
<1>2. /\ marks' = Marks(ActionOf[route], marks'.result, FALSE, TRUE) /\ marks' \in MarkSet
      /\ marks'.result = IF route = "chat" THEN "completed" ELSE "none"
  <2>1. ActionOf[route] \in Actions
    BY <1>1, ActionNames
  <2>2. CASE route = "chat"
    <3>1. marks' = MarkedAs(ActionOf[route], "completed")
      BY <2>2, ActionNames
    <3>2. MarkedAs(ActionOf[route], "completed") = Marks(ActionOf[route], "completed", FALSE, TRUE)
      BY <1>1, MarkedRecord
    <3>3. marks' = Marks(ActionOf[route], "completed", FALSE, TRUE)
      BY <3>1, <3>2
    <3>4. Marks(ActionOf[route], "completed", FALSE, TRUE) \in MarkSet
      BY <2>1, MarkRecords
    <3>5. marks'.result = "completed"
      BY <3>3 DEF Marks
    <3>6. QED
      BY <2>2, <3>3, <3>4, <3>5
  <2>3. CASE route # "chat"
    BY <1>1, <2>3 DEF ResponseTypeOK, Marks
  <2>4. QED
    BY <2>2, <2>3
<1>3. ResponseTypeOK'
  BY <1>2 DEF ResponseTypeOK, Respond, Silent, middlewareVars, clientVars, Places, Early
<1>4. CASE route \in Stores /\ at' = "saving" /\ Silent
  <2>1. DispatchFits' /\ EntryFits' /\ StreamFits' /\ EndFits'
    BY <1>4, EarlySteps DEF Early
  <2>2. MarksFit'
    BY <1>1, <1>4 DEF MarksFit, Stores
  <2>3. QED
    BY <2>1, <2>2, <1>3
<1>5. CASE route \notin Stores /\ at' = "responded" /\ Respond(200, "none")
  <2>1. DispatchFits' /\ MarksFit' /\ StreamFits' /\ EndFits'
    BY <1>1, <1>5, ActionNames, ResponseStarts DEF Early
  <2>2. entry' = AuditEntry(marks', 200, "none")
    BY <1>5 DEF Respond
  <2>3. ActionOf[route] \in Actions
    BY <1>1, ActionNames
  <2>4. /\ entry'.action = ActionOf[route] /\ entry'.known = TRUE
        /\ entry'.result \in {"none", "completed"}
        /\ entry'.status = 200 /\ entry'.code = "none"
    BY <1>2, <2>2, <2>3, EntryFields DEF Marks, DefaultAction, Actions
  <2>5. EntryFits'
    BY <2>3, <2>4, <1>5 DEF EntryFits, EntryIsTrue, Actions, Stores
  <2>6. QED
    BY <2>1, <2>5, <1>3
<1>6. QED
  BY <1>4, <1>5

LEMMA SaveKeeps ==
    ASSUME ResponseInv, UNCHANGED route, Save
    PROVE  ResponseInv'
<1> USE DEF ResponseInv, Save
<1>1. marks = Marks(ActionOf[route], "none", FALSE, TRUE) /\ route \in DOMAIN ActionOf \ {"stream"}
  BY DEF MarksFit
<1>2. /\ marks' = Marks(ActionOf[route], marks'.result, FALSE, TRUE) /\ marks' \in MarkSet
      /\ marks'.result = IF route = "turn" THEN "completed" ELSE "none"
  <2>1. ActionOf[route] \in Actions
    BY <1>1, ActionNames
  <2>2. CASE route = "turn"
    <3>1. marks' = MarkedAs(ActionOf[route], "completed")
      BY <2>2, ActionNames
    <3>2. MarkedAs(ActionOf[route], "completed") = Marks(ActionOf[route], "completed", FALSE, TRUE)
      BY <1>1, MarkedRecord
    <3>3. marks' = Marks(ActionOf[route], "completed", FALSE, TRUE)
      BY <3>1, <3>2
    <3>4. Marks(ActionOf[route], "completed", FALSE, TRUE) \in MarkSet
      BY <2>1, MarkRecords
    <3>5. marks'.result = "completed"
      BY <3>3 DEF Marks
    <3>6. QED
      BY <2>2, <3>3, <3>4, <3>5
  <2>3. CASE route # "turn"
    BY <1>1, <2>3 DEF ResponseTypeOK, Marks
  <2>4. QED
    BY <2>2, <2>3
<1>3. ResponseTypeOK'
  BY <1>2 DEF ResponseTypeOK, Respond, clientVars, Places, Early
<1>4. DispatchFits' /\ MarksFit' /\ StreamFits' /\ EndFits'
  BY <1>1, ActionNames, ResponseStarts DEF Early
<1>5. entry' = AuditEntry(marks', 200, "none")
  BY DEF Respond
<1>6. ActionOf[route] \in Actions
  BY <1>1, ActionNames
<1>7. /\ entry'.action = ActionOf[route] /\ entry'.known = TRUE
      /\ entry'.result \in {"none", "completed"}
      /\ entry'.status = 200 /\ entry'.code = "none"
  BY <1>2, <1>5, <1>6, EntryFields DEF Marks, DefaultAction, Actions
<1>8. EntryFits'
  BY <1>6, <1>7 DEF EntryFits, EntryIsTrue, Actions
<1>9. QED
  BY <1>3, <1>4, <1>8

\* An error is answered, and audited, with a status and a code of its own.
LEMMA HandleErrorKeeps ==
    ASSUME ResponseInv, UNCHANGED route, HandleError
    PROVE  ResponseInv'
<1> DEFINE status == StatusOf[raised]
           code == CodeOf(raised)
<1> USE DEF ResponseInv, HandleError
<1>1. RaisedFits /\ Respond(status, code)
  BY DEF MarksFit
<1>2. /\ raised \in DOMAIN StatusOf /\ status \in Int /\ status >= 400
      /\ status = 401 <=> raised = "unauthorized"
      /\ code # "none" /\ (code = "timeout" <=> raised = "timeout")
  BY <1>1, StatusesDiffer, CodesDiffer DEF RaisedFits
<1> HIDE DEF status, code
<1>3. ResponseTypeOK'
  BY <1>1 DEF ResponseTypeOK, Respond, clientVars, Places, Early
<1>4. DispatchFits' /\ MarksFit' /\ StreamFits' /\ EndFits'
  BY <1>1, <1>2, ResponseStarts DEF Early, RaisedFits
<1>5. entry' = AuditEntry(marks, status, code)
  BY <1>1 DEF Respond
<1>6. /\ entry'.action = DefaultAction(marks) /\ entry'.result = marks.result
      /\ entry'.known = marks.known /\ entry'.status = status /\ entry'.code = code
  BY <1>5, EntryFields
<1>7. EntryIsTrue'
  <2>1. entry'.action = "authentication_failure" <=> raised = "unauthorized"
    BY <1>1, <1>6 DEF RaisedFits, DefaultAction, ResponseTypeOK, MarkSet, Actions
  <2>2. ~entry'.known => /\ entry'.action \in {"authentication_failure", "method_path"}
                         /\ entry'.result = "none"
    BY <1>1, <1>6 DEF RaisedFits, DefaultAction
  <2>3. entry'.action = "timeout" <=> raised = "timeout"
    BY <1>1, <1>6 DEF RaisedFits, DefaultAction
  <2>4. entry'.result # "completed"
    BY <1>1, <1>6 DEF RaisedFits
  <2>5. entry'.result = "error" => entry'.status >= 500
    BY <1>1, <1>6, StatusesDiffer DEF RaisedFits, status
  <2>6. QED
    BY <1>2, <1>6, <2>1, <2>2, <2>3, <2>4, <2>5 DEF EntryIsTrue
<1>8. QED
  BY <1>3, <1>4, <1>7 DEF EntryFits

LEMMA StartStreamKeeps ==
    ASSUME ResponseInv, UNCHANGED route, StartStream
    PROVE  ResponseInv'
<1> USE DEF ResponseInv, StartStream
<1>1. marks = Marks("none", "none", FALSE, TRUE)
  BY DEF MarksFit
<1>2. marks' = Marks("stream_execution", "none", FALSE, TRUE) /\ marks' \in MarkSet
  <2>1. marks' = Marks("stream_execution", "none", FALSE, TRUE)
    BY <1>1, MarkedRecord, ActionNames
  <2>2. QED
    BY <2>1, MarkRecords DEF Actions
<1>3. ResponseTypeOK'
  BY <1>2 DEF ResponseTypeOK, Respond, clientVars, Places, Streaming
<1>4. DispatchFits' /\ MarksFit' /\ StreamFits' /\ EndFits'
  BY ResponseStarts DEF Early, Stores
<1>5. entry' = AuditEntry(marks', 200, "none")
  BY DEF Respond
<1>6. EntryFits'
  BY <1>2, <1>5, EntryFields DEF EntryFits, EntryIsTrue, Marks, DefaultAction
<1>7. QED
  BY <1>3, <1>4, <1>6

----------------------------------------------------------------------------
(* The generator of a stream. *)

LEMMA EnterSlotKeeps ==
    ASSUME ResponseInv, UNCHANGED route, EnterSlot
    PROVE  ResponseInv'
<1> USE DEF ResponseInv, EnterSlot
<1>1. ResponseTypeOK'
  BY DEF ResponseTypeOK, Silent, middlewareVars, clientVars, Places, Early, Streaming
<1>2. DispatchFits' /\ EntryFits' /\ MarksFit'
  BY LateSteps DEF Early, Streaming, StreamFits
<1>3. UNCHANGED <<answer, events>>
  BY DEF Silent, middlewareVars, clientVars
<1>4. StreamFits'
  BY <1>3 DEF StreamFits, Sent, Streaming, Stores, Events, Ends, Early, ResponseTypeOK
<1>5. EndFits'
  BY <1>3 DEF EndFits, StreamFits, Streaming, Ends
<1>6. QED
  BY <1>1, <1>2, <1>4, <1>5

LEMMA CheckDeadlineKeeps ==
    ASSUME ResponseInv, UNCHANGED route, CheckDeadline
    PROVE  ResponseInv'
<1> USE DEF ResponseInv, CheckDeadline, Yield
<1>1. ResponseTypeOK'
  <2>1. marks' \in MarkSet
    BY MarksChange DEF ResponseTypeOK
  <2>2. QED
    BY <2>1 DEF ResponseTypeOK, Silent, middlewareVars, clientVars, Places, Early, Streaming, Events, Ends
<1>2. DispatchFits' /\ EntryFits' /\ MarksFit'
  BY LateSteps DEF Early, Streaming, StreamFits
<1>3. UNCHANGED <<answer, events>>
  BY DEF Silent, middlewareVars, clientVars
<1>4. StreamFits'
  BY <1>3 DEF StreamFits, Sent, Streaming, Stores, Events, Ends, Early, ResponseTypeOK
<1>5. EndFits'
  BY <1>3 DEF EndFits, StreamFits, Streaming, Ends
<1>6. QED
  BY <1>1, <1>2, <1>4, <1>5

LEMMA NextEventTimesOutKeeps ==
    ASSUME ResponseInv, UNCHANGED route, NextEventTimesOut
    PROVE  ResponseInv'
<1> USE DEF ResponseInv, NextEventTimesOut, Yield
<1>1. ResponseTypeOK'
  <2>1. marks' \in MarkSet
    BY MarksChange DEF ResponseTypeOK
  <2>2. QED
    BY <2>1 DEF ResponseTypeOK, Silent, middlewareVars, clientVars, Places, Early, Streaming, Events, Ends
<1>2. DispatchFits' /\ EntryFits' /\ MarksFit'
  BY LateSteps DEF Early, Streaming, StreamFits
<1>3. UNCHANGED <<answer, events>>
  BY DEF Silent, middlewareVars, clientVars
<1>4. StreamFits'
  BY <1>3 DEF StreamFits, Sent, Streaming, Stores, Events, Ends, Early, ResponseTypeOK
<1>5. EndFits'
  BY <1>3 DEF EndFits, StreamFits, Streaming, Ends
<1>6. QED
  BY <1>1, <1>2, <1>4, <1>5

LEMMA StatusEventKeeps ==
    ASSUME ResponseInv, UNCHANGED route, StatusEvent
    PROVE  ResponseInv'
<1> USE DEF ResponseInv, StatusEvent, Yield
<1>1. ResponseTypeOK'
  BY DEF ResponseTypeOK, Silent, middlewareVars, clientVars, Places, Early, Streaming, Events
<1>2. DispatchFits' /\ EntryFits' /\ MarksFit'
  BY LateSteps DEF Early, Streaming, StreamFits
<1>3. UNCHANGED <<answer, events>>
  BY DEF Silent, middlewareVars, clientVars
<1>4. StreamFits'
  BY <1>3 DEF StreamFits, Sent, Streaming, Stores, Events, Ends, Early, ResponseTypeOK
<1>5. EndFits'
  BY <1>3 DEF EndFits, StreamFits, Streaming, Ends
<1>6. QED
  BY <1>1, <1>2, <1>4, <1>5

LEMMA RelayNotificationKeeps ==
    ASSUME ResponseInv, UNCHANGED route, RelayNotification
    PROVE  ResponseInv'
<1> USE DEF ResponseInv, RelayNotification, Yield
<1>1. ResponseTypeOK'
  <2>1. marks' \in MarkSet
    BY MarksChange DEF ResponseTypeOK, Actions
  <2>2. QED
    BY <2>1 DEF ResponseTypeOK, Silent, middlewareVars, clientVars, Places, Early, Streaming, Events, Ends
<1>2. DispatchFits' /\ EntryFits' /\ MarksFit'
  BY LateSteps DEF Early, Streaming, StreamFits
<1>3. UNCHANGED <<answer, events>>
  BY DEF Silent, middlewareVars, clientVars
<1>4. StreamFits'
  BY <1>3 DEF StreamFits, Sent, Streaming, Stores, Events, Ends, Early, ResponseTypeOK
<1>5. EndFits'
  BY <1>3 DEF EndFits, StreamFits, Streaming, Ends
<1>6. QED
  BY <1>1, <1>2, <1>4, <1>5

LEMMA TurnFailsKeeps ==
    ASSUME ResponseInv, UNCHANGED route, TurnFails
    PROVE  ResponseInv'
<1> USE DEF ResponseInv, TurnFails, Yield
<1>1. ResponseTypeOK'
  <2>1. marks' \in MarkSet
    BY MarksChange DEF ResponseTypeOK, Actions
  <2>2. QED
    BY <2>1 DEF ResponseTypeOK, Silent, middlewareVars, clientVars, Places, Early, Streaming, Events, Ends
<1>2. DispatchFits' /\ EntryFits' /\ MarksFit'
  BY LateSteps DEF Early, Streaming, StreamFits
<1>3. UNCHANGED <<answer, events>>
  BY DEF Silent, middlewareVars, clientVars
<1>4. StreamFits'
  BY <1>3 DEF StreamFits, Sent, Streaming, Stores, Events, Ends, Early, ResponseTypeOK
<1>5. EndFits'
  BY <1>3 DEF EndFits, StreamFits, Streaming, Ends
<1>6. QED
  BY <1>1, <1>2, <1>4, <1>5

LEMMA TurnCompletesKeeps ==
    ASSUME ResponseInv, UNCHANGED route, TurnCompletes
    PROVE  ResponseInv'
<1> USE DEF ResponseInv, TurnCompletes
<1>1. ResponseTypeOK'
  BY DEF ResponseTypeOK, Silent, middlewareVars, clientVars, Places, Early, Streaming
<1>2. DispatchFits' /\ EntryFits' /\ MarksFit'
  BY LateSteps DEF Early, Streaming, StreamFits
<1>3. UNCHANGED <<answer, events>>
  BY DEF Silent, middlewareVars, clientVars
<1>4. StreamFits'
  BY <1>3 DEF StreamFits, Sent, Streaming, Stores, Events, Ends, Early, ResponseTypeOK
<1>5. EndFits'
  BY <1>3 DEF EndFits, StreamFits, Streaming, Ends
<1>6. QED
  BY <1>1, <1>2, <1>4, <1>5

LEMMA StoreKeeps ==
    ASSUME ResponseInv, UNCHANGED route, Store
    PROVE  ResponseInv'
<1> USE DEF ResponseInv, Store, Yield
<1>1. ResponseTypeOK'
  <2>1. marks' \in MarkSet
    BY MarksChange DEF ResponseTypeOK, Actions
  <2>2. QED
    BY <2>1 DEF ResponseTypeOK, Silent, middlewareVars, clientVars, Places, Early, Streaming, Events, Ends
<1>2. DispatchFits' /\ EntryFits' /\ MarksFit'
  BY LateSteps DEF Early, Streaming, StreamFits
<1>3. UNCHANGED <<answer, events>>
  BY DEF Silent, middlewareVars, clientVars
<1>4. StreamFits'
  BY <1>3 DEF StreamFits, Sent, Streaming, Stores, Events, Ends, Early, ResponseTypeOK
<1>5. EndFits'
  BY <1>3 DEF EndFits, StreamFits, Streaming, Ends
<1>6. QED
  BY <1>1, <1>2, <1>4, <1>5

LEMMA BreakOffKeeps ==
    ASSUME ResponseInv, UNCHANGED route, BreakOff
    PROVE  ResponseInv'
<1> USE DEF ResponseInv, BreakOff
<1>1. ResponseTypeOK'
  BY DEF ResponseTypeOK, Silent, middlewareVars, clientVars, Places, Early, Streaming
<1>2. DispatchFits' /\ EntryFits' /\ MarksFit'
  BY LateSteps DEF Early, Streaming, StreamFits
<1>3. UNCHANGED <<answer, events>>
  BY DEF Silent, middlewareVars, clientVars
<1>4. StreamFits'
  BY <1>3 DEF StreamFits, Sent, Streaming, Stores, Events, Ends, Early, ResponseTypeOK
<1>5. EndFits'
  BY <1>3 DEF EndFits, StreamFits, Streaming, Ends
<1>6. QED
  BY <1>1, <1>2, <1>4, <1>5

LEMMA StreamEndsKeeps ==
    ASSUME ResponseInv, UNCHANGED route, StreamEnds
    PROVE  ResponseInv'
<1> USE DEF ResponseInv, StreamEnds
<1>1. ResponseTypeOK'
  BY DEF ResponseTypeOK, Silent, middlewareVars, clientVars, Places, Early, Streaming
<1>2. DispatchFits' /\ EntryFits' /\ MarksFit'
  BY LateSteps DEF Early, Streaming, StreamFits
<1>3. UNCHANGED <<answer, events>>
  BY DEF Silent, middlewareVars, clientVars
<1>4. StreamFits'
  BY <1>3 DEF StreamFits, Sent, Streaming, Stores, Events, Ends, Early, ResponseTypeOK
<1>5. EndFits'
  BY <1>3 DEF EndFits, StreamFits, Streaming, Ends
<1>6. QED
  BY <1>1, <1>2, <1>4, <1>5

LEMMA ClientLeavesKeeps ==
    ASSUME ResponseInv, UNCHANGED route, ClientLeaves
    PROVE  ResponseInv'
<1> USE DEF ResponseInv, ClientLeaves
<1>1. ResponseTypeOK'
  BY DEF ResponseTypeOK, Silent, middlewareVars, clientVars, Places, Early, Streaming
<1>2. DispatchFits' /\ EntryFits' /\ MarksFit'
  BY LateSteps DEF Early, Streaming, StreamFits
<1>3. UNCHANGED <<answer, events>>
  BY DEF Silent, middlewareVars, clientVars
<1>4. StreamFits'
  BY <1>3 DEF StreamFits, Sent, Streaming, Stores, Events, Ends, Early, ResponseTypeOK
<1>5. EndFits'
  BY <1>3 DEF EndFits, StreamFits, Streaming, Ends
<1>6. QED
  BY <1>1, <1>2, <1>4, <1>5
----------------------------------------------------------------------------
(* The middleware, the client and the clock. *)

LEMMA InsertRowKeeps ==
    ASSUME ResponseInv, UNCHANGED route, InsertRow
    PROVE  ResponseInv'
<1> USE DEF ResponseInv, InsertRow, handlerVars, clientVars
<1>1. ResponseTypeOK'
  BY DEF ResponseTypeOK
<1>2. Append(log, entry) = <<entry>>
  BY DEF DispatchFits
<1>3. DispatchFits'
  BY <1>2 DEF DispatchFits, Healthy
<1>4. MarksFit'
  BY DEF MarksFit, RaisedFits
<1>5. StreamFits'
  BY DEF StreamFits, Sent
<1>6. EndFits'
  BY DEF EndFits
<1>7. EntryFits'
  BY DEF EntryFits, EntryIsTrue, Healthy
<1>8. QED
  BY <1>1, <1>3, <1>4, <1>5, <1>6, <1>7

LEMMA SendHeadKeeps ==
    ASSUME ResponseInv, UNCHANGED route, SendHead
    PROVE  ResponseInv'
<1> USE DEF ResponseInv, SendHead
<1>1. ResponseTypeOK'
  BY DEF ResponseTypeOK, Places
<1>2. DispatchFits'
  BY DEF DispatchFits, Healthy, Early
<1>3. MarksFit'
  BY DEF MarksFit, RaisedFits
<1>4. EntryFits'
  BY DEF EntryFits, EntryIsTrue, Healthy
<1>5. StreamFits'
  BY DEF StreamFits, Sent, Streaming, Early
<1>6. EndFits'
  BY DEF EndFits, StreamFits
<1>7. QED
  BY <1>1, <1>2, <1>3, <1>4, <1>5, <1>6

\* An event more for the client.
LEMMA TakeChunkKeeps ==
    ASSUME ResponseInv, UNCHANGED route, TakeChunk
    PROVE  ResponseInv'
<1> USE DEF ResponseInv, TakeChunk
<1>1. events \in Seq(Events) /\ chunk \in Events
  BY DEF ResponseTypeOK, StreamFits
<1>2. /\ events' \in Seq(Events) /\ events' # <<>>
      /\ DOMAIN events' = DOMAIN events \cup {Len(events) + 1}
      /\ \A i \in DOMAIN events : i < Len(events) + 1 /\ events'[i] = events[i]
      /\ Len(events') = Len(events) + 1
      /\ events'[Len(events) + 1] = chunk
  BY <1>1
<1>3. \A e : Sent(e)' <=> Sent(e) \/ chunk = e
  <2> TAKE e
  <2>1. Sent(e) => Sent(e)'
    BY <1>2 DEF Sent
  <2>2. chunk = e => Sent(e)'
    BY <1>2 DEF Sent
  <2>3. Sent(e)' => Sent(e) \/ chunk = e
    BY <1>2 DEF Sent
  <2>4. QED
    BY <2>1, <2>2, <2>3
<1>4. ResponseTypeOK'
  BY <1>2 DEF ResponseTypeOK, Places, Streaming, middlewareVars
<1>5. DispatchFits' /\ EntryFits'
  BY DEF DispatchFits, EntryFits, EntryIsTrue, Healthy, Early, middlewareVars
<1>6. MarksFit'
  BY DEF MarksFit
<1>7. /\ (Sent("completed"))' <=> Sent("completed") \/ chunk = "completed"
      /\ (Sent("timeout"))' <=> Sent("timeout") \/ chunk = "timeout"
  BY <1>3
<1>8. StreamFits'
  BY <1>1, <1>7 DEF StreamFits, Streaming, Early, Events, Ends, middlewareVars
<1>9. EndFits'
  <2>1. at' \in {"looping", "awaiting"} /\ upstream' = "finished" =>
          events' # <<>> /\ events'[Len(events')] \in {"completed", "error"}
    BY <1>1, <1>2 DEF StreamFits, Ends
  <2>2. at' = "over" => events' # <<>> /\ events'[Len(events')] \in Ends
    BY <1>2 DEF Ends
  <2>3. ASSUME NEW i \in DOMAIN events', NEW j \in DOMAIN events', i < j
        PROVE  /\ events'[i] # "timeout"
               /\ events'[i] = "completed" => events'[j] = "timeout"
    <3>1. i \in DOMAIN events /\ events'[i] = events[i]
      BY <1>1, <1>2, <2>3
    <3>2. CASE j \in DOMAIN events
      BY <1>2, <2>3, <3>1, <3>2 DEF EndFits
    <3>3. CASE j = Len(events) + 1
      BY <1>2, <3>1, <3>3 DEF StreamFits, Streaming, Sent
    <3>4. QED
      BY <1>2, <3>2, <3>3
  <2>4. QED
    BY <2>1, <2>2, <2>3 DEF EndFits
<1>10. QED
  BY <1>4, <1>5, <1>6, <1>8, <1>9

LEMMA ClockKeeps ==
    ASSUME ResponseInv, UNCHANGED route, DeadlinePasses \/ UNCHANGED responseVars
    PROVE  ResponseInv'
<1>1. UNCHANGED <<route, at, raised, marks, upstream, saved, chunk, dispatch, answer,
                  entry, log, unaudited, got, events>>
  BY DEF DeadlinePasses, Silent, responseVars, handlerVars, middlewareVars, clientVars
<1> USE DEF ResponseInv
<1>2. ResponseTypeOK' /\ DispatchFits'
  BY <1>1 DEF ResponseTypeOK, DispatchFits, Healthy
<1>3. MarksFit'
  BY <1>1 DEF MarksFit, RaisedFits
<1>4. EntryFits'
  BY <1>1 DEF EntryFits, EntryIsTrue, Healthy
<1>5. StreamFits'
  BY <1>1 DEF StreamFits, Sent
<1>6. EndFits'
  BY <1>1 DEF EndFits
<1>7. QED
  BY <1>2, <1>3, <1>4, <1>5, <1>6

LEMMA ResponseStep ==
    ResponseInv /\ [ResponseNext \/ Answered]_responseVars => ResponseInv'
<1> SUFFICES ASSUME ResponseInv, [ResponseNext \/ Answered]_responseVars
             PROVE  ResponseInv'
  OBVIOUS
<1>1. CASE UNCHANGED responseVars
  BY <1>1, ClockKeeps DEF responseVars
<1>2. CASE ResponseNext
  <2>1. UNCHANGED route
    BY <1>2 DEF ResponseNext
  <2>2. CASE ServerRuns
    BY <2>1, <2>2, RefuseUnreadKeeps, AnswerOpenKeeps, AuthenticateKeeps, RefuseKeeps, AnswerReadKeeps,
       StartWorkKeeps, TurnTimesOutKeeps, SaveKeeps, HandleErrorKeeps, StartStreamKeeps,
       EnterSlotKeeps, CheckDeadlineKeeps, NextEventTimesOutKeeps, StoreKeeps,
       StreamEndsKeeps DEF ServerRuns
  <2>3. CASE Middleware
    BY <2>1, <2>3, InsertRowKeeps, SendHeadKeeps DEF Middleware
  <2>4. CASE Backend
    BY <2>1, <2>4, SlotRefusedKeeps, CodexFailsKeeps, UnexpectedKeeps, WorkDoneKeeps,
       StatusEventKeeps, RelayNotificationKeeps, TurnFailsKeeps, TurnCompletesKeeps,
       BreakOffKeeps DEF Backend
  <2>5. CASE TakeChunk \/ ClientLeaves \/ DeadlinePasses
    BY <2>1, <2>5, TakeChunkKeeps, ClientLeavesKeeps, ClockKeeps
  <2>6. QED
    BY <1>2, <2>2, <2>3, <2>4, <2>5 DEF ResponseNext
<1>3. QED
  BY <1>1, <1>2 DEF Answered

\* What holds of the answer, its row and its stream in every state of a request.
THEOREM ResponseInvariant == ResponseSpec => []ResponseInv
<1>1. QED
  BY InitResponse, ResponseStep, PTL DEF ResponseSpec
----------------------------------------------------------------------------
(* The properties. *)

\* Whatever the handler raises, the request is audited once, and with the status
\* and the code the client is given.
THEOREM EveryAnswerIsAudited == ResponseSpec => []AnswersAreAudited
<1>1. ASSUME ResponseInv
      PROVE  AnswersAreAudited
  <2>1. log = <<>> \/ log = <<entry>>
    BY <1>1 DEF ResponseInv, DispatchFits
  <2>2. Len(log) <= 1
    <3>1. CASE log = <<>>
      BY <3>1
    <3>2. CASE log = <<entry>>
      BY <3>2
    <3>3. QED
      BY <2>1, <3>1, <3>2
  <2>3. ASSUME got # NoAnswer, ~unaudited, route # "health"
        PROVE  log # <<>> /\ log[1].status = got.status /\ log[1].code = got.code
    <3>1. dispatch = "sent" /\ got = answer
      BY <1>1, <2>3 DEF ResponseInv, DispatchFits
    <3>2. log = <<entry>>
      BY <1>1, <2>1, <2>3, <3>1 DEF ResponseInv, DispatchFits, Healthy
    <3>3. QED
      BY <1>1, <3>1, <3>2 DEF ResponseInv, DispatchFits
  <2>4. QED
    BY <2>2, <2>3 DEF AnswersAreAudited
<1>2. QED
  BY <1>1, ResponseInvariant, PTL

\* What the audit log says of the outcome of a request is true of it.
THEOREM AuditTellsTheTruth == ResponseSpec => []RowsAreTrue
<1>1. ASSUME ResponseInv
      PROVE  RowsAreTrue
  <2>1. log = <<>> \/ (log = <<entry>> /\ EntryIsTrue)
    BY <1>1 DEF ResponseInv, DispatchFits, EntryFits
  <2>2. ASSUME NEW i \in DOMAIN log
        PROVE  log[i] = entry /\ EntryIsTrue
    BY <2>1, <2>2
  <2>3. QED
    BY <2>2 DEF RowsAreTrue, EntryIsTrue
<1>2. QED
  BY <1>1, ResponseInvariant, PTL

\* Who is told of a success, by a 200 or by a completed event, finds it stored.
THEOREM SuccessIsStored == ResponseSpec => []SuccessIsSaved
<1>1. ASSUME ResponseInv
      PROVE  SuccessIsSaved
  <2>1. events \in Seq(Events)
    BY <1>1 DEF ResponseInv, ResponseTypeOK
  <2>2. Told("completed") => Sent("completed")
    BY <2>1 DEF Told, Contains, Sent
  <2>3. Told("completed") => saved
    BY <1>1, <2>2 DEF ResponseInv, StreamFits
  <2>4. got.status = 200 => answer.status = 200
    BY <1>1 DEF ResponseInv, DispatchFits, NoAnswer
  <2>5. got.status = 200 /\ route \in Stores => saved
    BY <1>1, <2>4 DEF ResponseInv, StreamFits
  <2>6. QED
    BY <2>3, <2>5 DEF SuccessIsSaved
<1>2. QED
  BY <1>1, ResponseInvariant, PTL

\* A stream that came to its end has said which, and said nothing after it.
THEOREM StreamsSayHowTheyEnd == ResponseSpec => []StreamsTellTheirEnd
<1>1. ASSUME ResponseInv
      PROVE  StreamsTellTheirEnd
  <2>1. got.status = 200 => answer.status = 200
    BY <1>1 DEF ResponseInv, DispatchFits, NoAnswer
  <2>2. at = "over" /\ route = "stream" /\ got.status = 200
        => events # <<>> /\ Last(events) \in {"completed", "error", "timeout"}
    BY <1>1, <2>1 DEF ResponseInv, EndFits, Ends, Last
  <2>3. QED
    BY <1>1, <2>2 DEF ResponseInv, EndFits, StreamsTellTheirEnd
<1>2. QED
  BY <1>1, ResponseInvariant, PTL
=============================================================================
