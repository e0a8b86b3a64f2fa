---------------------------- MODULE ThreadStore ----------------------------
(***************************************************************************)
(* The tables codex_threads and chat_conversations (app/db/threads.py,     *)
(* app/db/chat.py), reached through Database.run.  A row is kept down to   *)
(* owner_client_id, archived and last_turn_id; a missing row has no owner. *)
(* Timestamps, repositories and previews are left out.                     *)
(*                                                                         *)
(* Database.run executes one function at a time, in the order in which the *)
(* tasks asked for its asyncio.Lock: writes is that queue.  Reads need no  *)
(* place in it: a read that waits behind a write is a read that was asked  *)
(* for later.  A worker thread is not cancelled with its task: the lock    *)
(* goes to the next task while the stray worker goes on, on the same       *)
(* connection and in the same transaction.  A call that runs next to it    *)
(* may find its write rolled back by the stray one and still return, or    *)
(* committed by it and still raise; module Database has the steps.         *)
(***************************************************************************)
EXTENDS Domain, Sequences, SequencesExt

VARIABLES
    rows,      \* rows[table][t], as committed
    writes,    \* the requests whose write waits for the connection, in order
    stray,     \* requests cancelled during their write, whose worker may yet write
    leaving,   \* requests whose stray worker has written and not let go yet
    disturbed  \* history: requests with a call of their own next to a stray worker

strayVars == <<stray, leaving, disturbed>>
storeVars == <<rows, writes, strayVars>>

Tables == {"codex_threads", "chat_conversations"}

Row == [owner : Clients \cup {NoClient}, archived : BOOLEAN,
        lastTurn : Requests \cup {NoRequest}]

NewRow(c) == [owner |-> c, archived |-> FALSE, lastTurn |-> NoRequest]
NoRow == NewRow(NoClient)

HasRow(table, t) == rows[table][t].owner # NoClient

\* INSERT, with last_turn_id NULL.  A second INSERT of the same primary key
\* raises and leaves the row alone.
InsertRow(table, t, c) ==
    rows' = IF HasRow(table, t) THEN rows
            ELSE [rows EXCEPT ![table][t] = NewRow(c)]

\* UPDATE ... SET last_turn_id WHERE thread_id: silent when there is no row.
TouchRow(table, t, r) ==
    rows' = IF HasRow(table, t)
            THEN [rows EXCEPT ![table][t].lastTurn = r]
            ELSE rows

\* UPDATE ... SET archived = 1, for which the row has been looked up.
ArchiveRow(t) ==
    rows' = IF HasRow("codex_threads", t)
            THEN [rows EXCEPT !["codex_threads"][t].archived = TRUE]
            ELSE rows

\* DELETE FROM chat_conversations.
DeleteRow(t) == rows' = [rows EXCEPT !["chat_conversations"][t] = NoRow]

\* Mutant: the task that asked last writes first.
AskToWriteNext(r) == writes' = <<r>> \o writes

AskToWrite(r) == writes' = Append(writes, r)

IsNextToWrite(r) == writes # <<>> /\ Head(writes) = r

WriteDone == writes' = Tail(writes)

\* A task that is cancelled while it waits leaves the queue.
WithdrawWrite(r) ==
    \E i \in DOMAIN writes : writes[i] = r /\ writes' = RemoveAt(writes, i)

\* The requests whose stray workers use the connection.
Strays == stray \cup leaving

\* A call of r runs, next to whatever stray workers there are.
MeetStrays(r) == disturbed' = IF Strays = {} THEN disturbed ELSE disturbed \cup {r}

StoreTypeOK ==
    /\ rows \in [Tables -> [Threads -> Row]]
    /\ writes \in Seq(Requests)
    /\ stray \subseteq Requests
    /\ leaving \subseteq Requests
    /\ disturbed \subseteq Requests
=============================================================================
