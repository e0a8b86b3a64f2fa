-------------------------------- MODULE Pages --------------------------------
(***************************************************************************)
(* GET /v1/threads and GET /v1/chat/conversations: a client goes through   *)
(* its rows page by page, each page one SELECT (list_threads_for_owner,    *)
(* list_conversations_for_owner), and asks for the next one with the last  *)
(* id it was given as the cursor.  Between two pages rows are created,     *)
(* archived and deleted by other requests.                                 *)
(*                                                                         *)
(* Ids are ordered but say nothing about age: a new row may come anywhere. *)
(***************************************************************************)
EXTENDS Integers, Sequences, FiniteSets, SequencesExt, FiniteSetsExt

CONSTANTS
    Ids,       \* the ids of rows, integers for their order
    MaxLimit   \* bound: the longest page asked for

ASSUME PagesAssumption == Ids \subseteq Nat /\ IsFiniteSet(Ids) /\ MaxLimit \in Nat \ {0}

VARIABLES
    row,      \* the client's rows; row[id]: "free", "open", "archived" or "deleted"
    filter,   \* the archived parameter: "all", "open" or "archived"
    limit,    \* the limit parameter
    cursor,   \* the cursor of the next page
    listed,   \* the ids the client has been given
    at,       \* "asking" or "done"
    steady    \* history: the rows that have matched ever since the first page

listVars == <<filter, limit, cursor, listed, at>>
pagesVars == <<row, listVars, steady>>

NoCursor == Max(Ids) + 1

Kinds(f) == IF f = "all" THEN {"open", "archived"} ELSE {f}
Matching(rows, f) == {id \in Ids : rows[id] \in Kinds(f)}

PagesInit ==
    /\ row \in [Ids -> {"free", "open", "archived"}]
    /\ filter \in {"all", "open", "archived"}
    /\ limit \in 1 .. MaxLimit
    /\ cursor = NoCursor /\ listed = <<>> /\ at = "asking"
    /\ steady = Matching(row, filter)

\* ORDER BY ... DESC.
Descending(ids) ==
    CHOOSE s \in [1 .. Cardinality(ids) -> ids] :
        Range(s) = ids /\ \A i, j \in DOMAIN s : i < j => s[i] > s[j]
FirstOf(s, n) == SubSeq(s, 1, IF n < Len(s) THEN n ELSE Len(s))
----------------------------------------------------------------------------
\* Mutant: the cursor is the first id of the next page.
PageFromCursor == FirstOf(Descending({id \in Matching(row, filter) : id <= cursor}), limit)

\* Mutant: pages by OFFSET, as many rows further as the client has.
PageByOffset ==
    LET all == Descending(Matching(row, filter))
    IN SubSeq(all, Len(listed) + 1, IF Len(listed) + limit < Len(all)
                                    THEN Len(listed) + limit ELSE Len(all))

\* WHERE owner_client_id = ? [AND archived = ?] AND thread_id < cursor
\* ORDER BY thread_id DESC LIMIT limit.
Page == FirstOf(Descending({id \in Matching(row, filter) : id < cursor}), limit)

\* A page shorter than the limit is the last one.
GetPage ==
    /\ at = "asking"
    /\ listed' = listed \o Page
    /\ cursor' = IF Page = <<>> THEN cursor ELSE Last(Page)
    /\ at' = IF Len(Page) < limit THEN "done" ELSE "asking"
    /\ UNCHANGED <<row, filter, limit, steady>>

\* Another request creates, archives or deletes a row of the client.  An id is
\* used once.
RowChanges(id) ==
    /\ \/ row[id] = "free" /\ row' = [row EXCEPT ![id] = "open"]
       \/ row[id] = "open" /\ row' = [row EXCEPT ![id] = "archived"]
       \/ row[id] \in {"open", "archived"} /\ row' = [row EXCEPT ![id] = "deleted"]
    /\ steady' = steady \cap Matching(row', filter)
    /\ UNCHANGED listVars

PagesNext == GetPage \/ \E id \in Ids : at = "asking" /\ RowChanges(id)

Listed == at = "done" /\ UNCHANGED pagesVars

PagesSpec == PagesInit /\ [][PagesNext \/ Listed]_pagesVars
----------------------------------------------------------------------------
PagesTypeOK ==
    /\ row \in [Ids -> {"free", "open", "archived", "deleted"}]
    /\ filter \in {"all", "open", "archived"}
    /\ limit \in 1 .. MaxLimit
    /\ cursor \in Ids \cup {NoCursor}
    /\ listed \in Seq(Ids)
    /\ at \in {"asking", "done"}
    /\ steady \subseteq Ids

\* The pages put together are one descending list: no row is listed twice,
\* whatever comes and goes between two pages.
ListedInOrder == \A i, j \in DOMAIN listed : i < j => listed[i] > listed[j]

\* A row that matched from the first page to the last is listed.
SteadyRowsListed == at = "done" => steady \subseteq Range(listed)
=============================================================================
