----------------------------- MODULE Migrations -----------------------------
(***************************************************************************)
(* run_migrations (app/db/migrations.py), run by the server at its start   *)
(* (main.py:39) and by every administrator's command (cli/_db.py), on one  *)
(* SQLite file and possibly at the same time.                              *)
(*                                                                         *)
(* "with conn" makes less of a transaction of it than it seems: Python's   *)
(* sqlite3 opens one only before INSERT, UPDATE or DELETE, so that every   *)
(* CREATE and the ALTER commit by themselves.  A process may die between   *)
(* any two statements and is started again.                                *)
(***************************************************************************)
EXTENDS Integers

CONSTANTS
    Processes,   \* the server and the commands
    MaxCrashes   \* bound: how often a process dies in the middle

Nobody == "nobody"
SchemaVersion == 3

ASSUME MigrationsAssumption == MaxCrashes \in Nat /\ Nobody \notin Processes

VARIABLES
    tables,    \* the tables in the file
    column,    \* chat_conversations has first_message_preview
    version,   \* schema_meta.schema_version; 0: no row
    writer,    \* the process with a transaction open that has written, or Nobody
    at,        \* at[p]: the statement p comes to
    crashes,   \* how often a process has died
    met        \* history: the processes that ran next to another one

fileVars == <<tables, column, version>>
migrationVars == <<fileVars, writer, at, crashes, met>>

\* The CREATE statements in order, each with the statement after it.  "others"
\* stands for the tables and indexes of version 1.
AfterCreate == [schema_meta |-> "others", others |-> "chat_conversations",
                chat_conversations |-> "table_info"]
Tables == DOMAIN AfterCreate

\* A file that is new, of an earlier version, up to date, or of a later version.
MigrationsInit ==
    /\ \/ tables = {} /\ column = FALSE /\ version = 0
       \/ tables = {"schema_meta", "others"} /\ column = FALSE /\ version = 1
       \/ tables = Tables /\ column = FALSE /\ version = 2
       \/ tables = Tables /\ column = TRUE /\ version \in {3, 4}
    /\ writer = Nobody
    /\ at = [p \in Processes |-> "stopped"]
    /\ crashes = 0 /\ met = {}

GoTo(p, statement) == at' = [at EXCEPT ![p] = statement]

\* The statements that change the file, and the processes between two statements.
Writing == Tables \cup {"alter", "insert", "update"}
Running == {p \in Processes : at[p] \notin {"stopped", "failed", "migrated"}}

CanWrite(p) == writer \in {Nobody, p}
----------------------------------------------------------------------------
\* The process, or the command, is started, again after it failed: the server by
\* Docker (restart: unless-stopped), a command by the administrator.
Start(p) ==
    /\ at[p] \in {"stopped", "failed"}
    /\ GoTo(p, "schema_meta")
    /\ UNCHANGED <<fileVars, writer, crashes>>

\* Mutant: CREATE TABLE without IF NOT EXISTS.
CreateAnew(p) ==
    /\ at[p] \in Tables
    /\ CanWrite(p)
    /\ IF at[p] \in tables
       THEN GoTo(p, "failed") /\ UNCHANGED <<tables, column>>
       ELSE /\ tables' = tables \cup {at[p]}
            /\ column' = (column \/ at[p] = "chat_conversations")
            /\ GoTo(p, AfterCreate[at[p]])
    /\ UNCHANGED <<version, writer, crashes>>

\* CREATE TABLE IF NOT EXISTS: a table that is there stays as it is.
Create(p) ==
    /\ at[p] \in Tables
    /\ at[p] \in tables \/ CanWrite(p)
    /\ tables' = tables \cup {at[p]}
    /\ column' = (column \/ (at[p] = "chat_conversations" /\ at[p] \notin tables))
    /\ GoTo(p, AfterCreate[at[p]])
    /\ UNCHANGED <<version, writer, crashes>>

\* Mutant: the CREATE has the column, so nothing is altered.
CheckColumnNever(p) ==
    /\ at[p] = "table_info"
    /\ GoTo(p, "select")
    /\ UNCHANGED <<fileVars, writer, crashes>>

\* PRAGMA table_info: is the column there?
CheckColumn(p) ==
    /\ at[p] = "table_info"
    /\ GoTo(p, IF column THEN "select" ELSE "alter")
    /\ UNCHANGED <<fileVars, writer, crashes>>

\* Mutant: ALTER TABLE is tried until it works.
AlterUntilItWorks(p) ==
    /\ at[p] = "alter"
    /\ CanWrite(p)
    /\ column' = TRUE
    /\ GoTo(p, IF column THEN "alter" ELSE "select")
    /\ UNCHANGED <<tables, version, writer, crashes>>

\* ALTER TABLE ADD COLUMN raises if another process has added it by now.
Alter(p) ==
    /\ at[p] = "alter"
    /\ CanWrite(p)
    /\ column' = TRUE
    /\ GoTo(p, IF column THEN "failed" ELSE "select")
    /\ UNCHANGED <<tables, version, writer, crashes>>

\* Mutant: any other version is replaced.
SelectVersionDiffers(p) ==
    /\ at[p] = "select"
    /\ GoTo(p, CASE version = 0 -> "insert"
                 [] version # 0 /\ version # SchemaVersion -> "update"
                 [] OTHER -> "migrated")
    /\ UNCHANGED <<fileVars, writer, crashes>>

\* Read outside of any transaction.
SelectVersion(p) ==
    /\ at[p] = "select"
    /\ GoTo(p, CASE version = 0 -> "insert"
                 [] version \in 1 .. SchemaVersion - 1 -> "update"
                 [] OTHER -> "migrated")
    /\ UNCHANGED <<fileVars, writer, crashes>>

\* The row of the version is written in a transaction; a second INSERT of it
\* violates the primary key.
WriteVersion(p) ==
    /\ CanWrite(p)
    /\ \/ at[p] = "insert" /\ version = 0
       \/ at[p] = "update"
    /\ writer' = p
    /\ GoTo(p, "commit")
    /\ UNCHANGED <<fileVars, crashes>>

InsertFails(p) ==
    /\ at[p] = "insert" /\ version # 0
    /\ CanWrite(p)
    /\ GoTo(p, "failed")
    /\ UNCHANGED <<fileVars, writer, crashes>>

\* Mutant: no "with conn", and the connection is closed without a commit.
CommitForgotten(p) ==
    /\ at[p] = "commit"
    /\ writer' = Nobody
    /\ GoTo(p, "migrated")
    /\ UNCHANGED <<fileVars, crashes>>

\* The end of "with conn".
Commit(p) ==
    /\ at[p] = "commit"
    /\ version' = SchemaVersion
    /\ writer' = Nobody
    /\ GoTo(p, "migrated")
    /\ UNCHANGED <<tables, column, crashes>>

\* busy_timeout: another process has written and does not commit for five seconds.
BusyTimeout(p) ==
    /\ at[p] \in Writing
    /\ ~CanWrite(p)
    /\ GoTo(p, "failed")
    /\ UNCHANGED <<fileVars, writer, crashes>>

\* The process dies.  SQLite forgets what it has not committed.
Crash(p) ==
    /\ p \in Running
    /\ crashes < MaxCrashes
    /\ crashes' = crashes + 1
    /\ writer' = IF writer = p THEN Nobody ELSE writer
    /\ GoTo(p, "stopped")
    /\ UNCHANGED fileVars
----------------------------------------------------------------------------
\* Two processes are about it at the same time.
WatchMet == met' = IF \E p, q \in Running' : p # q THEN met \cup Running' ELSE met

Migrate(p) ==
    /\ \/ Start(p) \/ Create(p) \/ CheckColumn(p) \/ Alter(p) \/ SelectVersion(p)
       \/ WriteVersion(p) \/ InsertFails(p) \/ Commit(p)
    /\ WatchMet

MigrationsNext == \E p \in Processes :
    Migrate(p) \/ ((BusyTimeout(p) \/ Crash(p)) /\ WatchMet)

AllMigrated ==
    /\ \A p \in Processes : at[p] = "migrated"
    /\ UNCHANGED migrationVars

MigrationsSpec == MigrationsInit /\ [][MigrationsNext \/ AllMigrated]_migrationVars

\* Processes run, and one that failed is started again.
FairMigrationsSpec ==
    MigrationsSpec /\ \A p \in Processes : WF_migrationVars(Migrate(p))
----------------------------------------------------------------------------
MigrationsTypeOK ==
    /\ tables \subseteq Tables
    /\ column \in BOOLEAN
    /\ version \in 0 .. 4
    /\ writer \in Processes \cup {Nobody}
    /\ at \in [Processes -> Writing \cup {"stopped", "table_info", "select", "commit",
                                          "failed", "migrated"}]
    /\ crashes \in 0 .. MaxCrashes
    /\ met \subseteq Processes

Complete == tables = Tables /\ column

\* A file stamped with the current version has everything of that version: no
\* crash or race leaves a stamp on half a schema.
StampIsTrue == version >= SchemaVersion => Complete

\* Whoever comes through run_migrations works on a complete schema, stamped.
MigratedIsStamped == \A p \in Processes : at[p] = "migrated" => Complete /\ version >= SchemaVersion

\* run_migrations is repeatable: it fails only for a process that has met another
\* one, in this run or in an earlier one of its own (met is never reset), never
\* because of what a broken-off run has left in the file.
FailsOnlyInCompany == \A p \in Processes : at[p] = "failed" => p \in met

\* A file of a later version is never stamped as an earlier one.
VersionNeverFalls == [][version' >= version]_version

\* Though two processes may make each other fail, everyone comes through who is
\* started again.
EveryoneMigrates == \A p \in Processes : <>(at[p] = "migrated")
=============================================================================
