-------------------------- MODULE MigrationsProofs --------------------------
(***************************************************************************)
(* The migrations are safe to race and to break off, for every number of   *)
(* processes and of crashes.  StampIsTrue is not inductive: that a process *)
(* may stamp the file rests on what its earlier statements have ensured,   *)
(* and that stays true because no other process ever takes it away.        *)
(***************************************************************************)
EXTENDS Migrations, TLAPS

\* What the statements before the one p comes to have ensured.
Ensured(p) ==
    /\ at[p] \notin {"stopped", "failed", "schema_meta"} => "schema_meta" \in tables
    /\ at[p] \notin {"stopped", "failed", "schema_meta", "others"} => "others" \in tables
    /\ at[p] \notin {"stopped", "failed"} \cup Tables => "chat_conversations" \in tables
    /\ at[p] \in {"select", "insert", "update", "commit"} => column
    /\ at[p] \in {"insert", "update", "commit"} => version <= SchemaVersion
    /\ at[p] = "commit" => writer = p
    /\ writer = p => at[p] = "commit"

\* Who is in company knows it, and so does everyone whose file has changed since
\* the look at it.
Watched(p) ==
    /\ p \in Running /\ Running # {p} => p \in met
    /\ at[p] = "alter" /\ column => p \in met
    /\ at[p] = "insert" /\ version # 0 => p \in met

MigrationsInv ==
    /\ MigrationsTypeOK
    /\ StampIsTrue /\ MigratedIsStamped /\ FailsOnlyInCompany
    /\ \A p \in Processes : Ensured(p) /\ Watched(p)

\* A step of p, and nobody else.
Step(p) ==
    /\ \/ Start(p) \/ Create(p) \/ CheckColumn(p) \/ Alter(p) \/ SelectVersion(p)
       \/ WriteVersion(p) \/ InsertFails(p) \/ Commit(p) \/ BusyTimeout(p) \/ Crash(p)
    /\ WatchMet

LEMMA NextIsAStep == MigrationsNext <=> \E p \in Processes : Step(p)
BY DEF MigrationsNext, Migrate, Step

LEMMA TablesAre == Tables = {"schema_meta", "others", "chat_conversations"}
BY DEF Tables, AfterCreate

LEMMA InitEstablishes == MigrationsInit => MigrationsInv
<1> SUFFICES ASSUME MigrationsInit PROVE MigrationsInv
  OBVIOUS
<1> USE MigrationsAssumption, TablesAre DEF MigrationsInit, SchemaVersion
<1>1. MigrationsTypeOK
  <2>1. tables \subseteq Tables /\ column \in BOOLEAN /\ version \in 0 .. 4
    <3>1. tables \subseteq Tables
      OBVIOUS
    <3>2. column \in BOOLEAN
      OBVIOUS
    <3>3. version \in 0 .. 4
      OBVIOUS
    <3>4. QED
      BY <3>1, <3>2, <3>3
  <2>2. writer \in Processes \cup {Nobody} /\ crashes \in 0 .. MaxCrashes /\ met \subseteq Processes
    OBVIOUS
  <2>3. at \in [Processes -> Writing \cup {"stopped", "table_info", "select", "commit",
                                           "failed", "migrated"}]
    OBVIOUS
  <2>4. QED
    BY <2>1, <2>2, <2>3 DEF MigrationsTypeOK
<1>2. StampIsTrue
  BY DEF StampIsTrue, Complete
<1>3. MigratedIsStamped /\ FailsOnlyInCompany
  BY DEF MigratedIsStamped, FailsOnlyInCompany
<1>4. ASSUME NEW p \in Processes PROVE Ensured(p) /\ Watched(p)
  BY DEF Ensured, Watched, Running, Nobody
<1>5. QED
  BY <1>1, <1>2, <1>3, <1>4 DEF MigrationsInv

\* The file only grows, and nobody else moves or loses the write lock.
LEMMA StepIsLocal ==
    ASSUME MigrationsInv, NEW p \in Processes, Step(p)
    PROVE  /\ MigrationsTypeOK'
           /\ tables \subseteq tables' /\ (column => column')
           /\ version' >= version /\ (version <= SchemaVersion => version' <= SchemaVersion)
           /\ \A q \in Processes \ {p} : at'[q] = at[q] /\ (writer' = q <=> writer = q)
<1> USE MigrationsAssumption, TablesAre
    DEF MigrationsInv, MigrationsTypeOK, Ensured, SchemaVersion, Writing, fileVars, GoTo,
        CanWrite, Step
<1>1. met' \subseteq Processes
  BY DEF WatchMet, Running
<1>2. CASE Start(p)
  BY <1>1, <1>2 DEF Start
<1>3. CASE Create(p)
  <2> USE <1>3 DEF Create
  <2>1. AfterCreate[at[p]] \in {"others", "chat_conversations", "table_info"}
    BY DEF AfterCreate
  <2>2. tables' \subseteq Tables /\ tables \subseteq tables'
    OBVIOUS
  <2>3. column' \in BOOLEAN /\ (column => column')
    OBVIOUS
  <2>4. UNCHANGED <<version, writer, crashes>>
    OBVIOUS
  <2>5. /\ at' \in [Processes -> Writing \cup {"stopped", "table_info", "select", "commit",
                                               "failed", "migrated"}]
        /\ \A q \in Processes \ {p} : at'[q] = at[q]
    BY <2>1
  <2>6. QED
    BY <1>1, <2>2, <2>3, <2>4, <2>5
<1>4. CASE CheckColumn(p)
  BY <1>1, <1>4 DEF CheckColumn
<1>5. CASE Alter(p)
  BY <1>1, <1>5 DEF Alter
<1>6. CASE SelectVersion(p)
  BY <1>1, <1>6 DEF SelectVersion
<1>7. CASE WriteVersion(p)
  BY <1>1, <1>7 DEF WriteVersion
<1>8. CASE InsertFails(p)
  BY <1>1, <1>8 DEF InsertFails
<1>9. CASE Commit(p)
  BY <1>1, <1>9 DEF Commit
<1>10. CASE BusyTimeout(p)
  BY <1>1, <1>10 DEF BusyTimeout
<1>11. CASE Crash(p)
  BY <1>1, <1>11 DEF Crash
<1>12. QED
  BY <1>2, <1>3, <1>4, <1>5, <1>6, <1>7, <1>8, <1>9, <1>10, <1>11

\* Each statement ensures what the next one relies on.
LEMMA StepEnsures ==
    ASSUME MigrationsInv, NEW p \in Processes, Step(p), NEW q \in Processes
    PROVE  Ensured(q)'
<1> USE MigrationsAssumption, TablesAre
    DEF MigrationsInv, MigrationsTypeOK, Ensured, SchemaVersion, Writing, fileVars, GoTo,
        CanWrite, Step
<1>1. CASE q # p
  BY <1>1, StepIsLocal
<1>2. ASSUME q = p, Start(p) PROVE Ensured(q)'
  BY <1>2 DEF Start
<1>3. ASSUME q = p, Create(p) PROVE Ensured(q)'
  BY <1>3 DEF Create, AfterCreate
<1>4. ASSUME q = p, CheckColumn(p) PROVE Ensured(q)'
  BY <1>4 DEF CheckColumn
<1>5. ASSUME q = p, Alter(p) PROVE Ensured(q)'
  BY <1>5 DEF Alter
<1>6. ASSUME q = p, SelectVersion(p) PROVE Ensured(q)'
  BY <1>6 DEF SelectVersion
<1>7. ASSUME q = p, WriteVersion(p) PROVE Ensured(q)'
  BY <1>7 DEF WriteVersion
<1>8. ASSUME q = p, InsertFails(p) PROVE Ensured(q)'
  BY <1>8 DEF InsertFails
<1>9. ASSUME q = p, Commit(p) PROVE Ensured(q)'
  BY <1>9 DEF Commit
<1>10. ASSUME q = p, BusyTimeout(p) PROVE Ensured(q)'
  BY <1>10 DEF BusyTimeout
<1>11. ASSUME q = p, Crash(p) PROVE Ensured(q)'
  BY <1>11 DEF Crash
<1>12. QED
  BY <1>1, <1>2, <1>3, <1>4, <1>5, <1>6, <1>7, <1>8, <1>9, <1>10, <1>11

\* Only Commit stamps the file, and its process has ensured the rest.
LEMMA StepStampsTruly ==
    ASSUME MigrationsInv, NEW p \in Processes, Step(p)
    PROVE  StampIsTrue' /\ MigratedIsStamped'
<1> USE StepIsLocal, TablesAre
    DEF MigrationsInv, MigrationsTypeOK, StampIsTrue, MigratedIsStamped, Complete,
        SchemaVersion
<1>1. Complete => Complete'
  OBVIOUS
<1>2. version' = version \/ Commit(p)
  BY DEF Step, Start, Create, CheckColumn, Alter, SelectVersion, WriteVersion, InsertFails,
         BusyTimeout, Crash, fileVars
<1>3. Commit(p) => Complete' /\ version' = SchemaVersion
  <2> SUFFICES ASSUME Commit(p) PROVE Complete' /\ version' = SchemaVersion
    OBVIOUS
  <2>1. at[p] = "commit" /\ Ensured(p)
    BY DEF Commit
  <2>2. Tables \subseteq tables /\ column
    BY <2>1 DEF Ensured
  <2>3. tables' = tables /\ column' = column /\ version' = SchemaVersion
    BY DEF Commit
  <2>4. QED
    BY <2>2, <2>3
<1>4. StampIsTrue'
  BY <1>1, <1>2, <1>3
<1>5. at'[p] = "migrated" => (at[p] = "select" /\ version >= SchemaVersion) \/ Commit(p)
  BY DEF Step, Start, Create, CheckColumn, Alter, SelectVersion, WriteVersion, InsertFails,
         BusyTimeout, Crash, fileVars, GoTo, AfterCreate
<1>6. MigratedIsStamped'
  BY <1>1, <1>3, <1>4, <1>5
<1>7. QED
  BY <1>4, <1>6

\* Whoever is disturbed, or fails, has been in company.
LEMMA StepIsWatched ==
    ASSUME MigrationsInv, NEW p \in Processes, Step(p)
    PROVE  FailsOnlyInCompany' /\ \A q \in Processes : Watched(q)'
<1> USE StepIsLocal DEF MigrationsInv, MigrationsTypeOK
<1>1. met \subseteq met' /\ \A q \in Running' : Running' # {q} => q \in met'
  BY DEF Step, WatchMet
<1>2. ASSUME NEW q \in Processes \ {p}, NEW r \in Processes \ {q}, q \in Running, r \in Running
      PROVE  q \in met'
  BY <1>1, <1>2 DEF Watched
<1>3. p \notin Running => Start(p)
  BY TablesAre DEF Step, Running, Create, CheckColumn, Alter, SelectVersion, WriteVersion,
         InsertFails, Commit, BusyTimeout, Crash, Writing
<1>4. Start(p) => UNCHANGED fileVars /\ at'[p] = "schema_meta"
  BY DEF Start, GoTo
<1>5. ASSUME NEW q \in Processes \ {p} PROVE Watched(q)' /\ (at'[q] = "failed" => q \in met')
  <2>1. at'[q] = at[q] /\ (at[q] \in {"alter", "insert"} => q \in Running)
    BY DEF Running
  <2>2. at'[q] = "alter" /\ column' => q \in met'
    BY <1>1, <1>2, <1>3, <1>4, <2>1 DEF Watched, fileVars
  <2>3. at'[q] = "insert" /\ version' # 0 => q \in met'
    BY <1>1, <1>2, <1>3, <1>4, <2>1 DEF Watched, fileVars
  <2>4. at'[q] = "failed" => q \in met'
    BY <1>1, <2>1 DEF FailsOnlyInCompany
  <2>5. QED
    BY <1>1, <2>2, <2>3, <2>4 DEF Watched
<1>6. Watched(p)'
  <2>1. at'[p] = "alter" => CheckColumn(p) /\ ~column
    BY TablesAre DEF Step, Start, Create, CheckColumn, Alter, SelectVersion, WriteVersion,
       InsertFails, Commit, BusyTimeout, Crash, GoTo, AfterCreate
  <2>2. at'[p] = "insert" => SelectVersion(p) /\ version = 0
    BY TablesAre DEF Step, Start, Create, CheckColumn, Alter, SelectVersion, WriteVersion,
       InsertFails, Commit, BusyTimeout, Crash, GoTo, AfterCreate
  <2>3. QED
    BY <1>1, <2>1, <2>2 DEF Watched, CheckColumn, SelectVersion, fileVars
<1>7. at'[p] = "failed" => p \in met'
  <2>1. at'[p] = "failed" => (Alter(p) /\ column) \/ InsertFails(p) \/ BusyTimeout(p)
    BY TablesAre DEF Step, Start, Create, CheckColumn, Alter, SelectVersion, WriteVersion,
       InsertFails, Commit, BusyTimeout, Crash, GoTo, AfterCreate
  <2>2. Alter(p) /\ column => p \in met'
    BY <1>1 DEF Alter, Watched
  <2>3. InsertFails(p) => p \in met'
    BY <1>1 DEF InsertFails, Watched
  <2>4. BusyTimeout(p) => p \in met'
    <3> SUFFICES ASSUME BusyTimeout(p) PROVE p \in met'
      OBVIOUS
    <3>1. writer \in Processes \ {p} /\ at[writer] = "commit"
      BY DEF BusyTimeout, CanWrite, Ensured
    <3>2. p \in Running /\ writer \in Running
      BY <3>1, TablesAre DEF BusyTimeout, Running, Writing
    <3>3. QED
      BY <1>1, <3>1, <3>2 DEF Watched
  <2>5. QED
    BY <2>1, <2>2, <2>3, <2>4
<1>8. QED
  BY <1>5, <1>6, <1>7 DEF FailsOnlyInCompany

LEMMA MigrationsInductive == MigrationsInv /\ [MigrationsNext \/ AllMigrated]_migrationVars => MigrationsInv'
<1>1. ASSUME MigrationsInv, NEW p \in Processes, Step(p) PROVE MigrationsInv'
  BY <1>1, StepIsLocal, StepEnsures, StepStampsTruly, StepIsWatched DEF MigrationsInv
<1>2. ASSUME MigrationsInv, UNCHANGED migrationVars PROVE MigrationsInv'
  BY <1>2 DEF migrationVars, fileVars, MigrationsInv, MigrationsTypeOK, StampIsTrue,
     MigratedIsStamped, FailsOnlyInCompany, Complete, Ensured, Watched, Running
<1>3. QED
  BY <1>1, <1>2, NextIsAStep DEF AllMigrated

\* migrations.py:107-131: no crash and no race leaves a stamp on half a schema.
THEOREM StampIsAlwaysTrue == MigrationsSpec => []StampIsTrue
BY InitEstablishes, MigrationsInductive, PTL DEF MigrationsSpec, MigrationsInv

\* cli/_db.py:10-14, main.py:39: whoever comes through works on the whole schema.
THEOREM WhoMigratesIsStamped == MigrationsSpec => []MigratedIsStamped
BY InitEstablishes, MigrationsInductive, PTL DEF MigrationsSpec, MigrationsInv

\* Run alone, run_migrations never fails, whatever a broken-off run has left.
THEOREM AloneItSucceeds == MigrationsSpec => []FailsOnlyInCompany
BY InitEstablishes, MigrationsInductive, PTL DEF MigrationsSpec, MigrationsInv

\* migrations.py:124: the stamp of a later version is left alone.
THEOREM VersionOnlyRises == MigrationsSpec => VersionNeverFalls
<1>1. MigrationsInv /\ [MigrationsNext \/ AllMigrated]_migrationVars => [version' >= version]_version
  BY StepIsLocal, NextIsAStep DEF AllMigrated, migrationVars, fileVars
<1>2. QED
  BY InitEstablishes, MigrationsInductive, <1>1, PTL DEF MigrationsSpec, VersionNeverFalls
=============================================================================
