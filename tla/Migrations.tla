----------------------------- MODULE Migrations -----------------------------
(***************************************************************************)
(* godo db generate, migrate, rollback and status (cli/godo/database.go,   *)
(* core/orm/dbtool/migrations.go) run by several processes on one          *)
(* directory of migrations and one database, with failing steps and kills. *)
(*                                                                         *)
(* A process is a terminal that runs one command after another.  generate  *)
(* holds the project lock (flock); migrate and rollback read the files     *)
(* first and then hold the database's migration lock until their           *)
(* transaction ends.  A checksum is the pair of contents it is taken of.   *)
(* Besides generated statements a migration may hold the developer's SQL,  *)
(* which counts what it adds to and takes from the data of its version.    *)
(***************************************************************************)
EXTENDS Schema, Integers, FiniteSets

CONSTANTS
  Processes, NoProcess,
  Dialect,
  ModelSets,    \* what the schema program may register
  MaxVersion, MaxKills, MaxEdits   \* bounds

ASSUME MigrationsAssumption ==
  /\ NoProcess \notin Processes
  /\ Dialect \in Dialects
  /\ ModelSets \subseteq Seq(Models)
  /\ MaxVersion \in Nat \ {0} /\ MaxKills \in Nat /\ MaxEdits \in Nat

VARIABLES
  models,        \* what the schema program registers now
  files,         \* of db/migrations
  schemaLock,    \* db/schema.lock.json
  projectLock,   \* holder of the flock on db/.godo.lock
  pc, plan, loaded, seen,   \* per process
  dbLock,        \* holder of the advisory lock, or of the lock row
  applied,       \* rows of _godo_migrations
  db,            \* what the migrations have made of the database
  kills,         \* kills, and removals that failed
  edits,
  torn,          \* history: a generate was killed, or failed to clean up, in between
  strayed        \* history: versions whose files changed or went away

project == <<models, files, schemaLock, projectLock>>
database == <<dbLock, applied, db>>
counts == <<kills, edits, torn, strayed>>
vars == <<project, pc, plan, loaded, seen, database, counts>>

-----------------------------------------------------------------------------

Versions == 1..MaxVersion
File(version, name, direction, content) ==
  [version |-> version, name |-> name, direction |-> direction, content |-> content]

NoPlan == [version |-> 0]
NoDatabase == [tables |-> {}, data |-> [v \in Versions |-> 0]]

Init ==
  /\ models \in ModelSets /\ files = {} /\ schemaLock = emptySchema(Dialect)
  /\ projectLock = NoProcess /\ dbLock = NoProcess
  /\ pc = [p \in Processes |-> "idle"]
  /\ plan = [p \in Processes |-> NoPlan]
  /\ loaded = [p \in Processes |-> {}]
  /\ seen = [p \in Processes |-> {}]
  /\ applied = {} /\ db = NoDatabase
  /\ kills = 0 /\ edits = 0 /\ torn = FALSE /\ strayed = {}

Goto(p, l) == pc' = [pc EXCEPT ![p] = l]

\* The command ends, however it does; the kernel drops a lock it held.
Return(p) ==
  /\ Goto(p, "idle")
  /\ plan' = [plan EXCEPT ![p] = NoPlan]
  /\ loaded' = [loaded EXCEPT ![p] = {}]
  /\ seen' = [seen EXCEPT ![p] = {}]
  /\ projectLock' = IF projectLock = p THEN NoProcess ELSE projectLock
  /\ dbLock' = IF dbLock = p THEN NoProcess ELSE dbLock

-----------------------------------------------------------------------------
(* generate                                                                *)

\* Halves of pairs count as well.
nextMigrationVersion ==
  1 + CHOOSE v \in Versions \cup {0} :
        /\ v = 0 \/ \E f \in files : f.version = v
        /\ \A f \in files : f.version <= v

\* FAULT: nothing keeps a second generator out.
lockDatabaseProjectShared(p, empty) ==
  /\ pc[p] = "idle" /\ nextMigrationVersion \in Versions
  /\ projectLock' = p
  /\ plan' = [plan EXCEPT ![p] = [version |-> nextMigrationVersion, empty |-> empty]]
  /\ Goto(p, "plan")
  /\ UNCHANGED <<models, files, schemaLock, loaded, seen, database, counts>>

lockDatabaseProject(p, empty) ==
  /\ pc[p] = "idle" /\ nextMigrationVersion \in Versions
  /\ projectLock = NoProcess /\ projectLock' = p
  /\ plan' = [plan EXCEPT ![p] = [version |-> nextMigrationVersion, empty |-> empty]]
  /\ Goto(p, "plan")
  /\ UNCHANGED <<models, files, schemaLock, loaded, seen, database, counts>>

exportSchema == Describe(Dialect, models)

\* generateDB goes on to write files: the models can be described and differ
\* from the schema lock in additions only; for an empty migration, not at all.
Plannable(p) ==
  /\ Describable(models) /\ Generable(schemaLock, exportSchema)
  /\ plan[p].empty = (migrationUp(schemaLock, exportSchema) = <<>>)
  /\ ~\E f \in files : f.version = plan[p].version /\ f.name = p

generateDB(p) ==
  /\ pc[p] = "plan" /\ Plannable(p)
  /\ plan' = [plan EXCEPT ![p] =
       [version |-> @.version, empty |-> @.empty, schema |-> exportSchema,
        up |-> migrationUp(schemaLock, exportSchema),
        down |-> migrationDown(schemaLock, exportSchema)]]
  /\ Goto(p, "up")
  /\ UNCHANGED <<project, loaded, seen, database, counts>>

\* Nothing to do, or nothing that may be done.
GenerateRefuses(p) ==
  /\ pc[p] = "plan" /\ ~Plannable(p) /\ Return(p)
  /\ UNCHANGED <<models, files, schemaLock, applied, db, counts>>

UpFile(p) == File(plan[p].version, p, "up", plan[p].up)
DownFile(p) == File(plan[p].version, p, "down", plan[p].down)

WriteUp(p) ==
  /\ pc[p] = "up" /\ Goto(p, "down")
  /\ files' = files \cup {UpFile(p)}
  /\ UNCHANGED <<models, schemaLock, projectLock, plan, loaded, seen, database, counts>>

WriteDown(p) ==
  /\ pc[p] = "down"
  /\ files' = files \cup {DownFile(p)}
  /\ \/ plan[p].empty /\ Return(p)
     \/ ~plan[p].empty /\ Goto(p, "schema")
        /\ UNCHANGED <<projectLock, plan, loaded, seen, dbLock>>
  /\ UNCHANGED <<models, schemaLock, applied, db, counts>>

\* FAULT: the lock file is left for the next command to write.
writeSchemaNever(p) ==
  /\ pc[p] = "schema" /\ Return(p)
  /\ UNCHANGED <<models, files, schemaLock, applied, db, counts>>

writeSchema(p) ==
  /\ pc[p] = "schema" /\ Return(p)
  /\ schemaLock' = plan[p].schema
  /\ UNCHANGED <<models, files, applied, db, counts>>

Removed(p) ==
  {f \in files : /\ f.version = plan[p].version /\ f.name = p
                 /\ f.direction = "up" \/ pc[p] = "schema"}

\* One of the three writes fails: the files written before are removed, which
\* another process may have read or applied by then.
WriteFails(p) ==
  /\ pc[p] \in {"up", "down", "schema"} /\ Return(p)
  /\ files' = files \ Removed(p)
  /\ strayed' = strayed \cup {f.version : f \in Removed(p)}
  /\ UNCHANGED <<models, schemaLock, applied, db, kills, edits, torn>>

\* So does a removal, which nobody is told: some of those files stay.
RemoveFails(p) ==
  /\ kills < MaxKills /\ kills' = kills + 1
  /\ pc[p] \in {"down", "schema"} /\ Return(p)
  /\ \E kept \in (SUBSET Removed(p)) \ {{}} :
       /\ files' = (files \ Removed(p)) \cup kept
       /\ strayed' = strayed \cup {f.version : f \in Removed(p) \ kept}
  /\ torn' = TRUE
  /\ UNCHANGED <<models, schemaLock, applied, db, edits>>

-----------------------------------------------------------------------------
(* What migrate, rollback and status read from the directory: a set of     *)
(* [version, name, up, down].                                              *)

Loadable ==
  /\ \A f, g \in files : f.version = g.version => f.name = g.name
  /\ \A f \in files : \E g \in files :
       f.version = g.version /\ f.direction # g.direction

loadMigrations ==
  {[version |-> f.version, name |-> f.name, up |-> f.content,
    down |-> (CHOOSE g \in files : g.version = f.version /\ g.direction = "down").content] :
     f \in {g \in files : g.direction = "up"}}

checksum(m) == <<m.up, m.down>>
Row(m) == [version |-> m.version, name |-> m.name, checksum |-> checksum(m)]
VersionsOf(S) == {x.version : x \in S}

\* FAULT: a known version is taken for the migration that was applied.
validateVersions(list, rows) ==
  /\ \A m, n \in list : m.version < n.version /\ n.version \in VersionsOf(rows)
                          => m.version \in VersionsOf(rows)
  /\ VersionsOf(rows) \subseteq VersionsOf(list)

validateMigrationHistory(list, rows) ==
  /\ \A m, n \in list : m.version < n.version /\ n.version \in VersionsOf(rows)
                          => m.version \in VersionsOf(rows)
  /\ \A m \in list : m.version \in VersionsOf(rows) => Row(m) \in rows
  /\ VersionsOf(rows) \subseteq VersionsOf(list)

\* FAULT: only the version decides whether a migration is applied.
statusByVersion(list, rows) ==
  [v \in VersionsOf(list) \cup VersionsOf(rows) |->
     CASE v \notin VersionsOf(list) -> "missing"
       [] v \notin VersionsOf(rows) -> "pending"
       [] OTHER                     -> "applied"]

\* The STATUS column.
status(list, rows) ==
  [v \in VersionsOf(list) \cup VersionsOf(rows) |->
     CASE v \notin VersionsOf(list) -> "missing"
       [] v \notin VersionsOf(rows) -> "pending"
       [] \E m \in list : m.version = v /\ Row(m) \in rows -> "applied"
       [] OTHER                     -> "modified"]

-----------------------------------------------------------------------------
(* The database.                                                           *)

\* The developer's SQL of a version adds to its data or takes from it.
custom(v, change) == [op |-> "custom", version |-> v, change |-> change]

Exec(s, d) ==
  IF s.op = "custom" THEN [d EXCEPT !.data[s.version] = @ + s.change]
  ELSE [d EXCEPT !.tables = After(s, @)]

Refused == [refused |-> TRUE]

\* What a statement makes of a database; once one is refused, the transaction
\* is lost.
Try(s, d) ==
  IF d = Refused \/ (s.op # "custom" /\ ~Possible(s, d.tables)) THEN Refused ELSE Exec(s, d)

\* The statements of a content one after another.
Run(content, d) ==
  LET after[n \in 0..Len(content)] == IF n = 0 THEN d ELSE Try(content[n], after[n - 1])
  IN  after[Len(content)]

\* The ups of a set of migrations one after another, by version.
UpOf(S, v) == (CHOOSE m \in S : m.version = v).up
Ups(S, d) ==
  LET after[v \in 0..MaxVersion] ==
        IF v = 0 THEN d
        ELSE IF v \in VersionsOf(S) THEN Run(UpOf(S, v), after[v - 1]) ELSE after[v - 1]
  IN  after

-----------------------------------------------------------------------------
(* migrate and rollback                                                    *)

Load(p, operation) ==
  /\ pc[p] = "idle" /\ Loadable
  /\ loaded' = [loaded EXCEPT ![p] = loadMigrations]
  /\ plan' = [plan EXCEPT ![p] = [version |-> 0, operation |-> operation]]
  /\ Goto(p, "loaded")
  /\ UNCHANGED <<project, seen, database, counts>>

\* FAULT: the transaction begins without the lock.
lockedMigrationTxShared(p) ==
  /\ pc[p] = "loaded" /\ dbLock' = p
  /\ seen' = [seen EXCEPT ![p] = applied] /\ Goto(p, "begun")
  /\ UNCHANGED <<project, plan, loaded, applied, db, counts>>

\* The applied migrations are read only when the lock is held.
lockedMigrationTx(p) ==
  /\ pc[p] = "loaded" /\ dbLock = NoProcess /\ dbLock' = p
  /\ seen' = [seen EXCEPT ![p] = applied] /\ Goto(p, "begun")
  /\ UNCHANGED <<project, plan, loaded, applied, db, counts>>

Valid(p) == validateMigrationHistory(loaded[p], seen[p])
Pending(p) == {m \in loaded[p] : m.version \notin VersionsOf(seen[p])}

\* Every pending migration, each recorded in a row of its own, or none.
migrate(p) ==
  /\ pc[p] = "begun" /\ plan[p].operation = "migrate" /\ Valid(p)
  /\ \A m \in Pending(p) : m.up # <<>> /\ m.version \notin VersionsOf(applied)
  /\ db' = Ups(Pending(p), db)[MaxVersion] /\ db' # Refused
  /\ applied' = applied \cup {Row(m) : m \in Pending(p)}
  /\ Return(p)
  /\ UNCHANGED <<models, files, schemaLock, counts>>

Latest(p) == CHOOSE m \in loaded[p] :
               /\ m.version \in VersionsOf(seen[p])
               /\ \A r \in seen[p] : r.version <= m.version

rollback(p) ==
  /\ pc[p] = "begun" /\ plan[p].operation = "rollback" /\ Valid(p)
  /\ seen[p] # {} /\ Latest(p).down # <<>>
  /\ db' = Run(Latest(p).down, db) /\ db' # Refused
  /\ Latest(p).version \in VersionsOf(applied)
  /\ applied' = {r \in applied : r.version # Latest(p).version}
  /\ Return(p)
  /\ UNCHANGED <<models, files, schemaLock, counts>>

\* Any other end: an invalid history, empty or refused SQL, nothing to do, a
\* busy database, a commit that fails.  The transaction is rolled back.
Fails(p) ==
  /\ pc[p] \in {"loaded", "begun"} /\ Return(p)
  /\ UNCHANGED <<models, files, schemaLock, applied, db, counts>>

-----------------------------------------------------------------------------
(* The developer and the machine.                                          *)

RegisterModels ==
  /\ models' \in ModelSets \ {models}
  /\ UNCHANGED <<files, schemaLock, projectLock, pc, plan, loaded, seen, database, counts>>

\* SQL is written into an empty file, one direction after the other.
WriteSQL(f) ==
  /\ f.content = <<>> /\ \A p \in Processes : pc[p] \in {"down", "schema"} => plan[p].version # f.version
  /\ files' = (files \ {f}) \cup
       {[f EXCEPT !.content = <<custom(f.version, IF f.direction = "up" THEN 1 ELSE -1)>>]}
  /\ strayed' = IF \/ f.version \in VersionsOf(applied)
                   \/ \E p \in Processes : f.version \in VersionsOf(loaded[p])
                 THEN strayed \cup {f.version} ELSE strayed
  /\ UNCHANGED <<models, schemaLock, projectLock, pc, plan, loaded, seen, database, kills, edits, torn>>

\* Both files of a migration are changed, in a way that fits together.
ModifyPair(v) ==
  /\ edits < MaxEdits /\ edits' = edits + 1
  /\ v \in VersionsOf(files) /\ \A f \in files : f.version = v => f.content # <<>>
  /\ \A p \in Processes : pc[p] \in {"down", "schema"} => plan[p].version # v
  /\ files' = {f \in files : f.version # v} \cup
       {[f EXCEPT !.content = IF f.direction = "up" THEN Append(@, custom(v, 1))
                                                    ELSE <<custom(v, -1)>> \o @] :
          f \in {g \in files : g.version = v}}
  /\ strayed' = strayed \cup {v}
  /\ UNCHANGED <<models, schemaLock, projectLock, pc, plan, loaded, seen, database, kills, torn>>

\* A process is killed; the kernel and the database drop its locks.
Killed(p) ==
  /\ kills < MaxKills /\ kills' = kills + 1
  /\ pc[p] # "idle" /\ Return(p)
  /\ torn' = (torn \/ pc[p] \in {"down", "schema"})
  /\ UNCHANGED <<models, files, schemaLock, applied, db, edits, strayed>>

Step(p) ==
  \/ \E empty \in BOOLEAN : lockDatabaseProject(p, empty)
  \/ generateDB(p) \/ GenerateRefuses(p) \/ WriteUp(p) \/ WriteDown(p)
  \/ writeSchema(p) \/ WriteFails(p) \/ RemoveFails(p)
  \/ \E operation \in {"migrate", "rollback"} : Load(p, operation)
  \/ lockedMigrationTx(p) \/ migrate(p) \/ rollback(p) \/ Fails(p)
  \/ Killed(p)

Next ==
  \/ \E p \in Processes : Step(p)
  \/ RegisterModels
  \/ \E f \in files : WriteSQL(f)
  \/ \E v \in Versions : ModifyPair(v)

Spec == Init /\ [][Next]_vars

-----------------------------------------------------------------------------
(* Properties.                                                             *)

TypeOK ==
  /\ models \in ModelSets
  /\ VersionsOf(files) \subseteq Versions /\ {f.direction : f \in files} \subseteq {"up", "down"}
  /\ validateSchema(schemaLock)
  /\ projectLock \in Processes \cup {NoProcess} /\ dbLock \in Processes \cup {NoProcess}
  /\ pc \in [Processes -> {"idle", "plan", "up", "down", "schema", "loaded", "begun"}]
  /\ VersionsOf(applied) \subseteq Versions
  /\ \A r, s \in applied : r.version = s.version => r = s
  /\ kills \in 0..MaxKills /\ edits \in 0..MaxEdits /\ torn \in BOOLEAN
  /\ strayed \subseteq Versions

AppliedUps == {[version |-> r.version, up |-> r.checksum[1]] : r \in applied}

\* What the migrations have made of the database is what the recorded ones, by
\* their checksums, make of an empty one in version order: nothing is applied
\* twice, recorded without its effects, or undone by the down of another
\* content, whatever other processes and the developer do between the reading
\* of the files and the transaction (migrations.go:136-234).
EffectsAreHistory == db = Ups(AppliedUps, NoDatabase)[MaxVersion]

\* The applied migrations are a prefix of those on disk, name and content
\* included, as long as nobody has changed or withdrawn an applied file: no
\* stale list of files applies a later migration before an earlier one.
AppliedIsPrefix ==
  \A r \in applied :
    /\ \A f \in files : f.version < r.version => f.version \in VersionsOf(applied)
    /\ r.version \notin strayed =>
         \E f, g \in files : /\ <<f.version, f.name, f.direction>> = <<r.version, r.name, "up">>
                             /\ <<g.version, g.name, g.direction>> = <<r.version, r.name, "down">>
                             /\ r.checksum = <<f.content, g.content>>

Generating == \E p \in Processes : pc[p] \in {"up", "down", "schema"}

\* Replayed on an empty database, the files make exactly the tables of the
\* schema lock, and the down of each takes the database back to where its up
\* started: what generate writes next starts from what migrate will have made.
\* A kill between two files and a failing cleanup are the exceptions
\* (database.go:253-260).
FilesMakeSchemaLock ==
  ~torn /\ ~Generating =>
    LET list == loadMigrations
        upTo == Ups(list, NoDatabase)
    IN  /\ Loadable
        /\ upTo[MaxVersion] # Refused /\ upTo[MaxVersion].tables = Tables(schemaLock)
        /\ \A m \in list : m.up # <<>> /\ m.down # <<>> =>
             Run(m.down, upTo[m.version]) = upTo[m.version - 1]

\* godo db status shows a modified or missing migration, or a pending one
\* before an applied one, exactly when migrate and rollback refuse the history
\* (docs/orm.md:238).
StatusTells ==
  Loadable =>
    LET shown == status(loadMigrations, applied)
        rows  == DOMAIN shown
    IN  validateMigrationHistory(loadMigrations, applied) <=>
          /\ \A v \in rows : shown[v] \in {"pending", "applied"}
          /\ \A v, w \in rows : v < w /\ shown[w] = "applied" => shown[v] = "applied"

\* Empty files are not applied until SQL is written into both directions
\* (docs/orm.md:222-223).
BothDirectionsWritten == \A r \in applied : r.checksum[1] # <<>> /\ r.checksum[2] # <<>>
=============================================================================
