-------------------------- MODULE MigrationsProofs --------------------------
(***************************************************************************)
(* The history of migrations, for any number of processes, versions, kills *)
(* and edits and any sets of models: the recorded migrations are a prefix  *)
(* of those on disk, status shows what migrate and rollback refuse, the    *)
(* database is what the recorded migrations make of an empty one, and the  *)
(* files make the tables of the schema lock.                               *)
(*                                                                         *)
(* Versions never have a gap, neither on disk nor in a list that was read  *)
(* nor in the database, so that being a prefix is a matter of numbers; and *)
(* a version whose files were changed or withdrawn has strayed.            *)
(*                                                                         *)
(* What a list of statements makes of a database is a recursive function.  *)
(* A set of numbers that holds 0 and with each number the next holds them  *)
(* all (LEMMA Induction), which gives what such a function returns, from   *)
(* one statement to a content and from one version to a directory.         *)
(***************************************************************************)
EXTENDS Migrations, FiniteSetTheorems, TLAPS

-----------------------------------------------------------------------------
(* The inductive invariant.                                                *)

IsFile(f) ==
  /\ f = File(f.version, f.name, f.direction, f.content)
  /\ f.version \in Versions /\ f.direction \in {"up", "down"}

\* Versions have no gap.
Gapless(S) == \E n \in 0..MaxVersion : S = 1..n

\* Its files are there as they were read.
Kept(version, name, up, down) ==
  \E f, g \in files : /\ <<f.version, f.name, f.direction>> = <<version, name, "up">>
                      /\ <<g.version, g.name, g.direction>> = <<version, name, "down">>
                      /\ <<up, down>> = <<f.content, g.content>>

FilesOf(v) == {f \in files : f.version = v}

Directory ==
  /\ \A f \in files : IsFile(f)
  /\ \A f, g \in files :
       <<f.version, f.name, f.direction>> = <<g.version, g.name, g.direction>> => f = g
  /\ Gapless(VersionsOf(files))

\* Who generates has the project to itself, and its version is the next one.
Generator(p) ==
  /\ pc[p] \in {"plan", "up", "down", "schema"} =>
       projectLock = p /\ plan[p].version \in Versions
  /\ pc[p] \in {"plan", "up"} => VersionsOf(files) = 1..(plan[p].version - 1)
  /\ pc[p] \in {"down", "schema"} => VersionsOf(files) = 1..plan[p].version
  /\ pc[p] = "down" => FilesOf(plan[p].version) = {UpFile(p)}
  /\ pc[p] = "schema" => FilesOf(plan[p].version) = {UpFile(p), DownFile(p)}

\* What a command has read of the files.
ReadList(p) ==
  /\ Gapless(VersionsOf(loaded[p]))
  /\ \A m, n \in loaded[p] : m.version = n.version => m = n
  /\ \A m \in loaded[p] : m.version \notin strayed => Kept(m.version, m.name, m.up, m.down)

\* And of the database.
ReadRows(p) == pc[p] = "begun" => dbLock = p /\ seen[p] = applied

Recorded ==
  /\ Gapless(VersionsOf(applied))
  /\ \A r, s \in applied : r.version = s.version => r = s
  /\ \A r \in applied : r.version \notin strayed =>
       Kept(r.version, r.name, r.checksum[1], r.checksum[2])
  /\ \A r \in applied : r.checksum = <<r.checksum[1], r.checksum[2]>>

Domains ==
  /\ DOMAIN pc = Processes /\ DOMAIN plan = Processes
  /\ DOMAIN loaded = Processes /\ DOMAIN seen = Processes

IInv ==
  /\ Domains /\ Directory /\ Recorded
  /\ \A p \in Processes : Generator(p) /\ ReadList(p) /\ ReadRows(p)

-----------------------------------------------------------------------------
(* What a step leaves alone.                                               *)

\* The version is known to the database or to a command.
Known(v) == v \in VersionsOf(applied) \/ \E p \in Processes : v \in VersionsOf(loaded[p])

\* A step that changes or withdraws the files of a known version says so.
Honest ==
  /\ strayed \subseteq strayed'
  /\ \A f \in files : Known(f.version) /\ f.version \notin strayed' => f \in files'

LEMMA KeptStays ==
  ASSUME Honest, NEW v, NEW name, NEW up, NEW down, Known(v), v \notin strayed',
         Kept(v, name, up, down)
  PROVE  Kept(v, name, up, down)'
<1>1. PICK f \in files, g \in files :
        /\ <<f.version, f.name, f.direction>> = <<v, name, "up">>
        /\ <<g.version, g.name, g.direction>> = <<v, name, "down">>
        /\ <<up, down>> = <<f.content, g.content>>
  BY DEF Kept
<1>2. f \in files' /\ g \in files'
  BY <1>1 DEF Honest
<1> QED BY <1>1, <1>2 DEF Kept

\* The rows stay as they are.
LEMMA RecordedStays == ASSUME Recorded, Honest, applied' = applied PROVE Recorded'
<1>1. \A r \in applied : Known(r.version)
  BY DEF Known, VersionsOf
<1>2. ASSUME NEW r \in applied, r.version \notin strayed'
      PROVE  Kept(r.version, r.name, r.checksum[1], r.checksum[2])'
  <2> DEFINE v == r.version  n == r.name  u == r.checksum[1]  d == r.checksum[2]
  <2>1. Kept(v, n, u, d) /\ Known(v)
    BY <1>1, <1>2 DEF Recorded, Honest
  <2> HIDE DEF v, n, u, d
  <2>2. Kept(v, n, u, d)'
    BY <1>2, <2>1, KeptStays DEF v
  <2> QED BY <2>2 DEF v, n, u, d
<1>3. Gapless(VersionsOf(applied))'
  BY DEF Recorded, Gapless, VersionsOf
<1> QED BY <1>2, <1>3 DEF Recorded

LEMMA ListStays ==
  ASSUME NEW p \in Processes, ReadList(p), Honest, loaded'[p] = loaded[p]
  PROVE  ReadList(p)'
<1>1. \A m \in loaded[p] : Known(m.version)
  BY DEF Known, VersionsOf
<1>2. ASSUME NEW m \in loaded[p], m.version \notin strayed'
      PROVE  Kept(m.version, m.name, m.up, m.down)'
  <2> DEFINE v == m.version  n == m.name  u == m.up  d == m.down
  <2>1. Kept(v, n, u, d) /\ Known(v)
    BY <1>1, <1>2 DEF ReadList, Honest
  <2> HIDE DEF v, n, u, d
  <2>2. Kept(v, n, u, d)'
    BY <1>2, <2>1, KeptStays DEF v
  <2> QED BY <2>2 DEF v, n, u, d
<1>3. Gapless(VersionsOf(loaded[p]))'
  BY DEF ReadList, Gapless, VersionsOf
<1> QED BY <1>2, <1>3 DEF ReadList

LEMMA NoVersions == Gapless({})
<1>1. {} = 1..0 /\ 0 \in 0..MaxVersion
  BY MigrationsAssumption
<1> QED BY <1>1 DEF Gapless

LEMMA NothingRead == ASSUME NEW p \in Processes, loaded'[p] = {} PROVE ReadList(p)'
<1>1. VersionsOf(loaded[p])' = {}
  BY DEF VersionsOf
<1>2. Gapless(VersionsOf(loaded[p]))'
  BY <1>1, NoVersions DEF Gapless
<1> QED BY <1>2 DEF ReadList

Busy(l) == l \in {"plan", "up", "down", "schema"}

LEMMA NoGenerator == ASSUME NEW p \in Processes, ~Busy(pc'[p]) PROVE Generator(p)'
BY DEF Generator, Busy

\* Only p moves, and it takes or gives back no other's lock.
Moves(p) ==
  /\ Domains'
  /\ \A q \in Processes \ {p} :
       /\ pc'[q] = pc[q] /\ plan'[q] = plan[q] /\ loaded'[q] = loaded[q] /\ seen'[q] = seen[q]
       /\ projectLock = q => projectLock' = q
       /\ dbLock = q => dbLock' = q

LEMMA Returned ==
  ASSUME Domains, NEW p \in Processes, Return(p)
  PROVE  /\ Moves(p) /\ pc'[p] = "idle"
         /\ Generator(p)' /\ ReadList(p)' /\ ReadRows(p)'
<1>1. Moves(p) /\ pc'[p] = "idle" /\ loaded'[p] = {}
  BY DEF Return, Goto, Domains, Moves
<1>2. Generator(p)' /\ ReadList(p)'
  BY <1>1, NoGenerator, NothingRead DEF Busy
<1>3. ReadRows(p)'
  BY <1>1 DEF ReadRows
<1> QED BY <1>1, <1>2, <1>3

\* A step of p, which writes files or rows only under the lock.
LEMMA ProcessStep ==
  ASSUME IInv, NEW p \in Processes, Moves(p), Honest,
         files' = files \/ projectLock = p, applied' = applied \/ dbLock = p,
         Directory', Recorded', Generator(p)', ReadList(p)', ReadRows(p)'
  PROVE  IInv'
<1>1. ASSUME NEW q \in Processes, q # p PROVE Generator(q)' /\ ReadList(q)' /\ ReadRows(q)'
  <2>1. /\ pc'[q] = pc[q] /\ plan'[q] = plan[q] /\ loaded'[q] = loaded[q] /\ seen'[q] = seen[q]
        /\ projectLock = q => projectLock' = q
        /\ dbLock = q => dbLock' = q
    BY <1>1 DEF Moves
  <2>2. Generator(q) /\ ReadList(q) /\ ReadRows(q)
    BY DEF IInv
  <2>3. CASE Busy(pc[q])
    <3>1. projectLock = q /\ files' = files
      BY <1>1, <2>2, <2>3 DEF Generator, Busy
    <3>2. Generator(q)'
      BY <2>1, <2>2, <3>1 DEF Generator, UpFile, DownFile, FilesOf, VersionsOf, File
    <3> QED BY <2>1, <2>2, <3>2, ListStays, <1>1 DEF ReadRows
  <2>4. CASE ~Busy(pc[q])
    BY <2>1, <2>2, <2>4, NoGenerator, ListStays, <1>1 DEF ReadRows
  <2> QED BY <2>3, <2>4
<1> QED BY <1>1 DEF IInv, Moves

\* One that leaves files and rows alone.
LEMMA QuietStep ==
  ASSUME IInv, NEW p \in Processes, Moves(p),
         files' = files, strayed' = strayed, applied' = applied,
         Generator(p)', ReadList(p)', ReadRows(p)'
  PROVE  IInv'
<1>1. Honest
  BY DEF Honest
<1>2. Directory' /\ Recorded'
  BY <1>1, RecordedStays DEF IInv, Directory, IsFile, Gapless, VersionsOf, File
<1> QED BY <1>1, <1>2, ProcessStep

-----------------------------------------------------------------------------
(* generate                                                                *)

LEMMA NextVersion ==
  ASSUME Directory
  PROVE  /\ nextMigrationVersion \in Nat \ {0}
         /\ VersionsOf(files) = 1..(nextMigrationVersion - 1)
<1>1. PICK n \in 0..MaxVersion : VersionsOf(files) = 1..n
  BY DEF Directory, Gapless
<1> DEFINE Highest(v) == /\ v = 0 \/ \E f \in files : f.version = v
                         /\ \A f \in files : f.version <= v
<1>2. n \in Versions \cup {0} /\ Highest(n)
  <2>1. n = 0 \/ n \in VersionsOf(files)
    BY <1>1, MigrationsAssumption
  <2> QED BY <1>1, <2>1, MigrationsAssumption DEF VersionsOf, Versions
<1>3. \A v \in Versions \cup {0} : Highest(v) => v = n
  <2> SUFFICES ASSUME NEW v \in Versions \cup {0}, Highest(v) PROVE v = n
    OBVIOUS
  <2>1. v = 0 \/ v \in 1..n
    BY <1>1 DEF VersionsOf
  <2>2. n = 0 \/ n \in VersionsOf(files)
    BY <1>1, MigrationsAssumption
  <2>3. n <= v
    BY <2>2, MigrationsAssumption DEF VersionsOf, Versions
  <2> QED BY <2>1, <2>3, MigrationsAssumption
<1>4. (CHOOSE v \in Versions \cup {0} : Highest(v)) = n
  BY <1>2, <1>3
<1>5. nextMigrationVersion = 1 + n
  BY <1>4 DEF nextMigrationVersion
<1> QED BY <1>1, <1>5, MigrationsAssumption

LEMMA LockStep ==
  ASSUME IInv, NEW p \in Processes, NEW empty, lockDatabaseProject(p, empty)
  PROVE  IInv'
<1> USE DEF lockDatabaseProject, Goto, database, counts
<1>1. /\ Moves(p) /\ pc'[p] = "plan" /\ projectLock' = p /\ loaded'[p] = loaded[p]
      /\ plan'[p].version = nextMigrationVersion /\ nextMigrationVersion \in Versions
  BY MigrationsAssumption DEF IInv, Domains, Moves
<1>2. Honest
  BY DEF Honest
<1>3. Generator(p)'
  <2>1. VersionsOf(files)' = 1..(nextMigrationVersion - 1)
    BY NextVersion DEF IInv, VersionsOf
  <2> QED BY <1>1, <2>1 DEF Generator, Versions
<1>4. ReadList(p)' /\ ReadRows(p)'
  BY <1>1, <1>2, ListStays DEF IInv, ReadRows
<1> QED BY <1>1, <1>3, <1>4, QuietStep

LEMMA PlanStep == ASSUME IInv, NEW p \in Processes, generateDB(p) PROVE IInv'
<1> USE DEF generateDB, Goto, project, database, counts
<1>1. /\ Moves(p) /\ pc'[p] = "up" /\ loaded'[p] = loaded[p]
      /\ plan'[p].version = plan[p].version
  BY DEF IInv, Domains, Moves
<1>2. Honest
  BY DEF Honest
<1>3. Generator(p)'
  BY <1>1 DEF IInv, Generator, VersionsOf, Versions
<1>4. ReadList(p)' /\ ReadRows(p)'
  BY <1>1, <1>2, ListStays DEF IInv, ReadRows
<1> QED BY <1>1, <1>3, <1>4, QuietStep

\* What ends a command without a trace.
LEMMA EndStep ==
  ASSUME IInv, NEW p \in Processes, Return(p),
         files' = files, strayed' = strayed, applied' = applied
  PROVE  IInv'
<1>1. Domains
  BY DEF IInv
<1> QED BY <1>1, Returned, QuietStep

\* The files of a version p is about to write, or has written.
LEMMA Ahead ==
  ASSUME IInv, NEW p \in Processes, Busy(pc[p])
  PROVE  /\ projectLock = p /\ plan[p].version \in 1..MaxVersion /\ plan[p].version \in Nat
         /\ Directory /\ Recorded /\ ReadList(p)
         /\ pc[p] = "up" => \A f \in files : f.version \in 1..(plan[p].version - 1)
         /\ pc[p] = "down" => FilesOf(plan[p].version) = {UpFile(p)}
         /\ pc[p] = "schema" => FilesOf(plan[p].version) = {UpFile(p), DownFile(p)}
BY MigrationsAssumption DEF IInv, Generator, Busy, VersionsOf, Versions

\* A file is added to its version, which keeps one of each name and direction.
LEMMA FileAdded ==
  ASSUME Directory, NEW v \in Versions, NEW name, NEW direction \in {"up", "down"}, NEW content,
         files' = files \cup {File(v, name, direction, content)},
         VersionsOf(files)' = 1..v,
         \A f \in files : f.version = v => f.direction # direction
  PROVE  Directory'
<1> DEFINE new == File(v, name, direction, content)
<1>1. /\ new.version = v /\ new.name = name /\ new.direction = direction
      /\ new.content = content /\ new = File(new.version, new.name, new.direction, new.content)
  BY DEF File
<1> HIDE DEF new
<1>2. files' = files \cup {new}
  BY DEF new
<1>3. \A f \in files' : IsFile(f)
  BY <1>1, <1>2 DEF Directory, IsFile
<1>4. \A f, g \in files' :
        <<f.version, f.name, f.direction>> = <<g.version, g.name, g.direction>> => f = g
  BY <1>1, <1>2 DEF Directory
<1>5. Gapless(VersionsOf(files))'
  BY MigrationsAssumption DEF Gapless, Versions
<1> QED BY <1>3, <1>4, <1>5 DEF Directory, IsFile, File

LEMMA UpStep == ASSUME IInv, NEW p \in Processes, WriteUp(p) PROVE IInv'
<1> USE DEF WriteUp, Goto, database, counts
<1> DEFINE v == plan[p].version
<1>1. /\ projectLock = p /\ v \in 1..MaxVersion /\ v \in Nat /\ Directory /\ Recorded
      /\ ReadList(p) /\ \A f \in files : f.version \in 1..(v - 1)
  BY Ahead DEF Busy
<1>2. /\ Moves(p) /\ pc'[p] = "down" /\ plan' = plan /\ loaded'[p] = loaded[p]
  BY DEF IInv, Domains, Moves
<1>3. Honest
  BY DEF Honest
<1>4. /\ UpFile(p) = File(v, p, "up", plan[p].up) /\ UpFile(p).version = v
      /\ UpFile(p)' = UpFile(p)
  BY <1>2 DEF UpFile, File
<1>5. VersionsOf(files)' = 1..v
  <2>1. VersionsOf(files) = 1..(v - 1)
    BY DEF IInv, Generator
  <2>2. VersionsOf(files)' = VersionsOf(files) \cup {v}
    BY <1>4 DEF VersionsOf
  <2> HIDE DEF v
  <2>3. 1..(v - 1) \cup {v} = 1..v
    BY <1>1
  <2> QED BY <2>1, <2>2, <2>3 DEF v
<1>6. FilesOf(v)' = {UpFile(p)}
  BY <1>1, <1>2, <1>4 DEF FilesOf
<1>7. Directory'
  <2>1. /\ files' = files \cup {File(v, p, "up", plan[p].up)} /\ v \in Versions
        /\ \A f \in files : f.version = v => f.direction # "up"
    BY <1>1, <1>4 DEF Versions
  <2> HIDE DEF v, WriteUp, Goto, database, counts
  <2> QED BY <1>1, <1>5, <2>1, FileAdded
<1>8. Generator(p)'
  BY <1>1, <1>2, <1>4, <1>5, <1>6 DEF Generator, Versions
<1>9. Recorded' /\ ReadList(p)' /\ ReadRows(p)'
  BY <1>1, <1>2, <1>3, RecordedStays, ListStays DEF ReadRows
<1> QED BY <1>1, <1>2, <1>3, <1>7, <1>8, <1>9, ProcessStep

LEMMA DownStep == ASSUME IInv, NEW p \in Processes, WriteDown(p) PROVE IInv'
<1> DEFINE v == plan[p].version
<1>1. /\ projectLock = p /\ v \in 1..MaxVersion /\ v \in Nat /\ Directory /\ Recorded
      /\ ReadList(p) /\ FilesOf(v) = {UpFile(p)}
  BY Ahead DEF WriteDown, Busy
<1>2. files' = files \cup {DownFile(p)} /\ strayed' = strayed /\ applied' = applied
  BY DEF WriteDown, counts
<1>3. Honest
  BY <1>2 DEF Honest
<1>4. /\ DownFile(p) = File(v, p, "down", plan[p].down) /\ DownFile(p).version = v
      /\ UpFile(p).direction = "up"
  BY DEF DownFile, UpFile, File
<1>5. VersionsOf(files)' = 1..v
  <2>1. VersionsOf(files) = 1..v
    BY DEF IInv, Generator, WriteDown
  <2>2. VersionsOf(files)' = VersionsOf(files) \cup {v}
    BY <1>2, <1>4 DEF VersionsOf
  <2> HIDE DEF v
  <2> QED BY <1>1, <2>1, <2>2
<1>6. {f \in files' : f.version = v} = {UpFile(p), DownFile(p)}
  <2>1. {f \in files' : f.version = v} = FilesOf(v) \cup {DownFile(p)}
    BY <1>2, <1>4 DEF FilesOf
  <2> QED BY <1>1, <2>1
<1>7. Directory'
  <2>1. /\ files' = files \cup {File(v, p, "down", plan[p].down)} /\ v \in Versions
        /\ \A f \in files : f.version = v => f.direction # "down"
    BY <1>1, <1>2, <1>4 DEF Versions, FilesOf
  <2> HIDE DEF v
  <2> QED BY <1>1, <1>5, <2>1, FileAdded
<1>8. Recorded'
  BY <1>1, <1>2, <1>3, RecordedStays
<1>9. Moves(p) /\ Generator(p)' /\ ReadList(p)' /\ ReadRows(p)'
  <2>1. CASE Return(p)
    BY <2>1, Returned DEF IInv
  <2>2. CASE Goto(p, "schema") /\ UNCHANGED <<projectLock, plan, loaded, seen, dbLock>>
    <3>1. Moves(p) /\ pc'[p] = "schema" /\ loaded'[p] = loaded[p]
      BY <2>2 DEF IInv, Domains, Moves, Goto
    <3>2. Generator(p)'
      BY <1>1, <1>5, <1>6, <2>2, <3>1 DEF Generator, UpFile, DownFile, FilesOf, Versions
    <3> QED BY <1>1, <1>3, <3>1, <3>2, ListStays DEF ReadRows
  <2> QED BY <2>1, <2>2 DEF WriteDown
<1> QED BY <1>1, <1>2, <1>3, <1>7, <1>8, <1>9, ProcessStep

\* A failing write takes away what the version had.
LEMMA FailStep == ASSUME IInv, NEW p \in Processes, WriteFails(p) PROVE IInv'
<1> DEFINE v == plan[p].version
<1>1. /\ projectLock = p /\ v \in 1..MaxVersion /\ v \in Nat /\ Directory /\ Recorded
      /\ pc[p] = "up" => \A f \in files : f.version \in 1..(v - 1)
      /\ pc[p] = "down" => FilesOf(v) = {UpFile(p)}
      /\ pc[p] = "schema" => FilesOf(v) = {UpFile(p), DownFile(p)}
  BY Ahead DEF WriteFails, Busy
<1>2. Return(p) /\ files' = files \ Removed(p) /\ pc[p] \in {"up", "down", "schema"}
      /\ strayed' = strayed \cup {f.version : f \in Removed(p)} /\ applied' = applied
  BY DEF WriteFails
<1>3. Removed(p) = FilesOf(v)
  <2>1. /\ UpFile(p).version = v /\ UpFile(p).name = p /\ UpFile(p).direction = "up"
        /\ DownFile(p).version = v /\ DownFile(p).name = p
    BY DEF UpFile, DownFile, File
  <2>2. Removed(p) \subseteq FilesOf(v)
    BY DEF Removed, FilesOf
  <2>3. CASE pc[p] = "up"
    <3>1. FilesOf(v) = {}
      BY <1>1, <2>3 DEF FilesOf
    <3> QED BY <2>2, <3>1
  <2>4. CASE pc[p] = "down"
    <3>1. UpFile(p) \in files
      BY <1>1, <2>4 DEF FilesOf
    <3>2. UpFile(p) \in Removed(p)
      BY <2>1, <3>1 DEF Removed
    <3> QED BY <1>1, <2>2, <2>4, <3>2
  <2>5. CASE pc[p] = "schema"
    <3>1. UpFile(p) \in files /\ DownFile(p) \in files
      BY <1>1, <2>5 DEF FilesOf
    <3>2. UpFile(p) \in Removed(p) /\ DownFile(p) \in Removed(p)
      BY <2>1, <2>5, <3>1 DEF Removed
    <3> QED BY <1>1, <2>2, <2>5, <3>2
  <2> QED BY <1>2, <2>3, <2>4, <2>5
<1>4. Honest
  BY <1>2, <1>3 DEF Honest
<1>5. VersionsOf(files)' = 1..(v - 1)
  <2>1. VersionsOf(files) \in {1..(v - 1), 1..v}
    BY <1>2 DEF IInv, Generator
  <2>2. VersionsOf(files)' = VersionsOf(files) \ {v}
    BY <1>2, <1>3 DEF VersionsOf, FilesOf
  <2> HIDE DEF v
  <2>3. 1..v \ {v} = 1..(v - 1) /\ 1..(v - 1) \ {v} = 1..(v - 1)
    BY <1>1
  <2> QED BY <2>1, <2>2, <2>3
<1>6. Directory'
  <2>1. Gapless(VersionsOf(files))'
    BY <1>1, <1>5, MigrationsAssumption DEF Gapless
  <2>2. files' \subseteq files
    BY <1>2
  <2> QED BY <1>1, <2>1, <2>2 DEF Directory, IsFile, File
<1>7. Moves(p) /\ Generator(p)' /\ ReadList(p)' /\ ReadRows(p)'
  BY <1>2, Returned DEF IInv
<1> QED BY <1>1, <1>2, <1>4, <1>6, <1>7, RecordedStays, ProcessStep

\* A failing removal leaves some of what the version had.
LEMMA RemoveStep == ASSUME IInv, NEW p \in Processes, RemoveFails(p) PROVE IInv'
<1> DEFINE v == plan[p].version
<1>1. projectLock = p /\ Directory /\ Recorded
  BY DEF RemoveFails, IInv, Generator
<1>2. PICK kept \in (SUBSET Removed(p)) \ {{}} :
        /\ files' = (files \ Removed(p)) \cup kept
        /\ strayed' = strayed \cup {f.version : f \in Removed(p) \ kept}
  BY DEF RemoveFails
<1>3. Return(p) /\ applied' = applied
  BY DEF RemoveFails
<1>4. Removed(p) \subseteq FilesOf(v) /\ files' \subseteq files
  BY <1>2 DEF Removed, FilesOf
<1>5. Honest
  BY <1>2, <1>4 DEF Honest
<1>6. VersionsOf(files)' = VersionsOf(files)
  <2>0. kept # {} /\ kept \subseteq Removed(p) /\ kept \subseteq files'
    BY <1>2
  <2>1. PICK g \in kept : g \in files' /\ g.version = v
    BY <2>0, <1>4 DEF FilesOf
  <2>2. \A f \in files : f.version = v \/ f \in files'
    BY <1>2, <1>4 DEF FilesOf
  <2> HIDE DEF v
  <2> QED BY <1>4, <2>1, <2>2 DEF VersionsOf
<1>7. Directory'
  <2>1. Gapless(VersionsOf(files))'
    BY <1>1, <1>6 DEF Directory, Gapless
  <2> QED BY <1>1, <1>4, <2>1 DEF Directory, IsFile, File
<1>8. Moves(p) /\ Generator(p)' /\ ReadList(p)' /\ ReadRows(p)'
  BY <1>3, Returned DEF IInv
<1> QED BY <1>1, <1>3, <1>5, <1>7, <1>8, RecordedStays, ProcessStep

-----------------------------------------------------------------------------
(* What is read from the directory.                                        *)

\* A directory that can be loaded is read as a list without gaps, each version
\* with the contents of its two files.
LEMMA Listed ==
  ASSUME Directory, Loadable
  PROVE  /\ VersionsOf(loadMigrations) = VersionsOf(files)
         /\ \A m, n \in loadMigrations : m.version = n.version => m = n
         /\ \A m \in loadMigrations : Kept(m.version, m.name, m.up, m.down)
<1> DEFINE Down(v) == CHOOSE g \in files : g.version = v /\ g.direction = "down"
           Read(f) == [version |-> f.version, name |-> f.name, up |-> f.content,
                       down |-> Down(f.version).content]
           UpFiles == {g \in files : g.direction = "up"}
<1>1. loadMigrations = {Read(f) : f \in UpFiles}
  BY DEF loadMigrations
<1>2. ASSUME NEW f \in UpFiles
      PROVE  /\ Down(f.version) \in files /\ Down(f.version).version = f.version
             /\ Down(f.version).direction = "down" /\ Down(f.version).name = f.name
  <2>1. PICK g \in files : g.version = f.version /\ g.direction # f.direction
    BY DEF Loadable
  <2>2. g.direction = "down"
    BY <2>1 DEF Directory, IsFile
  <2>3. Down(f.version) \in files /\ Down(f.version).version = f.version
        /\ Down(f.version).direction = "down"
    BY <2>1, <2>2
  <2> QED BY <2>3 DEF Loadable
<1> HIDE DEF Down
<1>3. VersionsOf(loadMigrations) = VersionsOf(files)
  <2>1. VersionsOf(loadMigrations) = {f.version : f \in UpFiles}
    <3>1. \A f \in UpFiles : Read(f).version = f.version
      OBVIOUS
    <3> HIDE DEF Read, UpFiles
    <3> QED BY <1>1, <3>1 DEF VersionsOf
  <2>2. ASSUME NEW g \in files PROVE \E f \in UpFiles : f.version = g.version
    BY DEF Directory, IsFile, Loadable
  <2> QED BY <2>1, <2>2 DEF VersionsOf
<1>4. \A f, g \in UpFiles : f.version = g.version => f = g
  BY DEF Directory, Loadable
<1>5. \A m, n \in loadMigrations : m.version = n.version => m = n
  <2>1. ASSUME NEW f \in UpFiles, NEW g \in UpFiles, Read(f).version = Read(g).version
        PROVE  Read(f) = Read(g)
    BY <1>4, <2>1
  <2> QED BY <1>1, <2>1
<1>6. ASSUME NEW m \in loadMigrations PROVE Kept(m.version, m.name, m.up, m.down)
  <2>1. PICK f \in UpFiles : m = Read(f)
    BY <1>1
  <2> QED BY <1>2, <2>1 DEF Kept
<1> QED BY <1>3, <1>5, <1>6

LEMMA LoadStep ==
  ASSUME IInv, NEW p \in Processes, NEW operation, Load(p, operation)
  PROVE  IInv'
<1> USE DEF Load, Goto, project, database, counts
<1>1. Moves(p) /\ pc'[p] = "loaded" /\ loaded'[p] = loadMigrations
  BY DEF IInv, Domains, Moves
<1>2. /\ Gapless(VersionsOf(loadMigrations))
      /\ \A m, n \in loadMigrations : m.version = n.version => m = n
      /\ \A m \in loadMigrations : Kept(m.version, m.name, m.up, m.down)
  BY Listed DEF IInv, Directory
<1>3. ReadList(p)'
  <2>1. \A S : Gapless(VersionsOf(S)) => Gapless(VersionsOf(S))'
    BY DEF Gapless, VersionsOf
  <2>2. \A m \in loadMigrations : Kept(m.version, m.name, m.up, m.down)'
    BY <1>2 DEF Kept
  <2> HIDE DEF Load
  <2> QED BY <1>1, <1>2, <2>1, <2>2 DEF ReadList, Gapless, VersionsOf
<1>4. Generator(p)' /\ ReadRows(p)'
  BY <1>1, NoGenerator DEF ReadRows, Busy
<1> QED BY <1>1, <1>3, <1>4, QuietStep

-----------------------------------------------------------------------------
(* The transactions.                                                       *)

LEMMA BeginStep == ASSUME IInv, NEW p \in Processes, lockedMigrationTx(p) PROVE IInv'
<1> USE DEF lockedMigrationTx, Goto, project, counts
<1>1. /\ Moves(p) /\ pc'[p] = "begun" /\ loaded'[p] = loaded[p]
      /\ dbLock' = p /\ seen'[p] = applied /\ applied' = applied
  BY MigrationsAssumption DEF IInv, Domains, Moves
<1>2. Honest
  BY DEF Honest
<1>3. Generator(p)' /\ ReadList(p)' /\ ReadRows(p)'
  BY <1>1, <1>2, ListStays, NoGenerator DEF IInv, ReadRows, Busy
<1> QED BY <1>1, <1>3, QuietStep

\* Who is in a transaction has what it read: a list and rows without gaps, the
\* rows being the first of the list.
LEMMA InTransaction ==
  ASSUME IInv, NEW p \in Processes, pc[p] = "begun", Valid(p)
  PROVE  /\ dbLock = p /\ seen[p] = applied /\ ReadList(p) /\ Recorded
         /\ VersionsOf(applied) \subseteq VersionsOf(loaded[p])
BY DEF IInv, ReadRows, Valid, validateMigrationHistory

LEMMA MigrateStep == ASSUME IInv, NEW p \in Processes, migrate(p) PROVE IInv'
<1>1. /\ pc[p] = "begun" /\ Valid(p) /\ Return(p)
      /\ applied' = applied \cup {Row(m) : m \in Pending(p)}
      /\ files' = files /\ strayed' = strayed
  BY DEF migrate, counts
<1>2. /\ dbLock = p /\ seen[p] = applied /\ ReadList(p) /\ Recorded
      /\ VersionsOf(applied) \subseteq VersionsOf(loaded[p])
  BY <1>1, InTransaction
<1>3. /\ Pending(p) \subseteq loaded[p]
      /\ \A m \in loaded[p] : m \in Pending(p) <=> m.version \notin VersionsOf(applied)
  BY <1>2 DEF Pending
<1>4. \A m : /\ Row(m).version = m.version /\ Row(m).name = m.name
             /\ Row(m).checksum = <<m.up, m.down>>
  BY DEF Row, checksum
<1>5. VersionsOf(applied') = VersionsOf(loaded[p])
  <2>1. VersionsOf(applied') = VersionsOf(applied) \cup VersionsOf(Pending(p))
    BY <1>1, <1>4 DEF VersionsOf
  <2> QED BY <1>2, <1>3, <2>1 DEF VersionsOf
<1>6. \A r, s \in applied' : r.version = s.version => r = s
  <2>1. ASSUME NEW m \in Pending(p), NEW n \in Pending(p), m.version = n.version PROVE m = n
    BY <1>2, <1>3, <2>1 DEF ReadList
  <2>2. ASSUME NEW m \in Pending(p), NEW r \in applied PROVE r.version # m.version
    BY <1>3 DEF VersionsOf
  <2> QED BY <1>1, <1>2, <1>4, <2>1, <2>2 DEF Recorded
<1>7. ASSUME NEW r \in applied', r.version \notin strayed'
      PROVE  Kept(r.version, r.name, r.checksum[1], r.checksum[2])'
  <2>1. Kept(r.version, r.name, r.checksum[1], r.checksum[2])
    <3>1. CASE r \in applied
      BY <1>1, <1>2, <1>7, <3>1 DEF Recorded
    <3>2. CASE \E m \in Pending(p) : r = Row(m)
      <4>1. PICK m \in Pending(p) : r = Row(m)
        BY <3>2
      <4>2. Kept(m.version, m.name, m.up, m.down)
        BY <1>1, <1>2, <1>3, <1>4, <1>7, <4>1 DEF ReadList
      <4> QED BY <1>4, <4>1, <4>2
    <3> QED BY <1>1, <3>1, <3>2
  <2> QED BY <1>1, <2>1 DEF Kept
<1>8. Recorded'
  <2>1. \A r \in applied' : r.checksum = <<r.checksum[1], r.checksum[2]>>
    BY <1>1, <1>2, <1>4 DEF Recorded
  <2>2. Gapless(VersionsOf(applied))'
    BY <1>2, <1>5 DEF ReadList, Gapless, VersionsOf
  <2> QED BY <1>6, <1>7, <2>1, <2>2 DEF Recorded
<1>9. Directory' /\ Honest
  BY <1>1 DEF IInv, Directory, IsFile, Gapless, VersionsOf, File, Honest
<1> QED BY <1>1, <1>2, <1>8, <1>9, Returned, ProcessStep DEF IInv

LEMMA RollbackStep == ASSUME IInv, NEW p \in Processes, rollback(p) PROVE IInv'
<1> DEFINE v == Latest(p).version
<1>1. /\ pc[p] = "begun" /\ Valid(p) /\ Return(p) /\ seen[p] # {}
      /\ applied' = {r \in applied : r.version # v}
      /\ files' = files /\ strayed' = strayed
  BY DEF rollback, counts
<1>2. /\ dbLock = p /\ seen[p] = applied /\ ReadList(p) /\ Recorded
      /\ VersionsOf(applied) \subseteq VersionsOf(loaded[p])
  BY <1>1, InTransaction
<1>3. PICK n \in 0..MaxVersion : VersionsOf(applied) = 1..n
  BY <1>2 DEF Recorded, Gapless
<1>4. n > 0 /\ n \in Nat
  BY <1>1, <1>2, <1>3, MigrationsAssumption DEF VersionsOf
<1>5. v = n
  <2> DEFINE Newest(m) == /\ m.version \in VersionsOf(seen[p])
                        /\ \A r \in seen[p] : r.version <= m.version
  <2>1. n \in VersionsOf(seen[p]) /\ \A r \in seen[p] : r.version <= n
    BY <1>2, <1>3, <1>4 DEF VersionsOf
  <2>2. \E m \in loaded[p] : Newest(m)
    <3>1. PICK m \in loaded[p] : m.version = n
      BY <1>2, <2>1 DEF VersionsOf
    <3> QED BY <2>1, <3>1
  <2>3. Newest(Latest(p))
    BY <2>2 DEF Latest
  <2>4. v \in 1..n /\ n <= v
    BY <1>2, <1>3, <2>1, <2>3 DEF VersionsOf
  <2> HIDE DEF v
  <2> QED BY <1>4, <2>4
<1> HIDE DEF v
<1>6. VersionsOf(applied') = 1..(n - 1)
  <2>1. VersionsOf(applied') = VersionsOf(applied) \ {v}
    BY <1>1 DEF VersionsOf
  <2>2. 1..n \ {n} = 1..(n - 1)
    BY <1>4
  <2> QED BY <1>3, <1>5, <2>1, <2>2
<1>7. Recorded'
  <2>1. applied' \subseteq applied
    BY <1>1
  <2>2. Gapless(VersionsOf(applied))'
    BY <1>4, <1>6, MigrationsAssumption DEF Gapless, VersionsOf
  <2> QED BY <1>1, <1>2, <2>1, <2>2 DEF Recorded, Kept
<1>8. Directory' /\ Honest
  BY <1>1 DEF IInv, Directory, IsFile, Gapless, VersionsOf, File, Honest
<1> QED BY <1>1, <1>2, <1>7, <1>8, Returned, ProcessStep DEF IInv

-----------------------------------------------------------------------------
(* The developer.                                                          *)

Slot(f) == <<f.version, f.name, f.direction>>

\* Contents change where they are, and not in a version that is being written.
LEMMA EditStep ==
  ASSUME IInv, Honest,
         UNCHANGED <<projectLock, pc, plan, loaded, seen, dbLock, applied>>,
         \A f \in files' : IsFile(f) /\ \E g \in files : Slot(f) = Slot(g),
         \A g \in files : \E f \in files' : Slot(f) = Slot(g),
         \A f, g \in files' : Slot(f) = Slot(g) => f = g,
         \A p \in Processes : pc[p] \in {"down", "schema"} =>
           {f \in files' : f.version = plan[p].version} = FilesOf(plan[p].version)
  PROVE  IInv'
<1>1. VersionsOf(files)' = VersionsOf(files)
  BY DEF VersionsOf, Slot
<1>2. Directory'
  BY <1>1 DEF IInv, Directory, IsFile, File, Gapless, Slot
<1>3. ASSUME NEW p \in Processes PROVE Generator(p)' /\ ReadList(p)' /\ ReadRows(p)'
  <2>1. Generator(p)'
    BY <1>1 DEF IInv, Generator, FilesOf, UpFile, DownFile, File, Versions
  <2> QED BY <2>1, ListStays DEF IInv, ReadRows
<1>4. Recorded' /\ Domains'
  BY RecordedStays DEF IInv, Domains
<1> QED BY <1>2, <1>3, <1>4 DEF IInv

LEMMA WriteSQLStep == ASSUME IInv, NEW f \in files, WriteSQL(f) PROVE IInv'
<1> DEFINE new == [f EXCEPT !.content =
                     <<custom(f.version, IF f.direction = "up" THEN 1 ELSE -1)>>]
<1>1. /\ files' = (files \ {f}) \cup {new}
      /\ \A p \in Processes : pc[p] \in {"down", "schema"} => plan[p].version # f.version
      /\ strayed' = IF Known(f.version) THEN strayed \cup {f.version} ELSE strayed
      /\ UNCHANGED <<projectLock, pc, plan, loaded, seen, dbLock, applied>>
  BY DEF WriteSQL, Known, database
<1>2. /\ new.version = f.version /\ Slot(new) = Slot(f) /\ IsFile(new)
      /\ \A g \in files : IsFile(g)
  BY DEF IInv, Directory, IsFile, File, Slot
<1> HIDE DEF new
<1>3. Honest
  BY <1>1 DEF Honest
<1>4. \A g, h \in files : Slot(g) = Slot(h) => g = h
  BY DEF IInv, Directory, Slot
<1>5. /\ \A g \in files' : IsFile(g) /\ \E h \in files : Slot(g) = Slot(h)
      /\ \A g \in files : \E h \in files' : Slot(h) = Slot(g)
      /\ \A g, h \in files' : Slot(g) = Slot(h) => g = h
  BY <1>1, <1>2, <1>4
<1>6. \A p \in Processes : pc[p] \in {"down", "schema"} =>
        {g \in files' : g.version = plan[p].version} = FilesOf(plan[p].version)
  BY <1>1, <1>2 DEF FilesOf
<1> QED BY <1>1, <1>3, <1>5, <1>6, EditStep

LEMMA ModifyStep == ASSUME IInv, NEW v \in Versions, ModifyPair(v) PROVE IInv'
<1> DEFINE New(f) == [f EXCEPT !.content = IF f.direction = "up" THEN Append(@, custom(v, 1))
                                           ELSE <<custom(v, -1)>> \o @]
<1>1. /\ files' = {f \in files : f.version # v} \cup {New(f) : f \in {g \in files : g.version = v}}
      /\ \A p \in Processes : pc[p] \in {"down", "schema"} => plan[p].version # v
      /\ strayed' = strayed \cup {v}
      /\ UNCHANGED <<projectLock, pc, plan, loaded, seen, dbLock, applied>>
  BY DEF ModifyPair, database
<1>2. \A f \in files : New(f).version = f.version /\ Slot(New(f)) = Slot(f) /\ IsFile(New(f))
  BY DEF IInv, Directory, IsFile, File, Slot
<1>3. \A f \in files : IsFile(f)
  BY DEF IInv, Directory
<1> HIDE DEF New
<1>4. Honest
  BY <1>1 DEF Honest
<1>5. \A g, h \in files : Slot(g) = Slot(h) => g = h /\ g.version = h.version
  BY DEF IInv, Directory, Slot
<1>6. /\ \A f \in files' : IsFile(f) /\ \E g \in files : Slot(f) = Slot(g)
      /\ \A g \in files : \E f \in files' : Slot(f) = Slot(g)
  BY <1>1, <1>2, <1>3
<1>7. \A f, g \in files' : Slot(f) = Slot(g) => f = g
  BY <1>1, <1>2, <1>5 DEF Slot
<1>8. \A p \in Processes : pc[p] \in {"down", "schema"} =>
        {f \in files' : f.version = plan[p].version} = FilesOf(plan[p].version)
  BY <1>1, <1>2 DEF FilesOf
<1> QED BY <1>1, <1>4, <1>6, <1>7, <1>8, EditStep

-----------------------------------------------------------------------------
(* The invariant holds.                                                    *)

LEMMA Initial == Init => IInv
<1> SUFFICES ASSUME Init PROVE IInv
  OBVIOUS
<1>1. VersionsOf({}) = {}
  BY DEF VersionsOf
<1>2. Directory /\ Recorded
  BY <1>1, NoVersions DEF Init, Directory, Recorded
<1>3. \A p \in Processes : Generator(p) /\ ReadList(p) /\ ReadRows(p)
  BY <1>1, NoVersions DEF Init, Generator, ReadList, ReadRows
<1> QED BY <1>2, <1>3 DEF Init, IInv, Domains

LEMMA Inductive == IInv /\ [Next]_vars => IInv'
<1> SUFFICES ASSUME IInv, [Next]_vars PROVE IInv'
  OBVIOUS
<1>1. ASSUME NEW p \in Processes, Step(p) PROVE IInv'
  <2>1. CASE \E empty \in BOOLEAN : lockDatabaseProject(p, empty)
    BY <2>1, LockStep
  <2>2. CASE generateDB(p)
    BY <2>2, PlanStep
  <2>3. CASE GenerateRefuses(p)
    BY <2>3, EndStep DEF GenerateRefuses, counts
  <2>4. CASE WriteUp(p)
    BY <2>4, UpStep
  <2>5. CASE WriteDown(p)
    BY <2>5, DownStep
  <2>6. CASE writeSchema(p)
    BY <2>6, EndStep DEF writeSchema, counts
  <2>7. CASE WriteFails(p)
    BY <2>7, FailStep
  <2>14. CASE RemoveFails(p)
    BY <2>14, RemoveStep
  <2>8. CASE \E operation \in {"migrate", "rollback"} : Load(p, operation)
    BY <2>8, LoadStep
  <2>9. CASE lockedMigrationTx(p)
    BY <2>9, BeginStep
  <2>10. CASE migrate(p)
    BY <2>10, MigrateStep
  <2>11. CASE rollback(p)
    BY <2>11, RollbackStep
  <2>12. CASE Fails(p)
    BY <2>12, EndStep DEF Fails, counts
  <2>13. CASE Killed(p)
    BY <2>13, EndStep DEF Killed
  <2> QED BY <1>1, <2>1, <2>2, <2>3, <2>4, <2>5, <2>6, <2>7, <2>8, <2>9, <2>10, <2>11,
             <2>12, <2>13, <2>14 DEF Step
<1>2. ASSUME UNCHANGED <<files, projectLock, pc, plan, loaded, seen, dbLock, applied, strayed>>
      PROVE  IInv'
  BY <1>2 DEF IInv, Domains, Directory, IsFile, Gapless, VersionsOf, File, Recorded, Kept,
              Generator, FilesOf, UpFile, DownFile, ReadList, ReadRows, Versions
<1>3. CASE RegisterModels
  BY <1>2, <1>3 DEF RegisterModels, database, counts
<1>4. CASE \E f \in files : WriteSQL(f)
  BY <1>4, WriteSQLStep
<1>5. CASE \E v \in Versions : ModifyPair(v)
  BY <1>5, ModifyStep
<1>6. CASE UNCHANGED vars
  BY <1>2, <1>6 DEF vars, project, database, counts
<1> QED BY <1>1, <1>3, <1>4, <1>5, <1>6 DEF Next

\* The inductive invariant holds of every behaviour (database.go,
\* migrations.go).
THEOREM Invariance == Spec => []IInv
BY Initial, Inductive, PTL DEF Spec

\* What is recorded as applied is a prefix of what is on disk, whatever was
\* generated, applied or rolled back between the reading of the files and the
\* transaction (migrations.go:136-234).
THEOREM AppliedStaysPrefix == Spec => []AppliedIsPrefix
<1>1. IInv => AppliedIsPrefix
  <2> SUFFICES ASSUME IInv, NEW r \in applied
               PROVE  /\ \A f \in files : f.version < r.version => f.version \in VersionsOf(applied)
                      /\ r.version \notin strayed =>
                           Kept(r.version, r.name, r.checksum[1], r.checksum[2])
                           /\ r.checksum = <<r.checksum[1], r.checksum[2]>>
    BY DEF AppliedIsPrefix, Kept
  <2>1. PICK n \in 0..MaxVersion : VersionsOf(applied) = 1..n
    BY DEF IInv, Recorded, Gapless
  <2>2. r.version \in 1..n
    BY <2>1 DEF VersionsOf
  <2>3. \A f \in files : f.version \in 1..MaxVersion
    BY DEF IInv, Directory, IsFile, Versions
  <2>4. \A f \in files : f.version < r.version => f.version \in VersionsOf(applied)
    BY <2>1, <2>2, <2>3, MigrationsAssumption
  <2> QED BY <2>4 DEF IInv, Recorded
<1> QED BY <1>1, Invariance, PTL

\* Of a list and rows that name each version once, status shows something
\* modified, missing, or pending before applied exactly when the history is
\* refused.
LEMMA StatusIsValidity ==
  ASSUME NEW list, NEW rows, \A m, n \in list : m.version = n.version => m = n
  PROVE  LET shown == status(list, rows)
             known == DOMAIN shown
         IN  validateMigrationHistory(list, rows) <=>
               /\ \A v \in known : shown[v] \in {"pending", "applied"}
               /\ \A v, w \in known : v < w /\ shown[w] = "applied" => shown[v] = "applied"
<1> DEFINE shown == status(list, rows)
           L == VersionsOf(list)  R == VersionsOf(rows)
           Same(v) == \E m \in list : m.version = v /\ Row(m) \in rows
<1>1. /\ DOMAIN shown = L \cup R
      /\ \A v \in L \cup R :
           /\ shown[v] = "pending" <=> v \in L \ R
           /\ shown[v] = "applied" <=> v \in L \cap R /\ Same(v)
  <2>1. shown = [v \in L \cup R |->
                   CASE v \notin L -> "missing"
                     [] v \notin R -> "pending"
                     [] Same(v)    -> "applied"
                     [] OTHER      -> "modified"]
    BY DEF status
  <2>2. \A v : Same(v) => v \in L \cap R
    BY DEF VersionsOf, Row
  <2> HIDE DEF shown, L, R, Same
  <2> QED BY <2>1, <2>2
<1>2. \A m \in list : m.version \in L /\ (Same(m.version) <=> Row(m) \in rows)
  BY DEF VersionsOf
<1>3. \A v \in L : \E m \in list : m.version = v
  BY DEF VersionsOf
<1>4. validateMigrationHistory(list, rows) <=>
        /\ \A v, w \in L : v < w /\ w \in R => v \in R
        /\ \A v \in L \cap R : Same(v)
        /\ R \subseteq L
  BY <1>2, <1>3 DEF validateMigrationHistory
<1> HIDE DEF shown, L, R, Same
<1>5. validateMigrationHistory(list, rows) <=>
        /\ \A v \in L \cup R : shown[v] \in {"pending", "applied"}
        /\ \A v, w \in L \cup R : v < w /\ shown[w] = "applied" => shown[v] = "applied"
  BY <1>1, <1>4
<1> QED BY <1>1, <1>5 DEF shown

\* godo db status shows what migrate and rollback refuse (docs/orm.md:238).
THEOREM StatusIsTrue == Spec => []StatusTells
<1>1. IInv => StatusTells
  <2> SUFFICES ASSUME IInv, Loadable PROVE StatusTells
    BY DEF StatusTells
  <2>1. \A m, n \in loadMigrations : m.version = n.version => m = n
    BY Listed DEF IInv
  <2> QED BY <2>1, StatusIsValidity DEF StatusTells
<1> QED BY <1>1, Invariance, PTL

-----------------------------------------------------------------------------
(* Types.                                                                  *)

Typed ==
  /\ models \in ModelSets /\ validateSchema(schemaLock)
  /\ \A p \in Processes : pc[p] \in {"up", "down", "schema"} => validateSchema(plan[p].schema)
  /\ projectLock \in Processes \cup {NoProcess} /\ dbLock \in Processes \cup {NoProcess}
  /\ pc \in [Processes -> {"idle", "plan", "up", "down", "schema", "loaded", "begun"}]
  /\ kills \in 0..MaxKills /\ edits \in 0..MaxEdits /\ torn \in BOOLEAN
  /\ strayed \subseteq Versions

LEMMA EmptyIsValid == validateSchema(emptySchema(Dialect))
BY MigrationsAssumption DEF emptySchema, validateSchema, Distinct, NamesOf, ToSet

LEMMA TypedInitially == Init => Typed
<1> SUFFICES ASSUME Init PROVE Typed
  OBVIOUS
<1>1. validateSchema(schemaLock)
  BY EmptyIsValid DEF Init
<1>2. 0 \in 0..MaxKills /\ 0 \in 0..MaxEdits
  BY MigrationsAssumption
<1> QED BY <1>1, <1>2 DEF Init, Typed

\* A command ends.
LEMMA ReturnTyped ==
  ASSUME Typed, IInv, NEW p \in Processes, Return(p), models' = models,
         validateSchema(schemaLock)',
         kills' \in 0..MaxKills, edits' = edits, torn' \in BOOLEAN, strayed' \subseteq Versions
  PROVE  Typed'
<1>1. /\ pc' = [pc EXCEPT ![p] = "idle"] /\ plan' = [plan EXCEPT ![p] = NoPlan]
      /\ projectLock' \in {projectLock, NoProcess} /\ dbLock' \in {dbLock, NoProcess}
  BY DEF Return, Goto
<1>2. \A q \in Processes : pc'[q] \in {"up", "down", "schema"} =>
        pc[q] \in {"up", "down", "schema"} /\ plan'[q] = plan[q]
  BY <1>1 DEF Typed, IInv, Domains
<1>3. \A q \in Processes : pc'[q] \in {"up", "down", "schema"} => validateSchema(plan[q].schema)'
  BY <1>2 DEF Typed
<1> QED BY <1>1, <1>3 DEF Typed

\* One that goes on, and writes no schema.
LEMMA GoOnTyped ==
  ASSUME Typed, IInv, NEW p \in Processes,
         NEW l \in {"plan", "up", "down", "schema", "loaded", "begun"},
         pc' = [pc EXCEPT ![p] = l], models' = models, schemaLock' = schemaLock,
         l \in {"up", "down", "schema"} => validateSchema(plan'[p].schema),
         \A q \in Processes : q # p => plan'[q] = plan[q],
         projectLock' \in Processes \cup {NoProcess}, dbLock' \in Processes \cup {NoProcess},
         kills' = kills, edits' = edits, torn' = torn, strayed' = strayed
  PROVE  Typed'
<1>1. pc' \in [Processes -> {"idle", "plan", "up", "down", "schema", "loaded", "begun"}]
  BY DEF Typed
<1>2. \A q \in Processes : pc'[q] \in {"up", "down", "schema"} => validateSchema(plan'[q].schema)
  BY DEF Typed
<1>3. \A q \in Processes : pc'[q] \in {"up", "down", "schema"} => validateSchema(plan[q].schema)'
  BY <1>2
<1>4. validateSchema(schemaLock)'
  BY DEF Typed
<1> QED BY <1>1, <1>3, <1>4 DEF Typed

LEMMA TypedInductive == IInv /\ Typed /\ [Next]_vars => Typed'
<1> SUFFICES ASSUME IInv, Typed, [Next]_vars PROVE Typed'
  OBVIOUS
<1> USE DEF project, database, counts
<1>1. /\ DOMAIN pc = Processes /\ DOMAIN plan = Processes
      /\ \A f \in files : f.version \in Versions
  BY DEF IInv, Domains, Directory, IsFile
<1>2. validateSchema(schemaLock) /\ strayed \subseteq Versions
  BY DEF Typed
<1>3. ASSUME NEW p \in Processes, Step(p) PROVE Typed'
  <2>1. CASE \E empty \in BOOLEAN : lockDatabaseProject(p, empty)
    BY <1>1, <2>1, GoOnTyped DEF lockDatabaseProject, Goto, Typed
  <2>2. CASE generateDB(p)
    <3>1. validateSchema(exportSchema)
      BY <2>2 DEF generateDB, Plannable, Generable
    <3>2. plan'[p].schema = exportSchema
      BY <1>1, <2>2 DEF generateDB
    <3> QED BY <1>1, <2>2, <3>1, <3>2, GoOnTyped DEF generateDB, Goto, Typed
  <2>3. CASE GenerateRefuses(p) \/ Fails(p) \/ migrate(p) \/ rollback(p)
    BY <1>1, <1>2, <2>3, ReturnTyped DEF GenerateRefuses, Fails, migrate, rollback, Typed
  <2>4. CASE WriteUp(p)
    BY <1>1, <2>4, GoOnTyped DEF WriteUp, Goto, Typed
  <2>5. CASE WriteDown(p)
    <3>1. CASE plan[p].empty /\ Return(p)
      BY <1>1, <1>2, <2>5, <3>1, ReturnTyped DEF WriteDown, Typed
    <3>2. CASE Goto(p, "schema") /\ UNCHANGED <<projectLock, plan, loaded, seen, dbLock>>
      BY <1>1, <2>5, <3>2, GoOnTyped DEF WriteDown, Goto, Typed
    <3> QED BY <2>5, <3>1, <3>2 DEF WriteDown
  <2>6. CASE writeSchema(p)
    <3>1. validateSchema(plan[p].schema) /\ schemaLock' = plan[p].schema
      BY <2>6 DEF writeSchema, Typed
    <3>2. validateSchema(schemaLock)'
      BY <3>1
    <3> QED BY <2>6, <3>2, ReturnTyped DEF writeSchema, Typed
  <2>7. CASE WriteFails(p)
    <3>1. {f.version : f \in Removed(p)} \subseteq Versions
      BY <1>1 DEF Removed
    <3> QED BY <1>1, <1>2, <2>7, <3>1, ReturnTyped DEF WriteFails, Typed
  <2>11. CASE RemoveFails(p)
    <3>1. {f.version : f \in Removed(p)} \subseteq Versions
      BY <1>1 DEF Removed
    <3>2. strayed' \subseteq Versions
      BY <1>2, <2>11, <3>1 DEF RemoveFails
    <3>3. kills' \in 0..MaxKills
      BY <2>11, MigrationsAssumption DEF RemoveFails, Typed
    <3> QED BY <1>2, <2>11, <3>2, <3>3, ReturnTyped DEF RemoveFails
  <2>8. CASE \E operation \in {"migrate", "rollback"} : Load(p, operation)
    BY <1>1, <2>8, GoOnTyped DEF Load, Goto, Typed
  <2>9. CASE lockedMigrationTx(p)
    BY <1>1, <2>9, GoOnTyped DEF lockedMigrationTx, Goto, Typed
  <2>10. CASE Killed(p)
    <3>1. kills' \in 0..MaxKills
      BY <2>10, MigrationsAssumption DEF Killed, Typed
    <3> QED BY <1>1, <1>2, <2>10, <3>1, ReturnTyped DEF Killed, Typed
  <2> QED BY <1>3, <2>1, <2>2, <2>3, <2>4, <2>5, <2>6, <2>7, <2>8, <2>9, <2>10, <2>11 DEF Step
<1>4. ASSUME UNCHANGED <<schemaLock, projectLock, dbLock, pc, plan, kills, torn>>,
             models' \in ModelSets, edits' \in 0..MaxEdits, strayed' \subseteq Versions
      PROVE  Typed'
  BY <1>4 DEF Typed
<1>5. CASE RegisterModels
  BY <1>4, <1>5 DEF RegisterModels, Typed
<1>6. CASE \E f \in files : WriteSQL(f)
  BY <1>1, <1>4, <1>6 DEF WriteSQL, Typed
<1>7. CASE \E v \in Versions : ModifyPair(v)
  BY <1>4, <1>7, MigrationsAssumption DEF ModifyPair, Typed
<1>8. CASE UNCHANGED vars
  BY <1>4, <1>8 DEF vars, Typed
<1> QED BY <1>3, <1>5, <1>6, <1>7, <1>8 DEF Next

\* Every variable keeps its type, and the schema lock is always a schema that
\* the next generate accepts (schema.go:94-170).
THEOREM TypeCorrect == Spec => []TypeOK
<1>1. IInv /\ Typed => TypeOK
  <2> SUFFICES ASSUME IInv, Typed PROVE TypeOK
    OBVIOUS
  <2>1. VersionsOf(files) \subseteq Versions /\ {f.direction : f \in files} \subseteq {"up", "down"}
    BY DEF IInv, Directory, IsFile, VersionsOf
  <2>2. /\ VersionsOf(applied) \subseteq Versions
        /\ \A r, s \in applied : r.version = s.version => r = s
    <3>1. PICK n \in 0..MaxVersion : VersionsOf(applied) = 1..n
      BY DEF IInv, Recorded, Gapless
    <3> QED BY <3>1, MigrationsAssumption DEF IInv, Recorded, Versions
  <2> QED BY <2>1, <2>2 DEF TypeOK, Typed
<1> QED BY <1>1, Invariance, TypedInitially, TypedInductive, PTL DEF Spec

-----------------------------------------------------------------------------
(* Induction over the natural numbers, from the fact that every nonempty   *)
(* set of them has a least element.                                        *)

Less == {pair \in Nat \X Nat : pair[1] < pair[2]}

LEMMA LessIsWellFounded == IsWellFoundedOn(Less, Nat)
<1>1. IsWellFoundedOn(OpToRel(<, Nat), Nat)
  BY NatLessThanWellFounded
<1>2. OpToRel(<, Nat) = Less
  BY DEF OpToRel, Less
<1> QED BY <1>1, <1>2

LEMMA LeastNatural ==
  ASSUME NEW T, T \subseteq Nat, T # {}
  PROVE  \E x \in T : \A y \in T : x <= y
<1>1. PICK x \in T : \A y \in T : <<y, x>> \notin Less
  BY LessIsWellFounded, WFMin
<1>2. ASSUME NEW y \in T PROVE x <= y
  <2>1. x \in Nat /\ y \in Nat /\ ~(y < x)
    BY <1>1 DEF Less
  <2> QED BY <2>1
<1> QED BY <1>2

LEMMA Induction ==
  ASSUME NEW T, 0 \in T, \A n \in Nat : n \in T => n + 1 \in T
  PROVE  \A n \in Nat : n \in T
<1> SUFFICES ASSUME \E n \in Nat : n \notin T PROVE FALSE
  OBVIOUS
<1> DEFINE U == {n \in Nat : n \notin T}
<1>1. PICK x \in U : \A y \in U : x <= y
  <2>1. U \subseteq Nat /\ U # {}
    OBVIOUS
  <2> QED BY <2>1, LeastNatural
<1>2. x - 1 \in Nat /\ x - 1 < x /\ (x - 1) + 1 = x
  <2>1. x # 0 /\ x \in Nat
    OBVIOUS
  <2> QED BY <2>1
<1>3. x - 1 \in T
  BY <1>1, <1>2
<1> QED BY <1>2, <1>3

-----------------------------------------------------------------------------
(* Run: the states between the statements of a content.                    *)

IsSeq(s) == s \in Seq(ToSet(s))

\* after is what the database goes through.
Trace(content, d, after) ==
  /\ after = [n \in 0..Len(content) |-> after[n]]
  /\ after[0] = d
  /\ \A n \in 1..Len(content) : after[n] = Try(content[n], after[n - 1])

LEMMA TraceExists ==
  ASSUME NEW content, Len(content) \in Nat, NEW d
  PROVE  \E after : Trace(content, d, after)
<1> DEFINE Upto(k) == \E after : /\ after[0] = d
                                 /\ \A n \in 1..k : after[n] = Try(content[n], after[n - 1])
           T == {k \in Nat : Upto(k)}
<1>1. 0 \in T
  <2>1. [n \in {0} |-> d][0] = d /\ 1..0 = {}
    OBVIOUS
  <2> QED BY <2>1
<1>2. ASSUME NEW k \in Nat, k \in T PROVE k + 1 \in T
  <2>1. PICK after : /\ after[0] = d
                     /\ \A n \in 1..k : after[n] = Try(content[n], after[n - 1])
    BY <1>2
  <2> DEFINE next == [n \in 0..(k + 1) |-> IF n = k + 1 THEN Try(content[k + 1], after[k])
                                           ELSE after[n]]
  <2>2. next[0] = d
    BY <2>1
  <2>3. ASSUME NEW n \in 1..(k + 1) PROVE next[n] = Try(content[n], next[n - 1])
    <3>1. next[n - 1] = after[n - 1]
      OBVIOUS
    <3>2. CASE n = k + 1
      BY <3>1, <3>2
    <3>3. CASE n # k + 1
      <4>1. n \in 1..k
        BY <3>3
      <4> QED BY <2>1, <3>1, <4>1
    <3> QED BY <3>2, <3>3
  <2> HIDE DEF next
  <2> QED BY <2>2, <2>3
<1> HIDE DEF T
<1>3. Len(content) \in T
  BY <1>1, <1>2, Induction
<1>4. PICK after : /\ after[0] = d
                   /\ \A n \in 1..Len(content) : after[n] = Try(content[n], after[n - 1])
  BY <1>3 DEF T
<1> DEFINE trace == [n \in 0..Len(content) |-> after[n]]
<1>5. Trace(content, d, trace)
  BY <1>4 DEF Trace
<1> QED BY <1>5

LEMMA TraceIsUnique ==
  ASSUME NEW content, Len(content) \in Nat, NEW d, NEW after, NEW other,
         Trace(content, d, after), Trace(content, d, other)
  PROVE  after = other
<1> DEFINE T == {k \in Nat : k <= Len(content) => after[k] = other[k]}
<1>1. 0 \in T
  BY DEF Trace
<1>2. ASSUME NEW k \in Nat, k \in T PROVE k + 1 \in T
  <2>1. CASE k + 1 <= Len(content)
    <3>1. after[k] = other[k] /\ k + 1 \in 1..Len(content) /\ (k + 1) - 1 = k
      BY <1>2, <2>1
    <3>2. /\ after[k + 1] = Try(content[k + 1], after[k])
          /\ other[k + 1] = Try(content[k + 1], other[k])
      BY <3>1 DEF Trace
    <3> QED BY <3>1, <3>2
  <2> QED BY <2>1
<1> HIDE DEF T
<1>3. \A n \in Nat : n \in T
  BY <1>1, <1>2, Induction
<1> QED BY <1>3 DEF T, Trace

\* What Run computes: the end of the only trace.
LEMMA RunIs ==
  ASSUME NEW content, Len(content) \in Nat, NEW d, NEW after, Trace(content, d, after)
  PROVE  Run(content, d) = after[Len(content)]
<1> DEFINE Body(f) == [n \in 0..Len(content) |-> IF n = 0 THEN d ELSE Try(content[n], f[n - 1])]
           g == CHOOSE f : f = Body(f)
<1>1. \A f : Trace(content, d, f) <=> f = Body(f)
  BY DEF Trace
<1>2. Trace(content, d, g)
  BY <1>1
<1>3. g = after
  BY <1>2, TraceIsUnique
<1>4. Run(content, d) = g[Len(content)]
  BY DEF Run
<1> QED BY <1>3, <1>4

LEMMA RunTrace ==
  ASSUME NEW content, Len(content) \in Nat, NEW d
  PROVE  \E after : Trace(content, d, after) /\ Run(content, d) = after[Len(content)]
BY TraceExists, RunIs

LEMMA RunNothing == ASSUME NEW d PROVE Run(<<>>, d) = d
<1>1. PICK after : Trace(<<>>, d, after) /\ Run(<<>>, d) = after[Len(<<>>)]
  BY RunTrace
<1> QED BY <1>1 DEF Trace

LEMMA RunConcat ==
  ASSUME NEW S, NEW a \in Seq(S), NEW b \in Seq(S), NEW d
  PROVE  Run(a \o b, d) = Run(b, Run(a, d))
<1>1. PICK f : Trace(a, d, f) /\ Run(a, d) = f[Len(a)]
  BY RunTrace
<1>2. PICK g : Trace(b, Run(a, d), g) /\ Run(b, Run(a, d)) = g[Len(b)]
  BY RunTrace
<1> DEFINE c == a \o b
           h == [n \in 0..Len(c) |-> IF n <= Len(a) THEN f[n] ELSE g[n - Len(a)]]
<1>3. /\ Len(c) = Len(a) + Len(b) /\ Len(a) \in Nat /\ Len(b) \in Nat
      /\ \A n \in 1..Len(a) : c[n] = a[n]
      /\ \A n \in 1..Len(b) : c[Len(a) + n] = b[n]
  OBVIOUS
<1> HIDE DEF c
<1>4. h[0] = d /\ DOMAIN h = 0..Len(c)
  BY <1>1, <1>3 DEF Trace
<1>5. ASSUME NEW n \in 1..Len(c) PROVE h[n] = Try(c[n], h[n - 1])
  <2>1. CASE n <= Len(a)
    <3>1. n \in 1..Len(a) /\ h[n] = f[n] /\ h[n - 1] = f[n - 1]
      BY <1>3, <2>1
    <3> QED BY <1>1, <1>3, <3>1 DEF Trace
  <2>2. CASE n > Len(a)
    <3> DEFINE k == n - Len(a)
    <3>1. k \in 1..Len(b) /\ n = Len(a) + k /\ h[n] = g[k]
      BY <1>3, <2>2
    <3>2. h[n - 1] = g[k - 1]
      <4>1. CASE k = 1
        <5>1. n - 1 = Len(a) /\ k - 1 = 0
          BY <1>3, <3>1, <4>1
        <5>2. h[n - 1] = f[Len(a)] /\ g[0] = f[Len(a)]
          BY <1>1, <1>2, <1>3, <5>1 DEF Trace
        <5> QED BY <5>1, <5>2
      <4>2. CASE k # 1
        <5>1. ~(n - 1 <= Len(a)) /\ n - 1 \in 0..Len(c) /\ (n - 1) - Len(a) = k - 1
          BY <1>3, <3>1, <4>2
        <5> QED BY <5>1
      <4> QED BY <4>1, <4>2
    <3>3. g[k] = Try(b[k], g[k - 1]) /\ c[n] = b[k]
      BY <1>2, <1>3, <3>1 DEF Trace
    <3> QED BY <3>1, <3>2, <3>3
  <2> QED BY <1>3, <2>1, <2>2
<1>6. Trace(c, d, h)
  BY <1>4, <1>5 DEF Trace
<1>7. Run(c, d) = h[Len(c)]
  <2>1. Len(c) \in Nat
    BY <1>3
  <2> HIDE DEF h
  <2> QED BY <1>6, <2>1, RunIs
<1>8. h[Len(c)] = g[Len(b)]
  <2>1. CASE Len(b) = 0
    BY <1>1, <1>2, <1>3, <2>1 DEF Trace
  <2>2. CASE Len(b) # 0
    BY <1>3, <2>2
  <2> QED BY <2>1, <2>2
<1> QED BY <1>2, <1>7, <1>8 DEF c

LEMMA RunOne == ASSUME NEW s, NEW d PROVE Run(<<s>>, d) = Try(s, d)
<1>1. PICK after : Trace(<<s>>, d, after) /\ Run(<<s>>, d) = after[Len(<<s>>)]
  BY RunTrace
<1>2. Len(<<s>>) = 1 /\ <<s>>[1] = s
  OBVIOUS
<1> QED BY <1>1, <1>2 DEF Trace

-----------------------------------------------------------------------------
(* Statements and what takes them back.                                    *)

IsTable(t) == t = [name |-> t.name, columns |-> t.columns, primaryKey |-> t.primaryKey]
WellNamed(tables) ==
  /\ \A t \in tables : IsTable(t)
  /\ \A t, u \in tables : t.name = u.name => t = u
Database(d) ==
  /\ d = [tables |-> d.tables, data |-> d.data] /\ d.data \in [Versions -> Int]
  /\ WellNamed(d.tables)

IsCustom(s) == s.op = "custom" /\ s.version \in Versions /\ s.change \in Int
IsAddition(s) == s.op \in {"create table", "add column"}
Forward(s) == IsAddition(s) \/ IsCustom(s)

\* t takes s back.
Undoes(s, t) ==
  \/ IsAddition(s) /\ t = Undo(s)
  \/ IsCustom(s) /\ IsCustom(t) /\ t.version = s.version /\ t.change = -s.change

LEMMA Standing == ASSUME NEW d, Database(d) PROVE d # Refused
<1>1. DOMAIN d = {"tables", "data"}
  BY DEF Database
<1>2. DOMAIN Refused = {"refused"}
  BY DEF Refused
<1> QED BY <1>1, <1>2

WithColumns(t, columns) == [name |-> t.name, columns |-> columns, primaryKey |-> t.primaryKey]

LEMMA Widened ==
  ASSUME NEW t, IsTable(t), NEW columns
  PROVE  /\ [t EXCEPT !.columns = columns] = WithColumns(t, columns)
         /\ IsTable(WithColumns(t, columns)) /\ WithColumns(t, columns).name = t.name
         /\ WithColumns(t, columns).columns = columns
         /\ WithColumns(t, t.columns) = t
         /\ \A again : WithColumns(WithColumns(t, columns), again) = WithColumns(t, again)
<1>1. DOMAIN t = {"name", "columns", "primaryKey"}
  BY DEF IsTable
<1>2. [t EXCEPT !.columns = columns] = WithColumns(t, columns)
  BY <1>1 DEF WithColumns
<1> QED BY <1>2 DEF IsTable, WithColumns

\* The table that s gives a column.
Grown(s, tables, t) ==
  /\ t \in tables /\ t.name = s.table.name /\ IsTable(t)
  /\ \A c \in t.columns : c.name # s.column.name
  /\ Held(tables, s.table.name) = {t}
  /\ After(s, tables) = (tables \ {t}) \cup {WithColumns(t, t.columns \cup {s.column})}

LEMMA AfterAdd ==
  ASSUME NEW tables, WellNamed(tables), NEW s, s.op = "add column", Possible(s, tables)
  PROVE  \E t : Grown(s, tables, t)
<1>1. PICK t \in Held(tables, s.table.name) : \A c \in t.columns : c.name # s.column.name
  BY DEF Possible
<1>2. t \in tables /\ t.name = s.table.name /\ IsTable(t)
  BY <1>1 DEF Held, WellNamed
<1>3. Held(tables, s.table.name) = {t}
  BY <1>2 DEF Held, WellNamed
<1>4. After(s, tables) = (tables \ {t}) \cup {[t EXCEPT !.columns = @ \cup {s.column}]}
  BY <1>3 DEF After
<1>5. [t EXCEPT !.columns = @ \cup {s.column}] = WithColumns(t, t.columns \cup {s.column})
  BY <1>2, Widened
<1>6. Grown(s, tables, t)
  BY <1>1, <1>2, <1>3, <1>4, <1>5 DEF Grown
<1> QED BY <1>6

\* The tables stay well named.
LEMMA AfterKeeps ==
  ASSUME NEW tables, WellNamed(tables), NEW s, IsAddition(s),
         Possible(s, tables)
  PROVE  WellNamed(After(s, tables))
<1>1. CASE s.op = "create table"
  <2>1. Held(tables, s.table.name) = {} /\ After(s, tables) = tables \cup {Table(s.table)}
    BY <1>1 DEF Possible, After
  <2>2. IsTable(Table(s.table)) /\ Table(s.table).name = s.table.name
    BY DEF Table, IsTable
  <2>3. \A t \in tables : t.name # s.table.name
    BY <2>1 DEF Held
  <2> HIDE DEF Table
  <2> QED BY <2>1, <2>2, <2>3 DEF WellNamed
<1>2. CASE s.op = "add column"
  <2>1. PICK t : Grown(s, tables, t)
    BY <1>2, AfterAdd
  <2> DEFINE u == WithColumns(t, t.columns \cup {s.column})
  <2>2. IsTable(u) /\ u.name = t.name
    BY DEF IsTable, WithColumns
  <2>3. t \in tables /\ After(s, tables) = (tables \ {t}) \cup {u}
    BY <2>1 DEF Grown
  <2> HIDE DEF u
  <2> QED BY <2>2, <2>3 DEF WellNamed
<1> QED BY <1>1, <1>2 DEF IsAddition

LEMMA AfterBack ==
  ASSUME NEW tables, WellNamed(tables), NEW s, IsAddition(s),
         Possible(s, tables)
  PROVE  /\ Possible(Undo(s), After(s, tables))
         /\ After(Undo(s), After(s, tables)) = tables
<1>1. CASE s.op = "create table"
  <2> DEFINE new == Table(s.table)  t == Undo(s)  after == tables \cup {new}
  <2>1. Held(tables, s.table.name) = {} /\ After(s, tables) = after
    BY <1>1 DEF Possible, After
  <2>2. t.op = "drop table" /\ t.table = s.table
    BY <1>1 DEF Undo, dropTable
  <2>3. new.name = s.table.name
    BY DEF Table
  <2>4. \A u \in tables : u.name # s.table.name
    BY <2>1 DEF Held
  <2> HIDE DEF new, t
  <2>5. Held(after, s.table.name) = {new}
    BY <2>3, <2>4 DEF Held
  <2>6. new \notin tables
    BY <2>3, <2>4
  <2>7. Possible(t, after) /\ After(t, after) = tables
    BY <2>2, <2>5, <2>6 DEF Possible, After
  <2> QED BY <2>1, <2>7 DEF t
<1>2. CASE s.op = "add column"
  <2>1. PICK u : Grown(s, tables, u)
    BY <1>2, AfterAdd
  <2> DEFINE new == WithColumns(u, u.columns \cup {s.column})
             t == Undo(s)  after == (tables \ {u}) \cup {new}
  <2>2. t.op = "drop column" /\ t.table = s.table /\ t.column = s.column
    BY <1>2 DEF Undo, dropColumn
  <2>3. /\ u \in tables /\ u.name = s.table.name /\ IsTable(u)
        /\ \A c \in u.columns : c.name # s.column.name
        /\ Held(tables, s.table.name) = {u} /\ After(s, tables) = after
    BY <2>1 DEF Grown
  <2>4. /\ new.name = u.name /\ new.columns = u.columns \cup {s.column} /\ IsTable(new)
        /\ WithColumns(new, u.columns) = u
    BY <2>3 DEF WithColumns, IsTable
  <2> HIDE DEF new, t
  <2>5. \A w \in tables \ {u} : w.name # s.table.name
    BY <2>3 DEF Held
  <2>6. Held(after, s.table.name) = {new}
    BY <2>3, <2>4, <2>5 DEF Held
  <2>7. Possible(t, after)
    BY <2>2, <2>4, <2>6 DEF Possible
  <2>8. After(t, after) = (after \ {new}) \cup {u}
    <3>1. {c \in new.columns : c.name # t.column.name} = u.columns
      BY <2>2, <2>3, <2>4
    <3>2. [new EXCEPT !.columns = u.columns] = u
      BY <2>4, Widened
    <3>3. After(t, after) = (after \ Held(after, t.table.name)) \cup
            {[w EXCEPT !.columns = {c \in @ : c.name # t.column.name}] :
               w \in Held(after, t.table.name)}
      BY <2>2 DEF After
    <3>4. After(t, after) = (after \ {new}) \cup
            {[new EXCEPT !.columns = {c \in new.columns : c.name # t.column.name}]}
      BY <2>2, <2>6, <3>3
    <3> QED BY <3>1, <3>2, <3>4
  <2>9. After(t, after) = tables
    <3>1. new \notin tables \ {u}
      BY <2>3, <2>4, <2>5
    <3> QED BY <2>3, <2>8, <3>1
  <2> QED BY <2>3, <2>7, <2>9 DEF t
<1> QED BY <1>1, <1>2 DEF IsAddition

LEMMA ExecTables ==
  ASSUME NEW d, Database(d), NEW s, s.op # "custom", Possible(s, d.tables)
  PROVE  Try(s, d) = [tables |-> After(s, d.tables), data |-> d.data]
<1>1. Try(s, d) = [d EXCEPT !.tables = After(s, d.tables)]
  BY Standing DEF Try, Exec
<1>2. DOMAIN d = {"tables", "data"}
  BY DEF Database
<1> QED BY <1>1, <1>2

LEMMA ExecData ==
  ASSUME NEW d, Database(d), NEW s, s.op = "custom"
  PROVE  Try(s, d) = [tables |-> d.tables,
                      data |-> [d.data EXCEPT ![s.version] = @ + s.change]]
<1>1. Try(s, d) = [d EXCEPT !.data[s.version] = @ + s.change]
  BY Standing DEF Try, Exec
<1>2. DOMAIN d = {"tables", "data"}
  BY DEF Database
<1> QED BY <1>1, <1>2

LEMMA TryKeeps ==
  ASSUME NEW d, Database(d), NEW s, Forward(s), Try(s, d) # Refused
  PROVE  Database(Try(s, d))
<1>1. CASE s.op = "custom"
  <2> DEFINE data == [d.data EXCEPT ![s.version] = @ + s.change]
             after == [tables |-> d.tables, data |-> data]
  <2>1. Try(s, d) = after
    BY <1>1, ExecData
  <2>2. s.version \in Versions /\ s.change \in Int /\ d.data \in [Versions -> Int]
    BY <1>1 DEF Forward, IsAddition, IsCustom, Database
  <2>3. data \in [Versions -> Int]
    BY <2>2
  <2> HIDE DEF data
  <2> QED BY <2>1, <2>3 DEF Database
<1>2. CASE IsAddition(s)
  <2>1. s.op # "custom" /\ Possible(s, d.tables)
    BY <1>2, Standing DEF Try, IsAddition
  <2>2. WellNamed(After(s, d.tables))
    <3> DEFINE tables == d.tables
    <3>1. WellNamed(tables) /\ Possible(s, tables)
      BY <2>1 DEF Database
    <3> HIDE DEF tables
    <3>2. WellNamed(After(s, tables))
      BY <1>2, <3>1, AfterKeeps
    <3> QED BY <3>2 DEF tables
  <2>3. Try(s, d) = [tables |-> After(s, d.tables), data |-> d.data]
    BY <2>1, ExecTables
  <2> QED BY <2>2, <2>3 DEF Database
<1> QED BY <1>1, <1>2 DEF Forward, IsCustom

\* Trying t after s leads back to where s started.
LEMMA TryBack ==
  ASSUME NEW d, Database(d), NEW s, NEW t, Undoes(s, t), Try(s, d) # Refused
  PROVE  Try(t, Try(s, d)) = d
<1>0. Forward(s) /\ Database(Try(s, d))
  BY TryKeeps DEF Undoes, Forward
<1>1. CASE IsCustom(s) /\ IsCustom(t) /\ t.version = s.version /\ t.change = -s.change
  <2> DEFINE data == [d.data EXCEPT ![s.version] = @ + s.change]
             after == [tables |-> d.tables, data |-> data]
             again == [data EXCEPT ![t.version] = @ + t.change]
  <2>1. Try(s, d) = after
    BY <1>1, ExecData DEF IsCustom
  <2>2. Try(t, after) = [tables |-> after.tables,
                         data |-> [after.data EXCEPT ![t.version] = @ + t.change]]
    BY <1>0, <1>1, <2>1, ExecData DEF IsCustom
  <2>3. s.version \in Versions /\ s.change \in Int /\ d.data \in [Versions -> Int]
    BY <1>1 DEF IsCustom, Database
  <2>4. again = d.data
    <3>1. data \in [Versions -> Int] /\ again \in [Versions -> Int]
      BY <1>1, <2>3
    <3>2. ASSUME NEW v \in Versions PROVE again[v] = d.data[v]
      BY <1>1, <2>3
    <3> QED BY <2>3, <3>1, <3>2
  <2>5. Try(t, after) = [tables |-> d.tables, data |-> again]
    BY <2>2
  <2> QED BY <2>1, <2>4, <2>5 DEF Database
<1>2. CASE IsAddition(s) /\ t = Undo(s)
  <2> DEFINE after == [tables |-> After(s, d.tables), data |-> d.data]
  <2>1. s.op # "custom" /\ Possible(s, d.tables)
    BY <1>2, Standing DEF Try, IsAddition
  <2>2. Possible(t, After(s, d.tables)) /\ After(t, After(s, d.tables)) = d.tables
    <3> DEFINE tables == d.tables
    <3>1. WellNamed(tables) /\ Possible(s, tables)
      BY <2>1 DEF Database
    <3> HIDE DEF tables
    <3>2. Possible(Undo(s), After(s, tables)) /\ After(Undo(s), After(s, tables)) = tables
      BY <1>2, <3>1, AfterBack
    <3> QED BY <1>2, <3>2 DEF tables
  <2>3. Try(s, d) = after
    BY <2>1, ExecTables
  <2>4. t.op # "custom"
    BY <1>2 DEF IsAddition, Undo, dropTable, dropColumn
  <2>5. Try(t, after) = [tables |-> After(t, after.tables), data |-> after.data]
    BY <1>0, <2>2, <2>3, <2>4, ExecTables
  <2> QED BY <2>2, <2>3, <2>5 DEF Database
<1> QED BY <1>1, <1>2 DEF Undoes

LEMMA TryRefused == ASSUME NEW s PROVE Try(s, Refused) = Refused
BY DEF Try

\* A content that gets through was never refused.
LEMMA TraceStands ==
  ASSUME NEW content, Len(content) \in Nat, NEW d, NEW after, Trace(content, d, after),
         after[Len(content)] # Refused
  PROVE  \A n \in 0..Len(content) : after[n] # Refused
<1> DEFINE L == Len(content)
           T == {k \in Nat : k <= L => after[L - k] # Refused}
<1>1. 0 \in T
  OBVIOUS
<1>2. ASSUME NEW k \in Nat, k \in T PROVE k + 1 \in T
  <2>1. SUFFICES ASSUME k + 1 <= L PROVE after[L - (k + 1)] # Refused
    BY DEF T
  <2> DEFINE n == L - k
  <2>2. n \in 1..L /\ n - 1 = L - (k + 1) /\ after[n] # Refused
    BY <1>2, <2>1
  <2>3. after[n] = Try(content[n], after[n - 1])
    BY <2>2 DEF Trace
  <2> QED BY <2>2, <2>3, TryRefused
<1> HIDE DEF T
<1>3. \A k \in Nat : k \in T
  BY <1>1, <1>2, Induction
<1>4. ASSUME NEW n \in 0..L PROVE after[n] # Refused
  <2>1. L - n \in Nat /\ L - n <= L /\ L - (L - n) = n
    OBVIOUS
  <2> QED BY <1>3, <2>1 DEF T
<1> QED BY <1>4

LEMMA RunRefused ==
  ASSUME NEW content, Len(content) \in Nat
  PROVE  Run(content, Refused) = Refused
<1>1. PICK after : Trace(content, Refused, after) /\ Run(content, Refused) = after[Len(content)]
  BY RunTrace
<1>2. after[0] = Refused
  BY <1>1 DEF Trace
<1> QED BY <1>1, <1>2, TraceStands

AllForward(content) == Len(content) \in Nat /\ \A i \in 1..Len(content) : Forward(content[i])

LEMMA TraceKeeps ==
  ASSUME NEW content, AllForward(content), NEW d, Database(d), NEW after,
         Trace(content, d, after), after[Len(content)] # Refused
  PROVE  \A n \in 0..Len(content) : Database(after[n])
<1> DEFINE L == Len(content)
           T == {k \in Nat : k <= L => Database(after[k])}
<1>1. 0 \in T
  BY DEF Trace
<1>2. ASSUME NEW k \in Nat, k \in T PROVE k + 1 \in T
  <2>1. SUFFICES ASSUME k + 1 <= L PROVE Database(after[k + 1])
    OBVIOUS
  <2>2. k + 1 \in 1..L /\ k + 1 \in 0..L /\ (k + 1) - 1 = k /\ Database(after[k])
    BY <1>2, <2>1 DEF AllForward
  <2>3. after[k + 1] = Try(content[k + 1], after[k]) /\ Forward(content[k + 1])
    BY <2>2 DEF Trace, AllForward
  <2>4. after[k + 1] # Refused
    BY <2>2, TraceStands DEF AllForward
  <2> QED BY <2>2, <2>3, <2>4, TryKeeps
<1> HIDE DEF T
<1>3. \A k \in Nat : k \in T
  BY <1>1, <1>2, Induction
<1> QED BY <1>3 DEF T, AllForward

LEMMA RunKeeps ==
  ASSUME NEW content, AllForward(content), NEW d, Database(d), Run(content, d) # Refused
  PROVE  Database(Run(content, d))
<1>1. PICK after : Trace(content, d, after) /\ Run(content, d) = after[Len(content)]
  BY RunTrace DEF AllForward
<1> QED BY <1>1, TraceKeeps DEF AllForward

\* down takes up back, statement by statement from its last.
Mirrored(up, down) ==
  /\ IsSeq(up) /\ IsSeq(down) /\ Len(down) = Len(up)
  /\ \A i \in 1..Len(up) : Undoes(up[i], down[Len(up) + 1 - i])

LEMMA MirroredForward ==
  ASSUME NEW up, NEW down, Mirrored(up, down)
  PROVE  AllForward(up) /\ Len(down) \in Nat
<1>1. Len(up) \in Nat /\ Len(down) \in Nat
  BY DEF Mirrored, IsSeq
<1>2. \A s, t : Undoes(s, t) => Forward(s)
  BY DEF Undoes, Forward
<1> QED BY <1>1, <1>2 DEF Mirrored, AllForward

\* The reverse of a generated migration is one (schema.go:128-157).
LEMMA RunBack ==
  ASSUME NEW up, NEW down, Mirrored(up, down), NEW d, Database(d), Run(up, d) # Refused
  PROVE  Run(down, Run(up, d)) = d
<1>1. PICK after : Trace(up, d, after) /\ Run(up, d) = after[Len(up)]
  BY RunTrace, MirroredForward DEF AllForward
<1> DEFINE L == Len(up)
           back == [n \in 0..L |-> after[L - n]]
<1>2. L \in Nat /\ Len(down) = L /\ after[0] = d
  BY <1>1, MirroredForward DEF AllForward, Mirrored, Trace
<1>3. \A n \in 0..L : Database(after[n]) /\ after[n] # Refused
  BY <1>1, MirroredForward, TraceKeeps, Standing
<1>4. ASSUME NEW n \in 1..L PROVE back[n] = Try(down[n], back[n - 1])
  <2> DEFINE i == L + 1 - n
  <2>1. /\ i \in 1..L /\ L + 1 - i = n /\ L - n = i - 1 /\ L - (n - 1) = i
        /\ i \in 0..L /\ i - 1 \in 0..L /\ n \in 0..L /\ n - 1 \in 0..L
    BY <1>2
  <2>2. Undoes(up[i], down[n]) /\ after[i] = Try(up[i], after[i - 1])
    BY <1>1, <2>1 DEF Mirrored, Trace
  <2>3. Try(down[n], after[i]) = after[i - 1]
    BY <1>3, <2>1, <2>2, TryBack
  <2>4. back[n] = after[i - 1] /\ back[n - 1] = after[i]
    BY <2>1
  <2> QED BY <2>3, <2>4
<1>5. back[0] = after[L] /\ back[L] = d
  BY <1>2
<1>6. Trace(down, Run(up, d), back)
  BY <1>1, <1>2, <1>4, <1>5 DEF Trace
<1> HIDE DEF back
<1>7. Run(down, Run(up, d)) = back[L]
  BY <1>2, <1>6, RunIs
<1> QED BY <1>5, <1>7

-----------------------------------------------------------------------------
(* Ups: the databases between the versions.                                *)

\* One version more.
Upgraded(S, v, d) == IF v \in VersionsOf(S) THEN Run(UpOf(S, v), d) ELSE d

Replay(S, d, after) ==
  /\ after = [v \in 0..MaxVersion |-> after[v]]
  /\ after[0] = d
  /\ \A v \in Versions : after[v] = Upgraded(S, v, after[v - 1])

LEMMA VersionBound == MaxVersion \in Nat /\ MaxVersion \in Versions /\ Versions = 1..MaxVersion
BY MigrationsAssumption DEF Versions

LEMMA ReplayExists == ASSUME NEW S, NEW d PROVE \E after : Replay(S, d, after)
<1> DEFINE Upto(k) == \E after : /\ after[0] = d
                                 /\ \A v \in 1..k : after[v] = Upgraded(S, v, after[v - 1])
           T == {k \in Nat : Upto(k)}
<1>1. 0 \in T
  <2>1. [v \in {0} |-> d][0] = d /\ 1..0 = {}
    OBVIOUS
  <2> QED BY <2>1
<1>2. ASSUME NEW k \in Nat, k \in T PROVE k + 1 \in T
  <2>1. PICK after : /\ after[0] = d
                     /\ \A v \in 1..k : after[v] = Upgraded(S, v, after[v - 1])
    BY <1>2
  <2> DEFINE next == [v \in 0..(k + 1) |-> IF v = k + 1 THEN Upgraded(S, k + 1, after[k])
                                           ELSE after[v]]
  <2>2. next[0] = d
    BY <2>1
  <2>3. ASSUME NEW v \in 1..(k + 1) PROVE next[v] = Upgraded(S, v, next[v - 1])
    <3>1. next[v - 1] = after[v - 1]
      OBVIOUS
    <3>2. CASE v = k + 1
      BY <3>1, <3>2
    <3>3. CASE v # k + 1
      <4>1. v \in 1..k
        BY <3>3
      <4> QED BY <2>1, <3>1, <4>1
    <3> QED BY <3>2, <3>3
  <2> HIDE DEF next
  <2> QED BY <2>2, <2>3
<1> HIDE DEF T
<1>3. MaxVersion \in T
  BY <1>1, <1>2, Induction, VersionBound
<1>4. PICK after : /\ after[0] = d
                   /\ \A v \in 1..MaxVersion : after[v] = Upgraded(S, v, after[v - 1])
  BY <1>3 DEF T
<1> DEFINE replay == [v \in 0..MaxVersion |-> after[v]]
<1>5. Replay(S, d, replay)
  BY <1>4, VersionBound DEF Replay
<1> QED BY <1>5

\* Two replays agree as far as their steps do.
LEMMA ReplaysAgree ==
  ASSUME NEW S, NEW R, NEW d, NEW f, NEW g,
         Replay(S, d, f), Replay(R, d, g), NEW n \in 0..MaxVersion,
         \A v \in 1..n : \A e : Upgraded(S, v, e) = Upgraded(R, v, e)
  PROVE  \A v \in 0..n : f[v] = g[v]
<1> DEFINE T == {k \in Nat : k <= n => f[k] = g[k]}
<1>1. 0 \in T
  BY DEF Replay
<1>2. ASSUME NEW k \in Nat, k \in T PROVE k + 1 \in T
  <2>1. SUFFICES ASSUME k + 1 <= n PROVE f[k + 1] = g[k + 1]
    OBVIOUS
  <2>2. f[k] = g[k] /\ k + 1 \in 1..n /\ k + 1 \in Versions /\ (k + 1) - 1 = k
    BY <1>2, <2>1, VersionBound
  <2>3. f[k + 1] = Upgraded(S, k + 1, f[k]) /\ g[k + 1] = Upgraded(R, k + 1, g[k])
    BY <2>2 DEF Replay
  <2> QED BY <2>2, <2>3
<1> HIDE DEF T
<1>3. \A k \in Nat : k \in T
  BY <1>1, <1>2, Induction
<1> QED BY <1>3 DEF T

LEMMA UpsIs == ASSUME NEW S, NEW d, NEW after, Replay(S, d, after) PROVE Ups(S, d) = after
<1> DEFINE Body(f) == [v \in 0..MaxVersion |->
                         IF v = 0 THEN d
                         ELSE IF v \in VersionsOf(S) THEN Run(UpOf(S, v), f[v - 1]) ELSE f[v - 1]]
           g == CHOOSE f : f = Body(f)
<1>1. \A f : Replay(S, d, f) <=> f = Body(f)
  BY VersionBound DEF Replay, Upgraded
<1>2. Replay(S, d, g)
  BY <1>1
<1>3. g = after
  <2>1. MaxVersion \in 0..MaxVersion
    BY VersionBound
  <2>2. \A v \in 0..MaxVersion : g[v] = after[v]
    BY <1>2, <2>1, ReplaysAgree
  <2> QED BY <1>2, <2>2 DEF Replay
<1>4. Ups(S, d) = g
  BY DEF Ups
<1> QED BY <1>3, <1>4

LEMMA UpsReplay == ASSUME NEW S, NEW d PROVE Replay(S, d, Ups(S, d))
BY ReplayExists, UpsIs

\* Versions that are not there change nothing.
LEMMA UpsRest ==
  ASSUME NEW S, NEW d, NEW n \in 0..MaxVersion, NEW m \in n..MaxVersion,
         \A v \in VersionsOf(S) : ~(n < v /\ v <= m)
  PROVE  Ups(S, d)[m] = Ups(S, d)[n]
<1> DEFINE f == Ups(S, d)
           T == {k \in Nat : n + k <= m => f[n + k] = f[n]}
<1>0. Replay(S, d, f)
  BY UpsReplay
<1> HIDE DEF f
<1>1. 0 \in T
  OBVIOUS
<1>2. ASSUME NEW k \in Nat, k \in T PROVE k + 1 \in T
  <2>1. SUFFICES ASSUME n + (k + 1) <= m PROVE f[n + (k + 1)] = f[n]
    OBVIOUS
  <2> DEFINE v == n + (k + 1)
  <2>2. f[n + k] = f[n] /\ v \in Versions /\ v - 1 = n + k /\ n < v /\ v <= m
    BY <1>2, <2>1, VersionBound
  <2>3. f[v] = Upgraded(S, v, f[v - 1]) /\ v \notin VersionsOf(S)
    BY <1>0, <2>2 DEF Replay
  <2> QED BY <2>2, <2>3 DEF Upgraded
<1> HIDE DEF T
<1>3. m - n \in T /\ n + (m - n) = m
  BY <1>1, <1>2, Induction, VersionBound
<1> QED BY <1>3 DEF T, f

\* Sets that go on where the other ends.
LEMMA UpsJoin ==
  ASSUME NEW A, NEW B, NEW S, NEW d, NEW n \in 0..MaxVersion,
         \A v \in VersionsOf(A) : v <= n, \A v \in VersionsOf(B) : v > n,
         VersionsOf(A) \subseteq Versions, VersionsOf(B) \subseteq Versions,
         \A v \in 1..n : \A e : Upgraded(S, v, e) = Upgraded(A, v, e),
         \A v \in (n + 1)..MaxVersion : \A e : Upgraded(S, v, e) = Upgraded(B, v, e)
  PROVE  Ups(S, d)[MaxVersion] = Ups(B, Ups(A, d)[MaxVersion])[MaxVersion]
<1> DEFINE f == Ups(A, d)
           mid == f[MaxVersion]
           g == Ups(B, mid)
           h == [v \in 0..MaxVersion |-> IF v <= n THEN f[v] ELSE g[v]]
<1>1. Replay(A, d, f) /\ Replay(B, mid, g)
  BY UpsReplay
<1>2. mid = f[n]
  <2>1. MaxVersion \in n..MaxVersion
    BY VersionBound
  <2>2. \A v \in VersionsOf(A) : ~(n < v /\ v <= MaxVersion)
    BY VersionBound
  <2> QED BY <2>1, <2>2, UpsRest
<1>3. g[n] = g[0]
  <2>1. 0 \in 0..MaxVersion /\ n \in 0..MaxVersion /\ n \in 0..MaxVersion
    BY VersionBound
  <2>2. \A v \in VersionsOf(B) : ~(0 < v /\ v <= n)
    BY VersionBound
  <2> HIDE DEF mid
  <2> QED BY <2>1, <2>2, UpsRest
<1> HIDE DEF f, mid, g
<1>4. h[0] = d
  BY <1>1, VersionBound DEF Replay
<1>5. ASSUME NEW v \in Versions PROVE h[v] = Upgraded(S, v, h[v - 1])
  <2>0. v \in 1..MaxVersion /\ v \in 0..MaxVersion /\ v - 1 \in 0..MaxVersion
    BY VersionBound
  <2>1. CASE v <= n
    <3>1. h[v] = f[v] /\ h[v - 1] = f[v - 1] /\ v \in 1..n
      BY <2>0, <2>1
    <3> QED BY <1>1, <3>1 DEF Replay
  <2>2. CASE v > n
    <3>1. h[v] = g[v] /\ v \in (n + 1)..MaxVersion
      BY <2>0, <2>2
    <3>2. h[v - 1] = g[v - 1]
      <4>1. CASE v - 1 = n
        BY <1>1, <1>2, <1>3, <2>0, <4>1 DEF Replay
      <4>2. CASE v - 1 # n
        BY <2>0, <2>2, <4>2
      <4> QED BY <4>1, <4>2
    <3> QED BY <1>1, <3>1, <3>2 DEF Replay
  <2> QED BY <2>0, <2>1, <2>2
<1>6. Replay(S, d, h)
  BY <1>4, <1>5 DEF Replay
<1>7. Ups(S, d)[MaxVersion] = h[MaxVersion]
  <2> HIDE DEF h
  <2> QED BY <1>6, UpsIs
<1>8. h[MaxVersion] = g[MaxVersion]
  <2>1. CASE n = MaxVersion
    BY <1>1, <1>2, <1>3, <2>1, VersionBound DEF Replay
  <2>2. CASE n # MaxVersion
    BY <2>2, VersionBound
  <2> QED BY <2>1, <2>2
<1> QED BY <1>7, <1>8 DEF g, mid, f

\* The ups of a set can all be run forward.
UpsForward(S) == \A v \in VersionsOf(S) : AllForward(UpOf(S, v))

LEMMA UpsKeep ==
  ASSUME NEW S, UpsForward(S), NEW d, Database(d), NEW n \in 0..MaxVersion
  PROVE  Ups(S, d)[n] # Refused => Database(Ups(S, d)[n])
<1> DEFINE f == Ups(S, d)
           T == {k \in Nat : k <= MaxVersion => f[k] = Refused \/ Database(f[k])}
<1>0. Replay(S, d, f)
  BY UpsReplay
<1> HIDE DEF f
<1>1. 0 \in T
  BY <1>0 DEF Replay
<1>2. ASSUME NEW k \in Nat, k \in T PROVE k + 1 \in T
  <2>1. SUFFICES ASSUME k + 1 <= MaxVersion PROVE f[k + 1] = Refused \/ Database(f[k + 1])
    OBVIOUS
  <2>2. (f[k] = Refused \/ Database(f[k])) /\ k + 1 \in Versions /\ (k + 1) - 1 = k
    BY <1>2, <2>1, VersionBound
  <2>3. f[k + 1] = Upgraded(S, k + 1, f[k])
    BY <1>0, <2>2 DEF Replay
  <2>4. CASE k + 1 \in VersionsOf(S)
    <3>1. f[k + 1] = Run(UpOf(S, k + 1), f[k]) /\ AllForward(UpOf(S, k + 1))
      BY <2>3, <2>4 DEF Upgraded, UpsForward
    <3> QED BY <2>2, <3>1, RunKeeps, RunRefused DEF AllForward
  <2>5. CASE k + 1 \notin VersionsOf(S)
    BY <2>2, <2>3, <2>5 DEF Upgraded
  <2> QED BY <2>4, <2>5
<1> HIDE DEF T
<1>3. n \in T
  BY <1>1, <1>2, Induction, VersionBound
<1> QED BY <1>3, VersionBound DEF T, f

\* Nothing runs after a refusal.
LEMMA UpsStand ==
  ASSUME NEW S, UpsForward(S), NEW d, Ups(S, d)[MaxVersion] # Refused, NEW n \in 0..MaxVersion
  PROVE  Ups(S, d)[n] # Refused
<1> DEFINE f == Ups(S, d)
           T == {k \in Nat : k <= MaxVersion => f[MaxVersion - k] # Refused}
<1>0. Replay(S, d, f)
  BY UpsReplay
<1>1. 0 \in T
  BY VersionBound
<1> HIDE DEF f
<1>2. ASSUME NEW k \in Nat, k \in T PROVE k + 1 \in T
  <2>1. SUFFICES ASSUME k + 1 <= MaxVersion PROVE f[MaxVersion - (k + 1)] # Refused
    OBVIOUS
  <2> DEFINE v == MaxVersion - k
  <2>2. f[v] # Refused /\ v \in Versions /\ v - 1 = MaxVersion - (k + 1)
    BY <1>2, <2>1, VersionBound
  <2>3. f[v] = Upgraded(S, v, f[v - 1])
    BY <1>0, <2>2 DEF Replay
  <2> HIDE DEF v
  <2>4. CASE v \in VersionsOf(S)
    <3>1. f[v] = Run(UpOf(S, v), f[v - 1]) /\ AllForward(UpOf(S, v))
      BY <2>3, <2>4 DEF Upgraded, UpsForward
    <3> QED BY <2>2, <3>1, RunRefused DEF AllForward
  <2>5. CASE v \notin VersionsOf(S)
    BY <2>2, <2>3, <2>5 DEF Upgraded
  <2> QED BY <2>4, <2>5
<1> HIDE DEF T
<1>3. MaxVersion - n \in T /\ MaxVersion - (MaxVersion - n) = n
  BY <1>1, <1>2, Induction, VersionBound
<1> QED BY <1>3, VersionBound DEF T, f

-----------------------------------------------------------------------------
(* What a schema lists is a sequence, and so are the statements.           *)

Sortable(S) ==
  /\ IsFiniteSet(S)
  /\ \A x \in S : x.name \in Nat
  /\ \A x, y \in S : x.name = y.name => x = y

Sorted(s) == \A i, j \in DOMAIN s : i < j => s[i].name < s[j].name

LEMMA SortedExists ==
  ASSUME NEW S, Sortable(S)
  PROVE  \E s \in [1..Cardinality(S) -> S] : Sorted(s)
<1> DEFINE Can(n) == \A R : Sortable(R) /\ Cardinality(R) = n => \E s \in [1..n -> R] : Sorted(s)
           T == {n \in Nat : Can(n)}
<1>1. 0 \in T
  <2>1. ASSUME NEW R PROVE \E s \in [1..0 -> R] : Sorted(s)
    <3>1. [i \in 1..0 |-> CHOOSE x \in R : TRUE] \in [1..0 -> R]
      OBVIOUS
    <3>2. Sorted([i \in 1..0 |-> CHOOSE x \in R : TRUE])
      BY DEF Sorted
    <3> QED BY <3>1, <3>2
  <2> QED BY <2>1
<1>2. ASSUME NEW n \in Nat, n \in T PROVE n + 1 \in T
  <2>1. SUFFICES ASSUME NEW R, Sortable(R), Cardinality(R) = n + 1
                 PROVE  \E s \in [1..(n + 1) -> R] : Sorted(s)
    BY DEF T
  <2> DEFINE names == {x.name : x \in R}
  <2>2. names \subseteq Nat /\ names # {}
    <3>1. R # {}
      BY <2>1, FS_EmptySet
    <3> QED BY <2>1, <3>1 DEF Sortable
  <2>3. PICK low \in names : \A m \in names : low <= m
    BY <2>2, LeastNatural
  <2>4. PICK x \in R : x.name = low
    OBVIOUS
  <2> DEFINE rest == R \ {x}
  <2>5. Sortable(rest) /\ Cardinality(rest) = n
    <3>1. IsFiniteSet(rest) /\ Cardinality(rest) = Cardinality(R) - 1
      BY <2>1, FS_RemoveElement DEF Sortable
    <3> QED BY <2>1, <3>1 DEF Sortable
  <2>6. \A y \in rest : x.name < y.name
    <3>1. ASSUME NEW y \in rest PROVE x.name < y.name
      <4>1. x.name <= y.name /\ x.name # y.name /\ x.name \in Nat /\ y.name \in Nat
        BY <2>1, <2>3, <2>4 DEF Sortable
      <4> QED BY <4>1
    <3> QED BY <3>1
  <2> HIDE DEF rest
  <2>7. PICK s \in [1..n -> rest] : Sorted(s)
    BY <1>2, <2>5 DEF T
  <2> DEFINE r == [i \in 1..(n + 1) |-> IF i = 1 THEN x ELSE s[i - 1]]
  <2>8. r \in [1..(n + 1) -> R]
    <3>1. \A i \in 1..(n + 1) : i # 1 => i - 1 \in 1..n
      OBVIOUS
    <3> QED BY <2>7, <3>1 DEF rest
  <2>9. ASSUME NEW i \in 1..(n + 1), NEW j \in 1..(n + 1), i < j PROVE r[i].name < r[j].name
    <3>1. r[j] = s[j - 1] /\ j - 1 \in 1..n
      BY <2>9
    <3>2. CASE i = 1
      BY <2>6, <2>7, <3>1, <3>2
    <3>3. CASE i # 1
      <4>1. r[i] = s[i - 1] /\ i - 1 \in 1..n /\ i - 1 < j - 1
        BY <2>9, <3>3
      <4> QED BY <2>7, <3>1, <4>1 DEF Sorted
    <3> QED BY <3>2, <3>3
  <2>10. Sorted(r)
    BY <2>8, <2>9 DEF Sorted
  <2> QED BY <2>8, <2>10
<1>3. Cardinality(S) \in T
  <2> HIDE DEF T
  <2> QED BY <1>1, <1>2, Induction, FS_CardinalityType DEF Sortable
<1> QED BY <1>3

LEMMA ByNameLists == ASSUME NEW S, Sortable(S) PROVE ByName(S) \in Seq(S)
<1>1. ByName(S) \in [1..Cardinality(S) -> S]
  BY SortedExists DEF ByName, Sorted
<1>2. Cardinality(S) \in Nat
  BY FS_CardinalityType DEF Sortable
<1> QED BY <1>1, <1>2

LEMMA SeqOfItself == ASSUME NEW S, NEW s \in Seq(S) PROVE IsSeq(s) /\ ToSet(s) \subseteq S
<1>1. \A i \in 1..Len(s) : s[i] \in ToSet(s) /\ s[i] \in S
  BY DEF ToSet
<1> QED BY <1>1 DEF IsSeq, ToSet

\* The elements of a sequence are finitely many.
LEMMA ImageIsFinite ==
  ASSUME NEW s, IsSeq(s), NEW f
  PROVE  IsFiniteSet({f[x] : x \in ToSet(s)})
<1> DEFINE R == {f[x] : x \in ToSet(s)}
           r == [i \in 1..Len(s) |-> f[s[i]]]
<1>1. Len(s) \in Nat /\ DOMAIN s = 1..Len(s)
  BY DEF IsSeq
<1>2. r \in Seq(R)
  BY <1>1 DEF ToSet
<1>3. \A e \in R : \E n \in 1..Len(r) : r[n] = e
  BY <1>1 DEF ToSet
<1> QED BY <1>2, <1>3 DEF IsFiniteSet

Ordered(schema) ==
  IsSeq(schema.tables) /\ \A t \in ToSet(schema.tables) : IsSeq(t.columns)

\* What Describe makes of models that it takes.
LEMMA DescribeOrders ==
  ASSUME NEW dialect, NEW list \in Seq(Models), Describable(list)
  PROVE  Ordered(Describe(dialect, list))
<1>1. IsSeq(list) /\ ToSet(list) \subseteq Models
  BY SeqOfItself
<1>2. \A m \in ToSet(list) : modelFor(m)
  BY DEF Describable, ToSet
<1>3. \A m, n \in ToSet(list) : m.table = n.table => m = n
  BY DEF Describable, ToSet
<1>4. ASSUME NEW m \in ToSet(list) PROVE IsSeq(describedTable(dialect, m).columns)
  <2> DEFINE column == [f \in ToSet(m.fields) |->
                         [name |-> f.column, type |-> describedType(dialect, m, f),
                          notNull |-> f.notNull \/ f.primary, unique |-> f.unique,
                          auto |-> f.auto]]
             columns == {column[f] : f \in ToSet(m.fields)}
  <2>1. m.fields \in Seq(Fields)
    BY <1>1, <1>4 DEF Models
  <2>2. IsSeq(m.fields) /\ ToSet(m.fields) \subseteq Fields
    BY <2>1, SeqOfItself
  <2>3. \A f, g \in ToSet(m.fields) : f.column = g.column => f = g
    BY <1>2, <1>4 DEF modelFor, ToSet
  <2>4. \A f \in ToSet(m.fields) : column[f].name = f.column /\ f.column \in Nat
    BY <2>2 DEF Fields
  <2>5. describedTable(dialect, m).columns = ByName(columns)
    BY DEF describedTable
  <2> HIDE DEF column
  <2>6. Sortable(columns)
    BY <2>2, <2>3, <2>4, ImageIsFinite DEF Sortable
  <2> HIDE DEF columns
  <2> QED BY <2>5, <2>6, ByNameLists, SeqOfItself
<1> DEFINE table == [m \in ToSet(list) |-> describedTable(dialect, m)]
           tables == {table[m] : m \in ToSet(list)}
<1>5. \A m \in ToSet(list) : table[m].name = m.table /\ m.table \in Nat
  BY <1>1 DEF describedTable, Models
<1>6. Describe(dialect, list).tables = ByName(tables)
  BY DEF Describe
<1>7. \A t \in tables : IsSeq(t.columns)
  BY <1>4
<1> HIDE DEF table
<1>8. Sortable(tables)
  BY <1>1, <1>3, <1>5, ImageIsFinite DEF Sortable
<1> HIDE DEF tables
<1>9. ByName(tables) \in Seq(tables)
  BY <1>8, ByNameLists
<1> QED BY <1>6, <1>7, <1>9, SeqOfItself DEF Ordered

-----------------------------------------------------------------------------
(* Contents put together.                                                  *)

Flattening(seqs, flat) ==
  /\ flat = [i \in 1..Len(seqs) |-> flat[i]]
  /\ \A i \in 1..Len(seqs) : flat[i] = IF i = 1 THEN seqs[i] ELSE flat[i - 1] \o seqs[i]

LEMMA FlatteningExists ==
  ASSUME NEW seqs, Len(seqs) \in Nat
  PROVE  \E flat : Flattening(seqs, flat)
<1> DEFINE Part(i, prior) == IF i = 1 THEN seqs[i] ELSE prior \o seqs[i]
           Upto(k) == \E flat : \A i \in 1..k : flat[i] = Part(i, flat[i - 1])
           T == {k \in Nat : Upto(k)}
<1> HIDE DEF Part
<1>1. 0 \in T
  <2>1. 1..0 = {}
    OBVIOUS
  <2> QED BY <2>1
<1>2. ASSUME NEW k \in Nat, k \in T PROVE k + 1 \in T
  <2>1. PICK flat : \A i \in 1..k : flat[i] = Part(i, flat[i - 1])
    BY <1>2
  <2> DEFINE next == [i \in 0..(k + 1) |-> IF i = k + 1 THEN Part(i, flat[k]) ELSE flat[i]]
  <2>2. ASSUME NEW i \in 1..(k + 1) PROVE next[i] = Part(i, next[i - 1])
    <3>1. next[i - 1] = flat[i - 1]
      OBVIOUS
    <3>2. CASE i = k + 1
      BY <3>1, <3>2
    <3>3. CASE i # k + 1
      <4>1. i \in 1..k
        BY <3>3
      <4> QED BY <2>1, <3>1, <4>1
    <3> QED BY <3>2, <3>3
  <2> HIDE DEF next
  <2> QED BY <2>2
<1> HIDE DEF T
<1>3. Len(seqs) \in T
  BY <1>1, <1>2, Induction
<1>4. PICK flat : \A i \in 1..Len(seqs) : flat[i] = Part(i, flat[i - 1])
  BY <1>3 DEF T
<1> DEFINE whole == [i \in 1..Len(seqs) |-> flat[i]]
<1>5. ASSUME NEW i \in 1..Len(seqs)
      PROVE  whole[i] = IF i = 1 THEN seqs[i] ELSE whole[i - 1] \o seqs[i]
  <2>1. flat[i] = IF i = 1 THEN seqs[i] ELSE flat[i - 1] \o seqs[i]
    BY <1>4 DEF Part
  <2>2. i # 1 => i - 1 \in 1..Len(seqs)
    OBVIOUS
  <2> QED BY <2>1, <2>2
<1>6. Flattening(seqs, whole)
  BY <1>5 DEF Flattening
<1> QED BY <1>6

LEMMA FlattenIs ==
  ASSUME NEW S, NEW seqs \in Seq(Seq(S)), seqs # <<>>
  PROVE  \E flat \in [1..Len(seqs) -> Seq(S)] :
           /\ flat[1] = seqs[1]
           /\ \A i \in 2..Len(seqs) : flat[i] = flat[i - 1] \o seqs[i]
           /\ FlattenSeq(seqs) = flat[Len(seqs)]
<1> DEFINE Body(f) == [i \in 1..Len(seqs) |-> IF i = 1 THEN seqs[i] ELSE f[i - 1] \o seqs[i]]
           flat == CHOOSE f : f = Body(f)
           L == Len(seqs)
<1>1. L \in Nat /\ L # 0 /\ \A i \in 1..L : seqs[i] \in Seq(S)
  OBVIOUS
<1>2. \A f : Flattening(seqs, f) <=> f = Body(f)
  BY DEF Flattening
<1>3. Flattening(seqs, flat)
  <2>1. PICK f : Flattening(seqs, f)
    BY <1>1, FlatteningExists
  <2>2. f = Body(f)
    BY <1>2, <2>1
  <2>3. flat = Body(flat)
    BY <2>2
  <2> HIDE DEF flat, Body
  <2> QED BY <1>2, <2>3
<1>4. FlattenSeq(seqs) = flat[L]
  BY <1>1 DEF FlattenSeq
<1> HIDE DEF flat
<1>5. /\ flat[1] = seqs[1] /\ \A i \in 2..L : flat[i] = flat[i - 1] \o seqs[i]
      /\ DOMAIN flat = 1..L /\ flat = [i \in 1..L |-> flat[i]]
  <2>1. flat = [i \in 1..L |-> flat[i]]
    BY <1>3 DEF Flattening
  <2>2. \A i \in 1..L : flat[i] = IF i = 1 THEN seqs[i] ELSE flat[i - 1] \o seqs[i]
    BY <1>3 DEF Flattening
  <2>3. DOMAIN flat = 1..L
    BY <2>1
  <2>4. 1 \in 1..L /\ \A i \in 2..L : i \in 1..L /\ i # 1
    BY <1>1
  <2> QED BY <2>1, <2>2, <2>3, <2>4
<1> DEFINE T == {k \in Nat : k + 1 <= L => flat[k + 1] \in Seq(S)}
<1>6. 0 \in T
  BY <1>1, <1>5
<1>7. ASSUME NEW k \in Nat, k \in T PROVE k + 1 \in T
  <2>1. SUFFICES ASSUME (k + 1) + 1 <= L PROVE flat[(k + 1) + 1] \in Seq(S)
    BY DEF T
  <2> DEFINE i == (k + 1) + 1
  <2>2. flat[k + 1] \in Seq(S) /\ i \in 2..L /\ i \in 1..L /\ i - 1 = k + 1
    BY <1>7, <2>1
  <2>3. flat[i] = flat[i - 1] \o seqs[i] /\ seqs[i] \in Seq(S)
    BY <1>1, <1>5, <2>2
  <2> QED BY <2>2, <2>3
<1> HIDE DEF T
<1>8. ASSUME NEW i \in 1..L PROVE flat[i] \in Seq(S)
  <2>1. i - 1 \in Nat /\ (i - 1) + 1 = i /\ i <= L
    BY <1>1
  <2>2. i - 1 \in T
    BY <1>6, <1>7, <2>1, Induction
  <2> QED BY <2>1, <2>2 DEF T
<1>9. flat \in [1..L -> Seq(S)]
  BY <1>5, <1>8
<1> QED BY <1>4, <1>5, <1>9

LEMMA FlattenLists ==
  ASSUME NEW S, NEW seqs \in Seq(Seq(S))
  PROVE  FlattenSeq(seqs) \in Seq(S)
<1>1. CASE seqs = <<>>
  BY <1>1 DEF FlattenSeq
<1>2. CASE seqs # <<>>
  <2>1. PICK flat \in [1..Len(seqs) -> Seq(S)] : FlattenSeq(seqs) = flat[Len(seqs)]
    BY <1>2, FlattenIs
  <2> QED BY <1>2, <2>1
<1> QED BY <1>1, <1>2

\* Its statements run part by part.
LEMMA RunFlatten ==
  ASSUME NEW S, NEW seqs \in Seq(Seq(S)), NEW d
  PROVE  \E g : /\ g[0] = d
                /\ \A i \in 1..Len(seqs) : g[i] = Run(seqs[i], g[i - 1])
                /\ Run(FlattenSeq(seqs), d) = g[Len(seqs)]
<1>1. CASE seqs = <<>>
  <2> DEFINE g == [i \in {0} |-> d]
  <2>1. g[0] = d /\ Len(seqs) = 0 /\ 1..0 = {}
    BY <1>1
  <2>2. Run(FlattenSeq(seqs), d) = d
    BY <1>1, RunNothing DEF FlattenSeq
  <2> QED BY <2>1, <2>2
<1>2. CASE seqs # <<>>
  <2>1. PICK flat \in [1..Len(seqs) -> Seq(S)] :
           /\ flat[1] = seqs[1]
           /\ \A i \in 2..Len(seqs) : flat[i] = flat[i - 1] \o seqs[i]
           /\ FlattenSeq(seqs) = flat[Len(seqs)]
    BY <1>2, FlattenIs
  <2>2. Len(seqs) \in Nat /\ Len(seqs) # 0 /\ \A i \in 1..Len(seqs) : seqs[i] \in Seq(S)
    BY <1>2
  <2> DEFINE g == [i \in 0..Len(seqs) |-> IF i = 0 THEN d ELSE Run(flat[i], d)]
  <2>3. g[0] = d /\ Run(FlattenSeq(seqs), d) = g[Len(seqs)]
    BY <2>1, <2>2
  <2>4. ASSUME NEW i \in 1..Len(seqs) PROVE g[i] = Run(seqs[i], g[i - 1])
    <3>1. g[i] = Run(flat[i], d)
      BY <2>2
    <3>2. CASE i = 1
      BY <2>1, <2>2, <3>1, <3>2
    <3>3. CASE i # 1
      <4>1. i \in 2..Len(seqs) /\ i - 1 \in 1..Len(seqs) /\ i - 1 \in 0..Len(seqs) /\ i - 1 # 0
        BY <2>2, <3>3
      <4>2. g[i - 1] = Run(flat[i - 1], d)
        BY <4>1
      <4>3. flat[i] = flat[i - 1] \o seqs[i]
        BY <2>1, <4>1
      <4>4. Run(flat[i - 1] \o seqs[i], d) = Run(seqs[i], Run(flat[i - 1], d))
        <5> DEFINE a == flat[i - 1]  b == seqs[i]
        <5>1. a \in Seq(S) /\ b \in Seq(S)
          BY <2>1, <2>2, <4>1
        <5> HIDE DEF a, b
        <5>2. Run(a \o b, d) = Run(b, Run(a, d))
          BY <5>1, RunConcat
        <5> QED BY <5>2 DEF a, b
      <4> QED BY <3>1, <4>2, <4>3, <4>4
    <3> QED BY <3>2, <3>3
  <2> HIDE DEF g
  <2> QED BY <2>3, <2>4
<1> QED BY <1>1, <1>2

-----------------------------------------------------------------------------
(* Generated migrations.                                                   *)

ColumnsOf(schema) == UNION {ToSet(t.columns) : t \in ToSet(schema.tables)}
Additions(schema) ==
  {createTable(t) : t \in ToSet(schema.tables)} \cup
  {addColumn(t, c) : t \in ToSet(schema.tables), c \in ColumnsOf(schema)}

LEMMA AdditionsAdd == ASSUME NEW schema PROVE \A s \in Additions(schema) : IsAddition(s)
<1>1. \A t : IsAddition(createTable(t))
  BY DEF createTable, IsAddition
<1>2. \A t, c : IsAddition(addColumn(t, c))
  BY DEF addColumn, IsAddition
<1> QED BY <1>1, <1>2 DEF Additions

LEMMA OldTable ==
  ASSUME NEW old, NEW schema, Ordered(schema), NEW t \in ToSet(schema.tables)
  PROVE  [i \in DOMAIN t.columns |-> columnUp(old, t, t.columns[i])] \in Seq(Seq(Additions(schema)))
<1> DEFINE S == Additions(schema)
           seqs == [i \in DOMAIN t.columns |-> columnUp(old, t, t.columns[i])]
<1>1. IsSeq(t.columns)
  BY DEF Ordered
<1>2. Len(t.columns) \in Nat /\ DOMAIN t.columns = 1..Len(t.columns)
  BY <1>1 DEF IsSeq
<1>3. ASSUME NEW i \in DOMAIN t.columns PROVE columnUp(old, t, t.columns[i]) \in Seq(S)
  <2>1. t.columns[i] \in ColumnsOf(schema)
    BY DEF ColumnsOf, ToSet
  <2>2. addColumn(t, t.columns[i]) \in S
    BY <2>1 DEF Additions
  <2> HIDE DEF S
  <2> QED BY <2>2 DEF columnUp
<1> HIDE DEF S
<1>4. seqs \in [1..Len(t.columns) -> Seq(S)]
  BY <1>2, <1>3
<1> QED BY <1>2, <1>4 DEF S

LEMMA TableUpAdds ==
  ASSUME NEW previous, NEW schema, Ordered(schema), NEW t \in ToSet(schema.tables)
  PROVE  tableUp(previous, t) \in Seq(Additions(schema))
<1> DEFINE old == Named(previous.tables, t.name)
<1>1. CASE old = {}
  <2>1. createTable(t) \in Additions(schema)
    BY DEF Additions
  <2> QED BY <1>1, <2>1 DEF tableUp
<1>2. CASE old # {}
  <2> DEFINE seqs == [i \in DOMAIN t.columns |-> columnUp(old, t, t.columns[i])]
  <2>1. tableUp(previous, t) = FlattenSeq(seqs)
    BY <1>2 DEF tableUp
  <2>2. seqs \in Seq(Seq(Additions(schema)))
    BY OldTable
  <2> HIDE DEF seqs
  <2> QED BY <2>1, <2>2, FlattenLists
<1> QED BY <1>1, <1>2

LEMMA TableUps ==
  ASSUME NEW previous, NEW schema, Ordered(schema)
  PROVE  /\ [i \in DOMAIN schema.tables |-> tableUp(previous, schema.tables[i])]
              \in Seq(Seq(Additions(schema)))
         /\ migrationUp(previous, schema) \in Seq(Additions(schema))
<1> DEFINE S == Additions(schema)
           seqs == [i \in DOMAIN schema.tables |-> tableUp(previous, schema.tables[i])]
<1>1. IsSeq(schema.tables)
  BY DEF Ordered
<1>2. Len(schema.tables) \in Nat /\ DOMAIN schema.tables = 1..Len(schema.tables)
  BY <1>1 DEF IsSeq
<1>3. ASSUME NEW i \in DOMAIN schema.tables PROVE tableUp(previous, schema.tables[i]) \in Seq(S)
  BY TableUpAdds DEF ToSet
<1> HIDE DEF S
<1>4. seqs \in [1..Len(schema.tables) -> Seq(S)]
  BY <1>2, <1>3
<1>5. seqs \in Seq(Seq(S))
  BY <1>2, <1>4
<1>6. migrationUp(previous, schema) = FlattenSeq(seqs)
  BY DEF migrationUp
<1> HIDE DEF seqs
<1>7. FlattenSeq(seqs) \in Seq(S)
  BY <1>5, FlattenLists
<1> QED BY <1>5, <1>6, <1>7 DEF S, seqs

\* migrationDown takes back what migrationUp does.
LEMMA GeneratedMirrors ==
  ASSUME NEW previous, NEW schema, Ordered(schema)
  PROVE  Mirrored(migrationUp(previous, schema), migrationDown(previous, schema))
<1> DEFINE up == migrationUp(previous, schema)
           undone == [i \in DOMAIN up |-> Undo(up[i])]
           down == Reverse(undone)
           L == Len(up)
<1>0. migrationDown(previous, schema) = down
  BY DEF migrationDown
<1>1. up \in Seq(Additions(schema))
  BY TableUps
<1> HIDE DEF up
<1>2. IsSeq(up) /\ L \in Nat /\ DOMAIN up = 1..L /\ \A i \in 1..L : up[i] \in Additions(schema)
  BY <1>1, SeqOfItself
<1>3. Len(undone) = L /\ \A i \in 1..L : undone[i] = Undo(up[i])
  BY <1>2
<1>4. down = [i \in 1..L |-> Undo(up[(L - i) + 1])]
  <2>1. \A i \in 1..L : (L - i) + 1 \in 1..L
    BY <1>2
  <2>2. down = [i \in 1..L |-> undone[(L - i) + 1]]
    BY <1>3 DEF Reverse
  <2> HIDE DEF undone, down
  <2> QED BY <1>3, <2>1, <2>2
<1> HIDE DEF undone, down
<1> DEFINE D == {down[i] : i \in 1..L}
<1>5. down \in Seq(D) /\ Len(down) = L
  <2>1. down \in [1..L -> D]
    BY <1>4
  <2> HIDE DEF D
  <2> QED BY <1>2, <2>1
<1>6. IsSeq(down)
  BY <1>5, SeqOfItself
<1>7. ASSUME NEW i \in 1..L PROVE Undoes(up[i], down[L + 1 - i])
  <2>1. L + 1 - i \in 1..L /\ (L - (L + 1 - i)) + 1 = i
    BY <1>2
  <2>2. down[L + 1 - i] = Undo(up[i])
    BY <1>4, <2>1
  <2> QED BY <1>2, <2>2, AdditionsAdd DEF Undoes
<1>8. Mirrored(up, down)
  BY <1>2, <1>5, <1>6, <1>7 DEF Mirrored
<1> QED BY <1>0, <1>8 DEF up

-----------------------------------------------------------------------------
(* What a generated migration makes of the tables it was generated for.    *)

\* A table in the place of another.
Swap(d, x, y) == [tables |-> (d.tables \ {x}) \cup {y}, data |-> d.data]

LEMMA Swapped ==
  ASSUME NEW d, Database(d), NEW x \in d.tables, NEW y, IsTable(y), y.name = x.name
  PROVE  /\ Database(Swap(d, x, y)) /\ y \in Swap(d, x, y).tables
         /\ \A z : z.name = x.name => Swap(Swap(d, x, y), y, z) = Swap(d, x, z)
<1>1. WellNamed(d.tables)
  BY DEF Database
<1>2. \A u \in d.tables \ {x} : u.name # y.name
  BY <1>1 DEF WellNamed
<1>3. WellNamed((d.tables \ {x}) \cup {y})
  BY <1>1, <1>2 DEF WellNamed
<1>4. ((d.tables \ {x}) \cup {y}) \ {y} = d.tables \ {x}
  BY <1>2
<1> QED BY <1>3, <1>4 DEF Swap, Database

LEMMA ColumnAdded ==
  ASSUME NEW d, Database(d), NEW x \in d.tables, NEW s, s.op = "add column",
         s.table.name = x.name, \A c \in x.columns : c.name # s.column.name
  PROVE  Try(s, d) = Swap(d, x, WithColumns(x, x.columns \cup {s.column}))
<1>1. WellNamed(d.tables) /\ IsTable(x)
  BY DEF Database, WellNamed
<1>2. Held(d.tables, s.table.name) = {x}
  BY <1>1 DEF Held, WellNamed
<1>3. Possible(s, d.tables)
  BY <1>2 DEF Possible
<1>4. Try(s, d) = [tables |-> After(s, d.tables), data |-> d.data]
  BY <1>3, ExecTables
<1>5. After(s, d.tables) = (d.tables \ {x}) \cup {[x EXCEPT !.columns = @ \cup {s.column}]}
  BY <1>2 DEF After
<1>6. [x EXCEPT !.columns = @ \cup {s.column}] = WithColumns(x, x.columns \cup {s.column})
  BY <1>1, Widened
<1> QED BY <1>4, <1>5, <1>6 DEF Swap

\* The old table with the first k columns of the new one.
Stage(o, t, k) ==
  WithColumns(Table(o), ToSet(o.columns) \cup {t.columns[j] : j \in 1..k})

LEMMA Staged ==
  ASSUME NEW o, NEW t, o.name = t.name, o.primaryKey = t.primaryKey
  PROVE  /\ Stage(o, t, 0) = Table(o)
         /\ IsSeq(t.columns) /\ ToSet(o.columns) \subseteq ToSet(t.columns) =>
              Stage(o, t, Len(t.columns)) = Table(t)
         /\ \A k : /\ IsTable(Stage(o, t, k)) /\ Stage(o, t, k).name = t.name
                   /\ Stage(o, t, k).columns = ToSet(o.columns) \cup {t.columns[j] : j \in 1..k}
         /\ Table(o).name = t.name
<1>1. 1..0 = {}
  OBVIOUS
<1>2. IsSeq(t.columns) => {t.columns[j] : j \in 1..Len(t.columns)} = ToSet(t.columns)
  BY DEF IsSeq, ToSet
<1> QED BY <1>1, <1>2 DEF Stage, WithColumns, Table, IsTable

LEMMA ColumnsAdded ==
  ASSUME NEW schema, Ordered(schema), NEW t \in ToSet(schema.tables),
         Distinct(NamesOf(t.columns)), NEW o, Additive(o, t), o.name = t.name,
         NEW d, Database(d), Table(o) \in d.tables
  PROVE  Run(FlattenSeq([i \in DOMAIN t.columns |-> columnUp({o}, t, t.columns[i])]), d)
           = Swap(d, Table(o), Table(t))
<1> DEFINE S == Additions(schema)
           seqs == [i \in DOMAIN t.columns |-> columnUp({o}, t, t.columns[i])]
           L == Len(t.columns)
           x(k) == Stage(o, t, k)
<1>1. IsSeq(t.columns)
  BY DEF Ordered
<1>2. L \in Nat /\ DOMAIN t.columns = 1..L
  BY <1>1 DEF IsSeq
<1>3. /\ o.primaryKey = t.primaryKey /\ ToSet(o.columns) \subseteq ToSet(t.columns)
      /\ \A i, j \in 1..L : t.columns[i].name = t.columns[j].name => i = j
  BY <1>2 DEF Additive, Distinct, NamesOf
<1>4. /\ x(0) = Table(o) /\ x(L) = Table(t) /\ Table(o).name = t.name
      /\ \A k : IsTable(x(k)) /\ x(k).name = t.name
                /\ x(k).columns = ToSet(o.columns) \cup {t.columns[j] : j \in 1..k}
      /\ \A k, columns : WithColumns(x(k), columns) = WithColumns(Table(o), columns)
      /\ \A k : x(k) = WithColumns(Table(o), ToSet(o.columns) \cup {t.columns[j] : j \in 1..k})
  <2>1. \A k : x(k) = WithColumns(Table(o), ToSet(o.columns) \cup {t.columns[j] : j \in 1..k})
    BY DEF Stage
  <2>2. x(0) = Table(o) /\ x(L) = Table(t) /\ Table(o).name = t.name
    BY <1>1, <1>3, Staged
  <2>3. \A k : IsTable(x(k)) /\ x(k).name = t.name
               /\ x(k).columns = ToSet(o.columns) \cup {t.columns[j] : j \in 1..k}
    BY <1>1, <1>3, Staged
  <2>4. \A k, columns : WithColumns(x(k), columns) = WithColumns(Table(o), columns)
    BY DEF Stage, WithColumns
  <2> QED BY <2>1, <2>2, <2>3, <2>4
<1> HIDE DEF x
<1>5. Len(seqs) = L /\ \A i \in 1..L : seqs[i] = columnUp({o}, t, t.columns[i])
  BY <1>2
<1>6. seqs \in Seq(Seq(S))
  BY OldTable
<1> HIDE DEF seqs, S
<1>7. PICK g : /\ g[0] = d
               /\ \A i \in 1..L : g[i] = Run(seqs[i], g[i - 1])
               /\ Run(FlattenSeq(seqs), d) = g[L]
  <2>1. \E g : /\ g[0] = d
               /\ \A i \in 1..Len(seqs) : g[i] = Run(seqs[i], g[i - 1])
               /\ Run(FlattenSeq(seqs), d) = g[Len(seqs)]
    BY <1>6, RunFlatten
  <2> HIDE DEF L
  <2> QED BY <1>5, <2>1
<1> DEFINE T == {k \in Nat : k <= L => g[k] = Swap(d, Table(o), x(k))}
<1>8. 0 \in T
  <2>1. Swap(d, Table(o), Table(o)) = d
    BY DEF Swap, Database
  <2> QED BY <1>4, <1>7, <2>1
<1>9. ASSUME NEW k \in Nat, k \in T PROVE k + 1 \in T
  <2>1. SUFFICES ASSUME k + 1 <= L PROVE g[k + 1] = Swap(d, Table(o), x(k + 1))
    OBVIOUS
  <2> DEFINE n == k + 1  c == t.columns[n]  e == g[k]
  <2>2. /\ n \in 1..L /\ n - 1 = k /\ e = Swap(d, Table(o), x(k))
        /\ 1..n = 1..k \cup {n}
    BY <1>2, <1>9, <2>1
  <2>3. g[n] = Run(columnUp({o}, t, c), e)
    BY <1>5, <1>7, <2>2
  <2>4. x(n).columns = x(k).columns \cup {c}
    BY <1>4, <2>2
  <2>5. Database(e) /\ x(k) \in e.tables
    BY <1>4, <2>2, Swapped
  <2>6. CASE Named(o.columns, c.name) # {}
    <3>1. columnUp({o}, t, c) = <<>>
      BY <2>6 DEF columnUp
    <3>2. PICK b \in ToSet(o.columns) : b.name = c.name
      BY <2>6 DEF Named
    <3>3. PICK j \in 1..L : b = t.columns[j]
      <4>1. b \in ToSet(t.columns)
        BY <1>3, <3>2
      <4> QED BY <1>2, <4>1 DEF ToSet
    <3>4. b = c
      BY <1>3, <2>2, <3>2, <3>3
    <3>5. x(n) = x(k)
      <4>1. x(n).columns = x(k).columns
        BY <1>4, <2>4, <3>2, <3>4
      <4> QED BY <1>4, <4>1
    <3> QED BY <2>2, <2>3, <3>1, <3>5, RunNothing
  <2>7. CASE Named(o.columns, c.name) = {}
    <3> DEFINE s == addColumn(t, c)
    <3>1. columnUp({o}, t, c) = <<s>>
      BY <2>7 DEF columnUp
    <3>2. s.op = "add column" /\ s.table = t /\ s.column = c
      BY DEF addColumn
    <3>3. ASSUME NEW b \in x(k).columns PROVE b.name # c.name
      <4>1. CASE b \in ToSet(o.columns)
        BY <2>7, <4>1 DEF Named
      <4>2. CASE \E j \in 1..k : b = t.columns[j]
        <5>1. PICK j \in 1..k : b = t.columns[j]
          BY <4>2
        <5>2. j \in 1..L /\ j # n
          BY <1>2, <2>1
        <5> QED BY <1>3, <2>2, <5>1, <5>2
      <4> QED BY <1>4, <4>1, <4>2
    <3> HIDE DEF s
    <3>4. Try(s, e) = Swap(e, x(k), WithColumns(x(k), x(k).columns \cup {c}))
      <4> DEFINE y == x(k)
      <4>1. y \in e.tables /\ y.name = t.name /\ \A b \in y.columns : b.name # c.name
        BY <1>4, <2>5, <3>3
      <4> HIDE DEF c, e, y
      <4>2. Try(s, e) = Swap(e, y, WithColumns(y, y.columns \cup {c}))
        BY <2>5, <3>2, <4>1, ColumnAdded
      <4> QED BY <4>2 DEF y
    <3>5. WithColumns(x(k), x(k).columns \cup {c}) = x(n)
      BY <1>4, <2>4
    <3>6. Swap(e, x(k), x(n)) = Swap(d, Table(o), x(n))
      BY <1>4, <2>2, Swapped
    <3> QED BY <2>3, <3>1, <3>4, <3>5, <3>6, RunOne
  <2> QED BY <2>6, <2>7
<1> HIDE DEF T
<1>10. L \in T
  BY <1>2, <1>8, <1>9, Induction
<1>11. g[L] = Swap(d, Table(o), Table(t))
  BY <1>2, <1>4, <1>10 DEF T
<1> QED BY <1>7, <1>11 DEF seqs

\* The tables when the first k of the new schema are there.
Grows(previous, current, k) ==
  {Table(current.tables[j]) : j \in 1..k} \cup
  {Table(o) : o \in {o \in ToSet(previous.tables) :
                       \A j \in 1..k : o.name # current.tables[j].name}}

\* One table more.
LEMMA TableAdded ==
  ASSUME NEW previous, NEW current, Ordered(current), Generable(previous, current),
         NEW k \in Nat, k + 1 <= Len(current.tables),
         NEW d, Database(d), d.tables = Grows(previous, current, k),
         NEW e, e = Run(tableUp(previous, current.tables[k + 1]), d)
  PROVE  Database(e) /\ e.tables = Grows(previous, current, k + 1)
<1> DEFINE n == k + 1
           t == current.tables[n]
           old == Named(previous.tables, t.name)
           Before == Grows(previous, current, k)
           Later == Grows(previous, current, n)
           L == Len(current.tables)
<1>1. IsSeq(current.tables)
  BY DEF Ordered
<1>2. /\ L \in Nat /\ DOMAIN current.tables = 1..L /\ n \in 1..L /\ n \notin 1..k
      /\ 1..n = 1..k \cup {n} /\ 1..k \subseteq 1..L
  BY <1>1 DEF IsSeq
<1>3. t \in ToSet(current.tables)
  BY <1>2 DEF ToSet
<1>4. /\ \A i, j \in 1..L : current.tables[i].name = current.tables[j].name => i = j
      /\ \A p, q \in ToSet(previous.tables) : p.name = q.name => p = q
      /\ Distinct(NamesOf(t.columns))
  <2>1. Distinct(NamesOf(current.tables)) /\ Distinct(NamesOf(previous.tables))
    BY DEF Generable, validateSchema
  <2>2. Distinct(NamesOf(t.columns))
    BY <1>3 DEF Generable, validateSchema, validateTable
  <2> QED BY <1>2, <2>1, <2>2 DEF Distinct, NamesOf, ToSet
<1>5. \A j \in 1..k : current.tables[j].name # t.name
  BY <1>2, <1>4
<1>6. \A u : Table(u).name = u.name
  BY DEF Table
<1>7. CASE old = {}
  <2> DEFINE s == createTable(t)
  <2>1. tableUp(previous, t) = <<s>>
    BY <1>7 DEF tableUp
  <2>2. s.op = "create table" /\ s.table = t
    BY DEF createTable
  <2>3. \A u \in Before : u.name # t.name
    BY <1>5, <1>6, <1>7 DEF Grows, Named
  <2>4. Held(d.tables, t.name) = {}
    BY <2>3 DEF Held
  <2>5. Later = Before \cup {Table(t)}
    BY <1>2, <1>7 DEF Grows, Named
  <2>6. Possible(s, d.tables) /\ After(s, d.tables) = d.tables \cup {Table(t)}
    BY <2>2, <2>4 DEF Possible, After
  <2> HIDE DEF s
  <2>7. Try(s, d) = [tables |-> Later, data |-> d.data]
    BY <2>2, <2>5, <2>6, ExecTables
  <2>8. e = Try(s, d)
    BY <2>1, RunOne
  <2>9. Try(s, d) # Refused
    BY <2>7 DEF Refused
  <2>10. Database(e)
    BY <2>2, <2>8, <2>9, TryKeeps DEF Forward, IsAddition
  <2> QED BY <2>7, <2>8, <2>10
<1>8. CASE old # {}
  <2>1. PICK o \in old : TRUE
    BY <1>8
  <2>2. o \in ToSet(previous.tables) /\ o.name = t.name /\ old = {o}
    BY <1>4, <2>1 DEF Named
  <2>3. Additive(o, t)
    <3>1. PICK u \in Named(current.tables, o.name) : Additive(o, u)
      BY <2>2 DEF Generable
    <3>2. u = t
      BY <1>2, <1>4, <2>2, <3>1 DEF Named, ToSet
    <3> QED BY <3>1, <3>2
  <2>4. Table(o) \in Before
    BY <1>5, <2>2 DEF Grows
  <2>5. tableUp(previous, t)
          = FlattenSeq([i \in DOMAIN t.columns |-> columnUp({o}, t, t.columns[i])])
    BY <1>8, <2>2 DEF tableUp
  <2>6. e = Swap(d, Table(o), Table(t))
    <3> HIDE DEF t
    <3>1. Table(o) \in d.tables
      BY <2>4
    <3>2. Run(FlattenSeq([i \in DOMAIN t.columns |-> columnUp({o}, t, t.columns[i])]), d)
            = Swap(d, Table(o), Table(t))
      BY <1>3, <1>4, <2>2, <2>3, <3>1, ColumnsAdded
    <3> QED BY <2>5, <3>2 DEF t
  <2>7. Later = (Before \ {Table(o)}) \cup {Table(t)}
    <3>1. \A u \in Before : u.name = t.name => u = Table(o)
      BY <1>4, <1>5, <1>6, <2>2 DEF Grows
    <3>2. ASSUME NEW u \in Later PROVE u \in (Before \ {Table(o)}) \cup {Table(t)}
      BY <1>2, <1>5, <1>6, <2>2 DEF Grows
    <3>3. ASSUME NEW u \in Before, u # Table(o) PROVE u \in Later
      <4>1. CASE \E j \in 1..k : u = Table(current.tables[j])
        BY <1>2, <4>1 DEF Grows
      <4>2. CASE \E w \in ToSet(previous.tables) :
                   /\ \A j \in 1..k : w.name # current.tables[j].name
                   /\ u = Table(w)
        <5>1. PICK w \in ToSet(previous.tables) : /\ \A j \in 1..k : w.name # current.tables[j].name
                                                  /\ u = Table(w)
          BY <4>2
        <5>2. w.name # t.name
          BY <1>6, <3>1, <3>3, <5>1
        <5> QED BY <1>2, <5>1, <5>2 DEF Grows
      <4> QED BY <4>1, <4>2 DEF Grows
    <3>4. Table(t) \in Later
      BY <1>2 DEF Grows
    <3> QED BY <3>2, <3>3, <3>4
  <2>8. Database(e) /\ e.tables = (Before \ {Table(o)}) \cup {Table(t)}
    <3>1. IsTable(Table(t)) /\ Table(t).name = Table(o).name
      BY <2>2 DEF Table, IsTable
    <3>2. Database(Swap(d, Table(o), Table(t)))
      BY <2>4, <3>1, Swapped
    <3> QED BY <2>6, <3>2 DEF Swap
  <2> QED BY <2>7, <2>8
<1> QED BY <1>7, <1>8

\* Run on the tables of the previous schema, a generated migration is accepted
\* and makes those of the current one (schema.go:94-170).
LEMMA Generated ==
  ASSUME NEW previous, NEW current, Ordered(current), Generable(previous, current),
         NEW d, Database(d), d.tables = Tables(previous)
  PROVE  /\ Database(Run(migrationUp(previous, current), d))
         /\ Run(migrationUp(previous, current), d).tables = Tables(current)
<1> DEFINE seqs == [i \in DOMAIN current.tables |-> tableUp(previous, current.tables[i])]
           L == Len(current.tables)
<1>1. IsSeq(current.tables)
  BY DEF Ordered
<1>2. L \in Nat /\ DOMAIN current.tables = 1..L
  BY <1>1 DEF IsSeq
<1>3. Len(seqs) = L /\ \A i \in 1..L : seqs[i] = tableUp(previous, current.tables[i])
  BY <1>2
<1>4. seqs \in Seq(Seq(Additions(current))) /\ migrationUp(previous, current) = FlattenSeq(seqs)
  BY TableUps DEF migrationUp
<1> HIDE DEF seqs
<1>5. PICK g : /\ g[0] = d
               /\ \A i \in 1..L : g[i] = Run(seqs[i], g[i - 1])
               /\ Run(FlattenSeq(seqs), d) = g[L]
  <2>1. \E g : /\ g[0] = d
               /\ \A i \in 1..Len(seqs) : g[i] = Run(seqs[i], g[i - 1])
               /\ Run(FlattenSeq(seqs), d) = g[Len(seqs)]
    BY <1>4, RunFlatten
  <2> HIDE DEF L
  <2> QED BY <1>3, <2>1
<1> DEFINE T == {k \in Nat : k <= L => Database(g[k]) /\ g[k].tables = Grows(previous, current, k)}
<1>6. 0 \in T
  <2>1. Grows(previous, current, 0) = Tables(previous)
    BY DEF Grows, Tables
  <2> QED BY <1>5, <2>1
<1>7. ASSUME NEW k \in Nat, k \in T PROVE k + 1 \in T
  <2>1. SUFFICES ASSUME k + 1 <= L
                 PROVE  Database(g[k + 1]) /\ g[k + 1].tables = Grows(previous, current, k + 1)
    OBVIOUS
  <2>2. k <= L /\ k + 1 \in 1..L /\ (k + 1) - 1 = k
    BY <1>2, <2>1
  <2>3. Database(g[k]) /\ g[k].tables = Grows(previous, current, k)
    BY <1>7, <2>2
  <2>4. g[k + 1] = Run(tableUp(previous, current.tables[k + 1]), g[k])
    BY <1>3, <1>5, <2>2
  <2> QED BY <2>1, <2>3, <2>4, TableAdded
<1> HIDE DEF T
<1>8. L \in T
  BY <1>2, <1>6, <1>7, Induction
<1>9. Grows(previous, current, L) = Tables(current)
  <2>1. {Table(current.tables[j]) : j \in 1..L} = Tables(current)
    BY <1>2 DEF Tables, ToSet
  <2>2. \A o \in ToSet(previous.tables) : \E j \in 1..L : o.name = current.tables[j].name
    BY <1>2 DEF Generable, Named, ToSet
  <2> QED BY <2>1, <2>2 DEF Grows
<1> QED BY <1>2, <1>4, <1>5, <1>8, <1>9 DEF T

\* From any schema to what any models describe, as far as generate goes there:
\* the migration runs on a database with the tables of the one, makes those of
\* the other, and its reverse leaves the database as it was (schema.go:94-170).
THEOREM GeneratedRoundTrip ==
  ASSUME NEW previous, NEW dialect, NEW list \in Seq(Models), Describable(list),
         Generable(previous, Describe(dialect, list)),
         NEW d, Database(d), d.tables = Tables(previous)
  PROVE  LET current == Describe(dialect, list)
             after   == Run(migrationUp(previous, current), d)
         IN  /\ after # Refused /\ after.tables = Tables(current)
             /\ Run(migrationDown(previous, current), after) = d
<1> DEFINE current == Describe(dialect, list)
           up == migrationUp(previous, current)  down == migrationDown(previous, current)
<1>1. Ordered(current)
  BY DescribeOrders
<1> HIDE DEF current
<1>2. Database(Run(up, d)) /\ Run(up, d).tables = Tables(current)
  BY <1>1, Generated DEF current
<1>3. Run(up, d) # Refused
  BY <1>2, Standing
<1>4. Mirrored(up, down)
  BY <1>1, GeneratedMirrors
<1> HIDE DEF up, down
<1>5. Run(down, Run(up, d)) = d
  BY <1>3, <1>4, RunBack
<1> QED BY <1>2, <1>3, <1>5 DEF up, down, current

-----------------------------------------------------------------------------
(* Databases that differ in their data only.                               *)

State(d) == d = Refused \/ Database(d)
Alike(d, e) ==
  /\ State(d) /\ State(e)
  /\ d = Refused <=> e = Refused
  /\ d # Refused => d.tables = e.tables

LEMMA AlikeItself == ASSUME NEW d, State(d) PROVE Alike(d, d)
BY DEF Alike

LEMMA AlikeThen == ASSUME NEW d, NEW e, NEW f, Alike(d, e), Alike(e, f) PROVE Alike(d, f)
BY DEF Alike

LEMMA TryAlike ==
  ASSUME NEW d, NEW e, Alike(d, e), NEW s, Forward(s)
  PROVE  Alike(Try(s, d), Try(s, e))
<1>1. State(d) /\ State(e)
  BY DEF Alike
<1>2. State(Try(s, d)) /\ State(Try(s, e))
  BY <1>1, TryKeeps, TryRefused DEF State
<1>3. CASE d = Refused
  BY <1>2, <1>3, TryRefused DEF Alike
<1>4. CASE d # Refused
  <2>1. Database(d) /\ Database(e) /\ d.tables = e.tables /\ e # Refused
    BY <1>1, <1>4 DEF Alike, State
  <2>2. CASE s.op = "custom"
    <3>1. Try(s, d).tables = d.tables /\ Try(s, e).tables = e.tables
      BY <2>1, <2>2, ExecData
    <3>2. Try(s, d) # Refused /\ Try(s, e) # Refused
      BY <2>1, <2>2, ExecData DEF Refused
    <3> QED BY <1>2, <2>1, <3>1, <3>2 DEF Alike
  <2>3. CASE s.op # "custom" /\ Possible(s, d.tables)
    <3>1. /\ Try(s, d) = [tables |-> After(s, d.tables), data |-> d.data]
          /\ Try(s, e) = [tables |-> After(s, d.tables), data |-> e.data]
      BY <2>1, <2>3, ExecTables
    <3>2. Try(s, d) # Refused /\ Try(s, e) # Refused
      BY <3>1 DEF Refused
    <3>3. Try(s, d).tables = Try(s, e).tables
      BY <3>1
    <3> QED BY <1>2, <3>2, <3>3 DEF Alike
  <2>4. CASE s.op # "custom" /\ ~Possible(s, d.tables)
    <3>1. Try(s, d) = Refused /\ Try(s, e) = Refused
      BY <2>1, <2>4 DEF Try
    <3> QED BY <1>2, <3>1 DEF Alike
  <2> QED BY <2>2, <2>3, <2>4
<1> QED BY <1>3, <1>4

LEMMA RunAlike ==
  ASSUME NEW content, AllForward(content), NEW d, NEW e, Alike(d, e)
  PROVE  Alike(Run(content, d), Run(content, e))
<1> DEFINE L == Len(content)
<1>1. PICK f : Trace(content, d, f) /\ Run(content, d) = f[Len(content)]
  BY RunTrace DEF AllForward
<1>2. PICK g : Trace(content, e, g) /\ Run(content, e) = g[Len(content)]
  BY RunTrace DEF AllForward
<1> DEFINE T == {k \in Nat : k <= L => Alike(f[k], g[k])}
<1>3. 0 \in T
  BY <1>1, <1>2 DEF Trace
<1>4. ASSUME NEW k \in Nat, k \in T PROVE k + 1 \in T
  <2>1. SUFFICES ASSUME k + 1 <= L PROVE Alike(f[k + 1], g[k + 1])
    OBVIOUS
  <2>2. L \in Nat /\ k <= L /\ k + 1 \in 1..L /\ (k + 1) - 1 = k
    BY <2>1 DEF AllForward
  <2>3. /\ f[k + 1] = Try(content[k + 1], f[k]) /\ g[k + 1] = Try(content[k + 1], g[k])
        /\ Forward(content[k + 1]) /\ Alike(f[k], g[k])
    BY <1>1, <1>2, <1>4, <2>2 DEF Trace, AllForward
  <2> QED BY <2>3, TryAlike
<1> HIDE DEF T
<1>5. L \in T
  BY <1>3, <1>4, Induction DEF AllForward
<1> QED BY <1>1, <1>2, <1>5 DEF T, AllForward

\* The developer's SQL leaves the tables alone.
LEMMA CustomAlike ==
  ASSUME NEW d, State(d), NEW s, IsCustom(s)
  PROVE  Alike(d, Try(s, d))
<1>0. s.op = "custom"
  BY DEF IsCustom
<1>1. CASE d = Refused
  BY <1>1, TryRefused DEF Alike, State
<1>2. CASE d # Refused
  <2>1. Database(d)
    BY <1>2 DEF State
  <2>2. Try(s, d) = [tables |-> d.tables, data |-> [d.data EXCEPT ![s.version] = @ + s.change]]
    BY <1>0, <2>1, ExecData
  <2>3. Try(s, d) # Refused /\ Try(s, d).tables = d.tables
    BY <2>2 DEF Refused
  <2>4. Database(Try(s, d))
    BY <2>1, <2>3, TryKeeps DEF Forward
  <2> QED BY <1>2, <2>1, <2>3, <2>4 DEF Alike, State
<1> QED BY <1>1, <1>2

\* Migrations that make alike databases of alike ones, version by version.
SameTables(S, R) ==
  \A v \in Versions : \A d, e : Alike(d, e) => Alike(Upgraded(S, v, d), Upgraded(R, v, e))

LEMMA UpsAlike ==
  ASSUME NEW S, NEW R, SameTables(S, R), NEW d, State(d), NEW n \in 0..MaxVersion
  PROVE  Alike(Ups(S, d)[n], Ups(R, d)[n])
<1> DEFINE f == Ups(S, d)  g == Ups(R, d)
           T == {k \in Nat : k <= MaxVersion => Alike(f[k], g[k])}
<1>1. Replay(S, d, f) /\ Replay(R, d, g)
  BY UpsReplay
<1> HIDE DEF f, g
<1>2. 0 \in T
  BY <1>1, AlikeItself DEF Replay
<1>3. ASSUME NEW k \in Nat, k \in T PROVE k + 1 \in T
  <2>1. SUFFICES ASSUME k + 1 <= MaxVersion PROVE Alike(f[k + 1], g[k + 1])
    OBVIOUS
  <2>2. k <= MaxVersion /\ k + 1 \in Versions /\ (k + 1) - 1 = k
    BY <2>1, VersionBound
  <2>3. f[k + 1] = Upgraded(S, k + 1, f[k]) /\ g[k + 1] = Upgraded(R, k + 1, g[k])
    BY <1>1, <2>2 DEF Replay
  <2> QED BY <1>3, <2>2, <2>3 DEF SameTables
<1> HIDE DEF T
<1>4. n \in T
  BY <1>2, <1>3, Induction, VersionBound
<1> QED BY <1>4, VersionBound DEF T, f, g

-----------------------------------------------------------------------------
(* Effects: what is recorded is what was run, and what its down takes back.*)

\* The two contents of a version: the down takes the up back, or the developer
\* has yet to write SQL into one of them.
Pair(up, down, v) ==
  \/ Mirrored(up, down)
  \/ up \in {<<>>, <<custom(v, 1)>>} /\ down \in {<<>>, <<custom(v, -1)>>}

\* It is what the files hold, what is about to be written, what was read and
\* what was recorded; and the database is what the recorded ups make.
PairedFiles ==
  \A f, g \in files : f.version = g.version /\ f.direction = "up" /\ g.direction = "down" =>
    Pair(f.content, g.content, f.version)
PairedPlan(p) == pc[p] \in {"up", "down"} => Mirrored(plan[p].up, plan[p].down)
PairedList(p) == \A m \in loaded[p] : Pair(m.up, m.down, m.version)
PairedRows ==
  \A r \in applied : Pair(r.checksum[1], r.checksum[2], r.version) /\ r.checksum[1] # <<>>

Effects ==
  /\ PairedFiles /\ PairedRows
  /\ \A p \in Processes : PairedPlan(p) /\ PairedList(p)
  /\ EffectsAreHistory /\ db # Refused

LEMMA Customs ==
  ASSUME NEW v \in Versions
  PROVE  /\ IsCustom(custom(v, 1)) /\ IsCustom(custom(v, -1))
         /\ Undoes(custom(v, 1), custom(v, -1))
BY DEF custom, IsCustom, Undoes

LEMMA MirroredCustom ==
  ASSUME NEW v \in Versions
  PROVE  Mirrored(<<custom(v, 1)>>, <<custom(v, -1)>>)
<1> DEFINE a == custom(v, 1)  b == custom(v, -1)
<1>1. Undoes(a, b)
  BY Customs
<1> HIDE DEF a, b
<1>2. IsSeq(<<a>>) /\ IsSeq(<<b>>)
  BY DEF IsSeq, ToSet
<1> QED BY <1>1, <1>2 DEF Mirrored, a, b

LEMMA PairWritten ==
  ASSUME NEW v \in Versions, NEW up, NEW down, Pair(up, down, v), up # <<>>, down # <<>>
  PROVE  Mirrored(up, down)
BY MirroredCustom DEF Pair

LEMMA PairForward ==
  ASSUME NEW v \in Versions, NEW up, NEW down, Pair(up, down, v)
  PROVE  AllForward(up) /\ IsSeq(up)
<1>1. CASE Mirrored(up, down)
  BY <1>1, MirroredForward DEF Mirrored
<1>2. CASE up = <<>>
  BY <1>2 DEF AllForward, IsSeq, ToSet
<1>3. CASE up = <<custom(v, 1)>>
  <2>1. Mirrored(up, <<custom(v, -1)>>)
    BY <1>3, MirroredCustom
  <2> QED BY <2>1, MirroredForward DEF Mirrored
<1> QED BY <1>1, <1>2, <1>3 DEF Pair

\* SQL is written into one file of a pair.
LEMMA PairFilled ==
  ASSUME NEW v \in Versions, NEW up, NEW down, Pair(up, down, v)
  PROVE  /\ up = <<>> => Pair(<<custom(v, 1)>>, down, v)
         /\ down = <<>> => Pair(up, <<custom(v, -1)>>, v)
<1>1. Mirrored(up, down) => (up = <<>> <=> down = <<>>)
  <2>1. \A s : IsSeq(s) => (s = <<>> <=> Len(s) = 0)
    BY DEF IsSeq
  <2> QED BY <2>1 DEF Mirrored
<1> QED BY <1>1 DEF Pair

\* Both are changed.
LEMMA PairExtended ==
  ASSUME NEW v \in Versions, NEW up, NEW down, Mirrored(up, down)
  PROVE  Mirrored(Append(up, custom(v, 1)), <<custom(v, -1)>> \o down)
<1> DEFINE a == custom(v, 1)  b == custom(v, -1)
           S == ToSet(up) \cup {a}  R == ToSet(down) \cup {b}
           u == Append(up, a)  d == <<b>> \o down
           L == Len(up)
<1>1. Undoes(a, b)
  BY Customs
<1> HIDE DEF a, b
<1>2. up \in Seq(S) /\ down \in Seq(R) /\ L \in Nat /\ Len(down) = L
  <2>1. up \in Seq(ToSet(up)) /\ down \in Seq(ToSet(down)) /\ Len(down) = L
    BY DEF Mirrored, IsSeq
  <2> HIDE DEF L
  <2> QED BY <2>1 DEF L
<1>3. u \in Seq(S) /\ d \in Seq(R) /\ Len(u) = L + 1 /\ Len(d) = L + 1
  BY <1>2
<1>4. /\ u[L + 1] = a /\ \A i \in 1..L : u[i] = up[i]
      /\ d[1] = b /\ \A i \in 1..L : d[1 + i] = down[i]
  BY <1>2
<1> HIDE DEF u, d, S, R
<1>5. ASSUME NEW i \in 1..Len(u) PROVE Undoes(u[i], d[Len(u) + 1 - i])
  <2>1. CASE i = L + 1
    <3>1. Len(u) + 1 - i = 1
      BY <1>2, <1>3, <2>1
    <3> QED BY <1>1, <1>4, <2>1, <3>1
  <2>2. CASE i # L + 1
    <3>1. i \in 1..L /\ L + 1 - i \in 1..L /\ Len(u) + 1 - i = 1 + (L + 1 - i)
      BY <1>2, <1>3, <2>2
    <3>2. Undoes(up[i], down[L + 1 - i])
      BY <3>1 DEF Mirrored
    <3> QED BY <1>4, <3>1, <3>2
  <2> QED BY <2>1, <2>2
<1>6. IsSeq(u) /\ IsSeq(d)
  BY <1>3, SeqOfItself
<1>7. Mirrored(u, d)
  BY <1>3, <1>5, <1>6 DEF Mirrored
<1> QED BY <1>7 DEF u, d, a, b

LEMMA NothingIsADatabase == Database(NoDatabase)
BY DEF NoDatabase, Database, WellNamed

\* The ups that rows record.
UpsOf(rows) == {[version |-> r.version, up |-> r.checksum[1]] : r \in rows}

LEMMA Recordings ==
  ASSUME NEW rows, \A r, s \in rows : r.version = s.version => r = s
  PROVE  /\ VersionsOf(UpsOf(rows)) = VersionsOf(rows)
         /\ \A r \in rows : UpOf(UpsOf(rows), r.version) = r.checksum[1]
<1> DEFINE Rec(r) == [version |-> r.version, up |-> r.checksum[1]]
<1>1. UpsOf(rows) = {Rec(r) : r \in rows}
  BY DEF UpsOf
<1>2. \A r : Rec(r).version = r.version /\ Rec(r).up = r.checksum[1]
  OBVIOUS
<1> HIDE DEF Rec
<1>3. VersionsOf(UpsOf(rows)) = VersionsOf(rows)
  BY <1>1, <1>2 DEF VersionsOf
<1>4. ASSUME NEW r \in rows PROVE UpOf(UpsOf(rows), r.version) = r.checksum[1]
  <2>1. \A m \in UpsOf(rows) : m.version = r.version => m = Rec(r)
    BY <1>1, <1>2
  <2>2. Rec(r) \in UpsOf(rows) /\ Rec(r).version = r.version
    BY <1>1, <1>2
  <2>3. (CHOOSE m \in UpsOf(rows) : m.version = r.version) = Rec(r)
    BY <2>1, <2>2
  <2> QED BY <1>2, <2>3 DEF UpOf
<1> QED BY <1>3, <1>4

LEMMA TheRecordings == AppliedUps = UpsOf(applied) /\ AppliedUps' = UpsOf(applied')
BY DEF AppliedUps, UpsOf

LEMMA RecordingsForward ==
  ASSUME IInv, PairedRows
  PROVE  UpsForward(AppliedUps)
<1>1. \A r, s \in applied : r.version = s.version => r = s
  BY DEF IInv, Recorded
<1>2. VersionsOf(applied) \subseteq Versions
  BY MigrationsAssumption DEF IInv, Recorded, Gapless, Versions
<1>3. ASSUME NEW v \in VersionsOf(applied) PROVE AllForward(UpOf(AppliedUps, v))
  <2>1. PICK r \in applied : r.version = v
    BY DEF VersionsOf
  <2>2. Pair(r.checksum[1], r.checksum[2], v) /\ v \in Versions
    BY <1>2, <2>1 DEF PairedRows
  <2>3. UpOf(AppliedUps, v) = r.checksum[1]
    BY <1>1, <2>1, Recordings, TheRecordings
  <2> HIDE DEF PairedRows
  <2> QED BY <2>2, <2>3, PairForward
<1> QED BY <1>1, <1>3, Recordings, TheRecordings DEF UpsForward

\* The database is one.
LEMMA DatabaseStands == ASSUME IInv, Effects PROVE Database(db)
<1>1. UpsForward(AppliedUps) /\ db = Ups(AppliedUps, NoDatabase)[MaxVersion] /\ db # Refused
  BY RecordingsForward DEF Effects, EffectsAreHistory
<1>2. MaxVersion \in 0..MaxVersion
  BY VersionBound
<1> QED BY <1>1, <1>2, NothingIsADatabase, UpsKeep

-----------------------------------------------------------------------------
(* The effects, step by step.                                              *)

\* A step of p that runs nothing on the database.
LEMMA EffectsStay ==
  ASSUME Effects, NEW p \in Processes, Moves(p), applied' = applied, db' = db,
         PairedFiles', PairedPlan(p)', PairedList(p)'
  PROVE  Effects'
<1>1. ASSUME NEW q \in Processes PROVE PairedPlan(q)' /\ PairedList(q)'
  <2>1. CASE q # p
    BY <2>1 DEF Effects, Moves, PairedPlan, PairedList
  <2> QED BY <2>1
<1>2. PairedRows' /\ EffectsAreHistory' /\ db' # Refused
  BY DEF Effects, PairedRows, EffectsAreHistory, AppliedUps
<1> QED BY <1>1, <1>2 DEF Effects

\* A command ends.
LEMMA EndEffects ==
  ASSUME IInv, Effects, NEW p \in Processes, Return(p), files' \subseteq files,
         applied' = applied, db' = db
  PROVE  Effects'
<1>1. Moves(p) /\ pc'[p] = "idle" /\ loaded'[p] = {}
  BY Returned DEF IInv, Return, Domains
<1>2. PairedFiles'
  BY DEF Effects, PairedFiles
<1> QED BY <1>1, <1>2, EffectsStay DEF PairedPlan, PairedList

LEMMA LockEffects ==
  ASSUME IInv, Effects, NEW p \in Processes, NEW empty, lockDatabaseProject(p, empty)
  PROVE  Effects'
<1> USE DEF lockDatabaseProject, Goto, database, counts
<1>1. Moves(p) /\ pc'[p] = "plan" /\ loaded'[p] = loaded[p]
  BY MigrationsAssumption DEF IInv, Domains, Moves
<1> QED BY <1>1, EffectsStay DEF Effects, PairedFiles, PairedPlan, PairedList

LEMMA BeginEffects ==
  ASSUME IInv, Effects, NEW p \in Processes, lockedMigrationTx(p)
  PROVE  Effects'
<1> USE DEF lockedMigrationTx, Goto, project, counts
<1>1. Moves(p) /\ pc'[p] = "begun" /\ loaded'[p] = loaded[p]
  BY MigrationsAssumption DEF IInv, Domains, Moves
<1> QED BY <1>1, EffectsStay DEF Effects, PairedFiles, PairedPlan, PairedList

LEMMA ExportOrders == ASSUME Typed, Describable(models) PROVE Ordered(exportSchema)
<1>1. models \in Seq(Models)
  BY MigrationsAssumption DEF Typed
<1> QED BY <1>1, DescribeOrders DEF exportSchema

LEMMA PlanEffects ==
  ASSUME IInv, Typed, Effects, NEW p \in Processes, generateDB(p)
  PROVE  Effects'
<1> USE DEF generateDB, Goto, project, database, counts
<1>1. /\ Moves(p) /\ pc'[p] = "up" /\ loaded'[p] = loaded[p]
      /\ plan'[p].up = migrationUp(schemaLock, exportSchema)
      /\ plan'[p].down = migrationDown(schemaLock, exportSchema)
  BY DEF IInv, Domains, Moves
<1>2. Mirrored(plan'[p].up, plan'[p].down)
  <2>1. Ordered(exportSchema)
    BY ExportOrders DEF Plannable
  <2>2. Mirrored(migrationUp(schemaLock, exportSchema), migrationDown(schemaLock, exportSchema))
    BY <2>1, GeneratedMirrors
  <2> QED BY <1>1, <2>2
<1>3. PairedPlan(p)'
  BY <1>2 DEF PairedPlan
<1> QED BY <1>1, <1>3, EffectsStay DEF Effects, PairedFiles, PairedList

LEMMA UpEffects == ASSUME IInv, Effects, NEW p \in Processes, WriteUp(p) PROVE Effects'
<1> USE DEF WriteUp, Goto, database, counts
<1> DEFINE v == plan[p].version
<1>1. v \in Nat /\ Directory /\ \A f \in files : f.version \in 1..(v - 1)
  BY Ahead DEF Busy
<1>2. /\ Moves(p) /\ pc[p] = "up" /\ pc'[p] = "down" /\ plan' = plan /\ loaded'[p] = loaded[p]
      /\ files' = files \cup {UpFile(p)} /\ applied' = applied /\ db' = db
  BY DEF IInv, Domains, Moves
<1>3. UpFile(p).version = v /\ UpFile(p).direction = "up"
  BY DEF UpFile, File
<1> HIDE DEF v, WriteUp, Goto, database, counts
<1>4. \A f \in files : f.version # v
  BY <1>1
<1>5. PairedFiles'
  BY <1>2, <1>3, <1>4 DEF Effects, PairedFiles
<1>6. PairedPlan(p)' /\ PairedList(p)'
  BY <1>2 DEF Effects, PairedPlan, PairedList
<1> QED BY <1>2, <1>5, <1>6, EffectsStay

LEMMA DownEffects == ASSUME IInv, Effects, NEW p \in Processes, WriteDown(p) PROVE Effects'
<1> DEFINE v == plan[p].version
<1>1. FilesOf(v) = {UpFile(p)}
  BY Ahead DEF WriteDown, Busy
<1>2. files' = files \cup {DownFile(p)} /\ applied' = applied /\ db' = db /\ pc[p] = "down"
  BY DEF WriteDown, counts
<1>3. /\ DownFile(p).version = v /\ DownFile(p).direction = "down"
      /\ DownFile(p).content = plan[p].down
      /\ UpFile(p).content = plan[p].up /\ UpFile(p).version = v
  BY DEF DownFile, UpFile, File
<1>4. Mirrored(plan[p].up, plan[p].down)
  BY <1>2 DEF Effects, PairedPlan
<1>5. Pair(UpFile(p).content, DownFile(p).content, v)
  BY <1>3, <1>4 DEF Pair
<1>6. \A f \in files : f.version = v => f = UpFile(p)
  BY <1>1 DEF FilesOf
<1> HIDE DEF v
<1>7. PairedFiles'
  BY <1>2, <1>3, <1>5, <1>6 DEF Effects, PairedFiles
<1>8. Moves(p) /\ PairedPlan(p)' /\ PairedList(p)'
  <2>1. CASE Return(p)
    <3>1. Moves(p) /\ pc'[p] = "idle" /\ loaded'[p] = {}
      BY <2>1, Returned DEF IInv, Return, Domains
    <3> QED BY <3>1 DEF PairedPlan, PairedList
  <2>2. CASE Goto(p, "schema") /\ UNCHANGED <<projectLock, plan, loaded, seen, dbLock>>
    <3>1. Moves(p) /\ pc'[p] = "schema" /\ loaded'[p] = loaded[p]
      BY <2>2 DEF IInv, Domains, Moves, Goto
    <3> QED BY <3>1 DEF Effects, PairedPlan, PairedList
  <2> QED BY <2>1, <2>2 DEF WriteDown
<1> QED BY <1>2, <1>7, <1>8, EffectsStay

LEMMA LoadEffects ==
  ASSUME IInv, Effects, NEW p \in Processes, NEW operation, Load(p, operation)
  PROVE  Effects'
<1> USE DEF Load, Goto, project, database, counts
<1>1. Moves(p) /\ pc'[p] = "loaded" /\ loaded'[p] = loadMigrations
  BY DEF IInv, Domains, Moves
<1>2. ASSUME NEW m \in loadMigrations PROVE Pair(m.up, m.down, m.version)
  <2>1. Kept(m.version, m.name, m.up, m.down)
    BY Listed DEF IInv
  <2> QED BY <2>1 DEF Effects, PairedFiles, Kept
<1>3. PairedPlan(p)' /\ PairedList(p)'
  BY <1>1, <1>2 DEF PairedPlan, PairedList
<1> QED BY <1>1, <1>3, EffectsStay DEF Effects, PairedFiles

\* The up of a version in a set that names each version once.
LEMMA UpIs ==
  ASSUME NEW S, \A m, n \in S : m.version = n.version => m = n, NEW m \in S
  PROVE  UpOf(S, m.version) = m.up
<1>1. (CHOOSE n \in S : n.version = m.version) = m
  OBVIOUS
<1> QED BY <1>1 DEF UpOf

LEMMA MigrateEffects == ASSUME IInv, Effects, NEW p \in Processes, migrate(p) PROVE Effects'
<1>1. /\ pc[p] = "begun" /\ Valid(p) /\ Return(p) /\ files' = files
      /\ applied' = applied \cup {Row(m) : m \in Pending(p)}
      /\ db' = Ups(Pending(p), db)[MaxVersion] /\ db' # Refused
      /\ \A m \in Pending(p) : m.up # <<>>
  BY DEF migrate
<1>2. /\ seen[p] = applied /\ ReadList(p) /\ Recorded /\ PairedList(p)
  BY <1>1, InTransaction DEF Effects
<1>3. /\ Pending(p) \subseteq loaded[p]
      /\ \A m \in loaded[p] : m \in Pending(p) <=> m.version \notin VersionsOf(applied)
  BY <1>2 DEF Pending
<1>4. \A m : /\ Row(m).version = m.version
             /\ Row(m).checksum[1] = m.up /\ Row(m).checksum[2] = m.down
  BY DEF Row, checksum
<1>5. /\ Recorded'
      /\ \A r, s \in applied' : r.version = s.version => r = s
  BY MigrateStep DEF IInv, Recorded
<1>6. PairedRows'
  <2>1. ASSUME NEW m \in Pending(p)
        PROVE  /\ Pair(Row(m).checksum[1], Row(m).checksum[2], Row(m).version)
               /\ Row(m).checksum[1] # <<>>
    BY <1>1, <1>2, <1>3, <1>4 DEF PairedList
  <2> QED BY <1>1, <2>1 DEF Effects, PairedRows
<1> DEFINE A == AppliedUps  B == Pending(p)
           S == UpsOf(applied')
<1>7. PICK n \in 0..MaxVersion : VersionsOf(applied) = 1..n
  BY <1>2 DEF Recorded, Gapless
<1>8. /\ VersionsOf(A) = 1..n /\ \A r \in applied : UpOf(A, r.version) = r.checksum[1]
  BY <1>2, <1>7, Recordings, TheRecordings DEF Recorded
<1>9. /\ VersionsOf(S) = VersionsOf(applied')
      /\ \A r \in applied' : UpOf(S, r.version) = r.checksum[1]
  BY <1>5, Recordings
<1>10. /\ VersionsOf(B) \subseteq Versions /\ \A v \in VersionsOf(B) : v > n
       /\ \A m \in B : UpOf(B, m.version) = m.up
  <2>1. VersionsOf(loaded[p]) \subseteq Versions
    BY <1>2, MigrationsAssumption DEF ReadList, Gapless, Versions
  <2>2. VersionsOf(B) \subseteq Versions
    BY <1>3, <2>1 DEF VersionsOf
  <2>3. \A v \in VersionsOf(B) : v \notin 1..n
    BY <1>3, <1>7 DEF VersionsOf
  <2>4. \A v \in VersionsOf(B) : v > n
    BY <2>2, <2>3, MigrationsAssumption DEF Versions
  <2>5. \A q, m \in B : q.version = m.version => q = m
    BY <1>2, <1>3 DEF ReadList
  <2> HIDE DEF B
  <2> QED BY <2>2, <2>4, <2>5, UpIs
<1> HIDE DEF A, B, S
<1>11. ASSUME NEW v \in 1..n, NEW e PROVE Upgraded(S, v, e) = Upgraded(A, v, e)
  <2>1. PICK r \in applied : r.version = v
    BY <1>7 DEF VersionsOf
  <2>2. r \in applied' /\ v \in VersionsOf(applied')
    BY <1>1, <2>1 DEF VersionsOf
  <2> QED BY <1>8, <1>9, <2>1, <2>2 DEF Upgraded
<1>12. ASSUME NEW v \in (n + 1)..MaxVersion, NEW e PROVE Upgraded(S, v, e) = Upgraded(B, v, e)
  <2>1. v \notin VersionsOf(applied)
    BY <1>7, MigrationsAssumption
  <2>2. CASE v \in VersionsOf(B)
    <3>1. PICK m \in B : m.version = v
      BY <2>2 DEF VersionsOf
    <3>2. Row(m) \in applied' /\ v \in VersionsOf(applied')
      BY <1>1, <1>4, <3>1 DEF B, VersionsOf
    <3>3. UpOf(S, v) = m.up
      BY <1>4, <1>9, <3>1, <3>2
    <3> QED BY <1>9, <1>10, <2>2, <3>1, <3>2, <3>3 DEF Upgraded
  <2>3. CASE v \notin VersionsOf(B)
    <3>1. v \notin VersionsOf(applied')
      BY <1>1, <1>4, <2>1, <2>3 DEF B, VersionsOf
    <3> QED BY <1>9, <2>3, <3>1 DEF Upgraded
  <2> QED BY <2>2, <2>3
<1>13. VersionsOf(A) \subseteq Versions /\ \A v \in VersionsOf(A) : v <= n
  BY <1>8, MigrationsAssumption DEF Versions
<1>14. Ups(S, NoDatabase)[MaxVersion] = Ups(B, Ups(A, NoDatabase)[MaxVersion])[MaxVersion]
  BY <1>10, <1>11, <1>12, <1>13, UpsJoin
<1>15. db = Ups(A, NoDatabase)[MaxVersion]
  BY DEF Effects, EffectsAreHistory, A
<1>16. EffectsAreHistory'
  BY <1>1, <1>14, <1>15, TheRecordings DEF EffectsAreHistory, S, B
<1>17. PairedFiles'
  BY <1>1 DEF Effects, PairedFiles
<1>18. \A q \in Processes : PairedPlan(q)' /\ PairedList(q)'
  <2>1. Moves(p) /\ pc'[p] = "idle" /\ loaded'[p] = {}
    BY <1>1, Returned DEF IInv, Return, Domains
  <2>2. ASSUME NEW q \in Processes PROVE PairedPlan(q)' /\ PairedList(q)'
    <3>1. CASE q = p
      BY <2>1, <3>1 DEF PairedPlan, PairedList
    <3>2. CASE q # p
      BY <2>1, <3>2 DEF Effects, Moves, PairedPlan, PairedList
    <3> QED BY <3>1, <3>2
  <2> QED BY <2>2
<1> QED BY <1>1, <1>6, <1>16, <1>17, <1>18 DEF Effects

LEMMA RollbackEffects == ASSUME IInv, Effects, NEW p \in Processes, rollback(p) PROVE Effects'
<1> DEFINE m == Latest(p)
<1>1. /\ pc[p] = "begun" /\ Valid(p) /\ Return(p) /\ files' = files /\ seen[p] # {}
      /\ applied' = {r \in applied : r.version # m.version}
      /\ db' = Run(m.down, db) /\ db' # Refused /\ m.down # <<>>
  BY DEF rollback
<1>2. seen[p] = applied /\ ReadList(p) /\ Recorded
      /\ VersionsOf(applied) \subseteq VersionsOf(loaded[p])
  BY <1>1, InTransaction
<1>3. PICK n \in 0..MaxVersion : VersionsOf(applied) = 1..n
  BY <1>2 DEF Recorded, Gapless
<1>4. n > 0 /\ n \in Nat /\ n \in Versions /\ n - 1 \in 0..MaxVersion
  <2>1. n \in Nat /\ MaxVersion \in Nat /\ n <= MaxVersion
    BY MigrationsAssumption
  <2>2. n # 0
    <3>1. applied # {}
      BY <1>1, <1>2
    <3>2. VersionsOf(applied) # {}
      BY <3>1 DEF VersionsOf
    <3> QED BY <1>3, <3>2
  <2> QED BY <2>1, <2>2 DEF Versions
<1>5. m.version = n /\ m \in loaded[p]
  <2> DEFINE Newest(l) == /\ l.version \in VersionsOf(seen[p])
                        /\ \A r \in seen[p] : r.version <= l.version
  <2>1. n \in VersionsOf(seen[p]) /\ \A r \in seen[p] : r.version <= n
    BY <1>2, <1>3, <1>4 DEF VersionsOf
  <2>2. \E l \in loaded[p] : Newest(l)
    <3>1. PICK l \in loaded[p] : l.version = n
      BY <1>2, <2>1 DEF VersionsOf
    <3> QED BY <2>1, <3>1
  <2>3. m \in loaded[p] /\ Newest(m)
    BY <2>2 DEF Latest
  <2> HIDE DEF m
  <2>4. m.version \in 1..n /\ n <= m.version
    BY <1>2, <1>3, <2>1, <2>3 DEF VersionsOf
  <2> QED BY <1>4, <2>3, <2>4
<1> HIDE DEF m
<1>6. PICK r \in applied : r.version = n /\ r.checksum[1] = m.up /\ r.checksum[2] = m.down
  <2>1. n \in VersionsOf(seen[p])
    BY <1>2, <1>3, <1>4
  <2>2. Row(m) \in applied
    BY <1>1, <1>2, <1>5, <2>1 DEF Valid, validateMigrationHistory
  <2> QED BY <1>5, <2>2 DEF Row, checksum
<1>7. Mirrored(m.up, m.down)
  <2> DEFINE up == m.up  down == m.down
  <2>1. Pair(up, down, n) /\ up # <<>> /\ down # <<>>
    BY <1>1, <1>6 DEF Effects, PairedRows
  <2> HIDE DEF up, down
  <2>2. Mirrored(up, down)
    BY <1>4, <2>1, PairWritten
  <2> QED BY <2>2 DEF up, down
<1> DEFINE A == AppliedUps
           S == UpsOf(applied')
           f == Ups(A, NoDatabase)  g == Ups(S, NoDatabase)
           before == f[n - 1]
<1>8. /\ VersionsOf(A) = 1..n /\ \A q \in applied : UpOf(A, q.version) = q.checksum[1]
  BY <1>2, <1>3, Recordings, TheRecordings DEF Recorded
<1>9. /\ VersionsOf(S) = 1..(n - 1) /\ \A q \in applied' : UpOf(S, q.version) = q.checksum[1]
  <2>1. \A q, s \in applied' : q.version = s.version => q = s
    BY <1>1, <1>2 DEF Recorded
  <2>2. VersionsOf(applied') = VersionsOf(applied) \ {n}
    BY <1>1, <1>5 DEF VersionsOf
  <2>3. 1..n \ {n} = 1..(n - 1)
    BY <1>4
  <2> QED BY <1>3, <2>1, <2>2, <2>3, Recordings
<1>10. db = f[MaxVersion] /\ db # Refused
  BY DEF Effects, EffectsAreHistory
<1>11. Replay(A, NoDatabase, f) /\ Replay(S, NoDatabase, g)
  BY UpsReplay
<1>12. UpsForward(A)
  BY RecordingsForward DEF Effects
<1> HIDE DEF A, S
<1>13. f[MaxVersion] = f[n]
  <2>1. MaxVersion \in n..MaxVersion /\ \A v \in VersionsOf(A) : ~(n < v /\ v <= MaxVersion)
    BY <1>4, <1>8, VersionBound
  <2> QED BY <2>1, UpsRest
<1>14. Database(before)
  BY <1>4, <1>10, <1>12, NothingIsADatabase, UpsStand, UpsKeep
<1>15. f[n] = Run(m.up, before)
  <2>1. f[n] = Upgraded(A, n, before)
    BY <1>4, <1>11 DEF Replay
  <2>2. n \in VersionsOf(A) /\ UpOf(A, n) = m.up
    BY <1>4, <1>6, <1>8
  <2> QED BY <2>1, <2>2 DEF Upgraded
<1> HIDE DEF before
<1>16. Run(m.down, db) = before
  <2> DEFINE up == m.up  down == m.down
  <2>1. Mirrored(up, down) /\ Run(up, before) # Refused /\ db = Run(up, before)
    BY <1>7, <1>10, <1>13, <1>15
  <2> HIDE DEF up, down
  <2>2. Run(down, Run(up, before)) = before
    BY <1>14, <2>1, RunBack
  <2> QED BY <2>1, <2>2 DEF down
<1>17. g[MaxVersion] = before
  <2>1. ASSUME NEW v \in 1..(n - 1), NEW e PROVE Upgraded(A, v, e) = Upgraded(S, v, e)
    <3>1. v \in VersionsOf(A) /\ v \in VersionsOf(S) /\ v # n
      BY <1>4, <1>8, <1>9
    <3>2. PICK q \in applied : q.version = v
      BY <1>3, <1>8, <3>1 DEF VersionsOf
    <3>3. q \in applied'
      BY <1>1, <1>5, <3>1, <3>2
    <3> QED BY <1>8, <1>9, <3>1, <3>2, <3>3 DEF Upgraded
  <2>2. n - 1 \in 0..(n - 1)
    BY <1>4
  <2> HIDE DEF f, g
  <2>3. f[n - 1] = g[n - 1]
    BY <1>4, <1>11, <2>1, <2>2, ReplaysAgree
  <2>4. g[MaxVersion] = g[n - 1]
    <3>1. /\ MaxVersion \in (n - 1)..MaxVersion
          /\ \A v \in VersionsOf(S) : ~(n - 1 < v /\ v <= MaxVersion)
      BY <1>4, <1>9, VersionBound
    <3> QED BY <1>4, <3>1, UpsRest DEF g
  <2> QED BY <2>3, <2>4 DEF before
<1>18. EffectsAreHistory'
  BY <1>1, <1>16, <1>17, TheRecordings DEF EffectsAreHistory, S, g
<1>19. PairedFiles' /\ PairedRows'
  BY <1>1 DEF Effects, PairedFiles, PairedRows
<1>20. \A q \in Processes : PairedPlan(q)' /\ PairedList(q)'
  <2>1. Moves(p) /\ pc'[p] = "idle" /\ loaded'[p] = {}
    BY <1>1, Returned DEF IInv, Return, Domains
  <2>2. ASSUME NEW q \in Processes PROVE PairedPlan(q)' /\ PairedList(q)'
    <3>1. CASE q = p
      BY <2>1, <3>1 DEF PairedPlan, PairedList
    <3>2. CASE q # p
      BY <2>1, <3>2 DEF Effects, Moves, PairedPlan, PairedList
    <3> QED BY <3>1, <3>2
  <2> QED BY <2>2
<1> QED BY <1>1, <1>18, <1>19, <1>20 DEF Effects

\* The developer runs nothing on the database.
LEMMA EditEffects ==
  ASSUME Effects, UNCHANGED <<pc, plan, loaded, applied, db>>, PairedFiles'
  PROVE  Effects'
<1>1. PairedRows' /\ EffectsAreHistory' /\ db' # Refused
  BY DEF Effects, PairedRows, EffectsAreHistory, AppliedUps
<1>2. \A p \in Processes : PairedPlan(p)' /\ PairedList(p)'
  BY DEF Effects, PairedPlan, PairedList
<1> QED BY <1>1, <1>2 DEF Effects

LEMMA WriteSQLEffects ==
  ASSUME IInv, Effects, NEW f \in files, WriteSQL(f)
  PROVE  Effects'
<1> DEFINE v == f.version
           new == [f EXCEPT !.content = <<custom(f.version, IF f.direction = "up" THEN 1 ELSE -1)>>]
<1>1. /\ f.content = <<>> /\ files' = (files \ {f}) \cup {new}
      /\ UNCHANGED <<pc, plan, loaded, applied, db>>
  BY DEF WriteSQL, database
<1>2. /\ new.version = v /\ new.direction = f.direction /\ v \in Versions
      /\ f.direction \in {"up", "down"}
      /\ f.direction = "up" => new.content = <<custom(v, 1)>>
      /\ f.direction = "down" => new.content = <<custom(v, -1)>>
  BY DEF IInv, Directory, IsFile, File
<1> HIDE DEF new, v
<1>3. ASSUME NEW g \in files', NEW h \in files', g.version = h.version,
             g.direction = "up", h.direction = "down"
      PROVE  Pair(g.content, h.content, g.version)
  <2>1. CASE g = new /\ h \in files
    <3>1. Pair(<<>>, h.content, v)
      BY <1>1, <1>2, <1>3, <2>1 DEF Effects, PairedFiles, v
    <3> QED BY <1>2, <1>3, <2>1, <3>1, PairFilled
  <2>2. CASE g \in files /\ h = new
    <3>1. Pair(g.content, <<>>, v)
      BY <1>1, <1>2, <1>3, <2>2 DEF Effects, PairedFiles, v
    <3> QED BY <1>2, <1>3, <2>2, <3>1, PairFilled
  <2>3. CASE g \in files /\ h \in files
    BY <1>3, <2>3 DEF Effects, PairedFiles
  <2> QED BY <1>1, <1>3, <2>1, <2>2, <2>3
<1>4. PairedFiles'
  BY <1>3 DEF PairedFiles
<1> QED BY <1>1, <1>4, EditEffects

LEMMA ModifyEffects ==
  ASSUME IInv, Effects, NEW v \in Versions, ModifyPair(v)
  PROVE  Effects'
<1> DEFINE New(f) == [f EXCEPT !.content = IF f.direction = "up" THEN Append(@, custom(v, 1))
                                           ELSE <<custom(v, -1)>> \o @]
<1>1. /\ files' = {f \in files : f.version # v} \cup {New(f) : f \in {g \in files : g.version = v}}
      /\ \A f \in files : f.version = v => f.content # <<>>
      /\ UNCHANGED <<pc, plan, loaded, applied, db>>
  BY DEF ModifyPair, database
<1>2. ASSUME NEW f \in files
      PROVE  /\ New(f).version = f.version /\ New(f).direction = f.direction
             /\ f.direction = "up" => New(f).content = Append(f.content, custom(v, 1))
             /\ f.direction = "down" => New(f).content = <<custom(v, -1)>> \o f.content
  BY DEF IInv, Directory, IsFile, File
<1> HIDE DEF New
<1>3. ASSUME NEW g \in files', NEW h \in files', g.version = h.version,
             g.direction = "up", h.direction = "down"
      PROVE  Pair(g.content, h.content, g.version)
  <2>1. CASE g.version # v
    <3>1. g \in files /\ h \in files
      BY <1>1, <1>2, <1>3, <2>1
    <3> QED BY <1>3, <3>1 DEF Effects, PairedFiles
  <2>2. CASE g.version = v
    <3>1. PICK k \in files, l \in files : k.version = v /\ g = New(k) /\ l.version = v /\ h = New(l)
      BY <1>1, <1>3, <2>2
    <3> DEFINE up == k.content  down == l.content
    <3>2. Pair(up, down, v) /\ up # <<>> /\ down # <<>>
      BY <1>1, <1>2, <1>3, <3>1 DEF Effects, PairedFiles
    <3>3. g.content = Append(up, custom(v, 1)) /\ h.content = <<custom(v, -1)>> \o down
      BY <1>2, <1>3, <3>1
    <3> HIDE DEF up, down
    <3>4. Mirrored(up, down)
      BY <3>2, PairWritten
    <3>5. Mirrored(Append(up, custom(v, 1)), <<custom(v, -1)>> \o down)
      BY <3>4, PairExtended
    <3> QED BY <3>3, <3>5 DEF Pair
  <2> QED BY <2>1, <2>2
<1>4. PairedFiles'
  BY <1>3 DEF PairedFiles
<1> QED BY <1>1, <1>4, EditEffects

-----------------------------------------------------------------------------
(* The effects are the history.                                            *)

LEMMA NothingToRun == Ups({}, NoDatabase)[MaxVersion] = NoDatabase
<1> DEFINE f == Ups({}, NoDatabase)
<1>1. f[0] = NoDatabase
  BY UpsReplay DEF Replay
<1>2. f[MaxVersion] = f[0]
  <2>1. 0 \in 0..MaxVersion /\ MaxVersion \in 0..MaxVersion /\ VersionsOf({}) = {}
    BY VersionBound DEF VersionsOf
  <2> QED BY <2>1, UpsRest
<1> QED BY <1>1, <1>2

LEMMA EffectsInitially == Init => Effects
<1> SUFFICES ASSUME Init PROVE Effects
  OBVIOUS
<1>1. AppliedUps = {}
  BY DEF Init, AppliedUps
<1>2. EffectsAreHistory /\ db # Refused
  BY <1>1, NothingToRun, NothingIsADatabase, Standing DEF Init, EffectsAreHistory
<1> QED BY <1>2 DEF Init, Effects, PairedFiles, PairedRows, PairedPlan, PairedList

LEMMA EffectsInductive == IInv /\ Typed /\ Effects /\ [Next]_vars => Effects'
<1> SUFFICES ASSUME IInv, Typed, Effects, [Next]_vars PROVE Effects'
  OBVIOUS
<1>1. ASSUME NEW p \in Processes, Step(p) PROVE Effects'
  <2>1. CASE \E empty \in BOOLEAN : lockDatabaseProject(p, empty)
    BY <2>1, LockEffects
  <2>2. CASE generateDB(p)
    BY <2>2, PlanEffects
  <2>3. CASE GenerateRefuses(p) \/ Fails(p)
    BY <2>3, EndEffects DEF GenerateRefuses, Fails
  <2>4. CASE WriteUp(p)
    BY <2>4, UpEffects
  <2>5. CASE WriteDown(p)
    BY <2>5, DownEffects
  <2>6. CASE writeSchema(p) \/ WriteFails(p)
    BY <2>6, EndEffects DEF writeSchema, WriteFails
  <2>12. CASE RemoveFails(p)
    <3>1. Return(p) /\ files' \subseteq files /\ applied' = applied /\ db' = db
      BY <2>12 DEF RemoveFails, Removed
    <3> QED BY <3>1, EndEffects
  <2>7. CASE \E operation \in {"migrate", "rollback"} : Load(p, operation)
    BY <2>7, LoadEffects
  <2>8. CASE lockedMigrationTx(p)
    BY <2>8, BeginEffects
  <2>9. CASE migrate(p)
    BY <2>9, MigrateEffects
  <2>10. CASE rollback(p)
    BY <2>10, RollbackEffects
  <2>11. CASE Killed(p)
    BY <2>11, EndEffects DEF Killed
  <2> QED BY <1>1, <2>1, <2>2, <2>3, <2>4, <2>5, <2>6, <2>7, <2>8, <2>9, <2>10, <2>11, <2>12 DEF Step
<1>2. ASSUME UNCHANGED <<files, pc, plan, loaded, applied, db>> PROVE Effects'
  BY <1>2, EditEffects DEF Effects, PairedFiles
<1>3. CASE RegisterModels
  BY <1>2, <1>3 DEF RegisterModels, database
<1>4. CASE \E f \in files : WriteSQL(f)
  BY <1>4, WriteSQLEffects
<1>5. CASE \E v \in Versions : ModifyPair(v)
  BY <1>5, ModifyEffects
<1>6. CASE UNCHANGED vars
  BY <1>2, <1>6 DEF vars, project, database
<1> QED BY <1>1, <1>3, <1>4, <1>5, <1>6 DEF Next

\* What the migrations have made of the database is what the recorded ones, by
\* their checksums, make of an empty one: whatever was generated, edited,
\* loaded, applied and rolled back by then (migrations.go:136-234).
THEOREM EffectsStayHistory == Spec => []EffectsAreHistory
<1>1. Effects => EffectsAreHistory
  BY DEF Effects
<1> QED BY <1>1, Initial, Inductive, TypedInitially, TypedInductive, EffectsInitially,
           EffectsInductive, PTL DEF Spec

-----------------------------------------------------------------------------
(* The schema lock: what the files make.                                   *)

\* A version that is being written is not yet to be counted; the others are
\* settled.
Writing(v) == \E p \in Processes : pc[p] \in {"down", "schema"} /\ plan[p].version = v
Settled == {f \in files : ~Writing(f.version)}

\* The ups among files.
UpsIn(K) == {[version |-> f.version, up |-> f.content] : f \in {g \in K : g.direction = "up"}}

\* What is written is the migration from the schema lock.
Planned(p) ==
  pc[p] \in {"up", "down", "schema"} =>
    /\ plan[p].up = migrationUp(schemaLock, plan[p].schema)
    /\ Generable(schemaLock, plan[p].schema) /\ Ordered(plan[p].schema)
    /\ plan[p].empty => plan[p].up = <<>>

Whole(K) ==
  /\ \A f, g \in K : f.version = g.version => f.name = g.name
  /\ \A f \in K : \E g \in K : g.version = f.version /\ g.direction # f.direction

\* S makes the tables of a schema.
Makes(S, schema) ==
  /\ Ups(S, NoDatabase)[MaxVersion] # Refused
  /\ Ups(S, NoDatabase)[MaxVersion].tables = Tables(schema)

SchemaKept ==
  /\ \A p \in Processes : Planned(p)
  /\ ~torn => Whole(Settled) /\ Makes(UpsIn(Settled), schemaLock)

\* Each version up once.
OneUp(K) ==
  \A f, g \in K :
    f.direction = "up" /\ g.direction = "up" /\ f.version = g.version => f = g

LEMMA WholeIsOneUp ==
  ASSUME Directory, NEW K, K \subseteq files, Whole(K)
  PROVE  OneUp(K)
BY DEF Directory, Whole, OneUp

LEMMA UpsInAre ==
  ASSUME NEW K, OneUp(K)
  PROVE  /\ \A m, n \in UpsIn(K) : m.version = n.version => m = n
         /\ \A f \in K : f.direction = "up" =>
              /\ f.version \in VersionsOf(UpsIn(K)) /\ UpOf(UpsIn(K), f.version) = f.content
         /\ \A v \in VersionsOf(UpsIn(K)) : \E f \in K : f.direction = "up" /\ f.version = v
<1> DEFINE Up(f) == [version |-> f.version, up |-> f.content]
<1>1. UpsIn(K) = {Up(f) : f \in {g \in K : g.direction = "up"}}
  BY DEF UpsIn
<1>2. \A f : Up(f).version = f.version /\ Up(f).up = f.content
  OBVIOUS
<1> HIDE DEF Up
<1>3. \A m, n \in UpsIn(K) : m.version = n.version => m = n
  BY <1>1, <1>2 DEF OneUp
<1>4. ASSUME NEW f \in K, f.direction = "up"
      PROVE  f.version \in VersionsOf(UpsIn(K)) /\ UpOf(UpsIn(K), f.version) = f.content
  <2> DEFINE m == Up(f)
  <2>1. m \in UpsIn(K) /\ m.version = f.version /\ m.up = f.content
    BY <1>1, <1>2, <1>4
  <2> HIDE DEF m
  <2>2. UpOf(UpsIn(K), m.version) = m.up
    BY <1>3, <2>1, UpIs
  <2> QED BY <2>1, <2>2 DEF VersionsOf
<1>5. \A v \in VersionsOf(UpsIn(K)) : \E f \in K : f.direction = "up" /\ f.version = v
  BY <1>1, <1>2 DEF VersionsOf
<1> QED BY <1>3, <1>4, <1>5

\* The ups of files that are there in pairs can be run.
LEMMA UpsInForward ==
  ASSUME Directory, PairedFiles, NEW K, K \subseteq files, Whole(K)
  PROVE  UpsForward(UpsIn(K))
<1>1. OneUp(K)
  BY WholeIsOneUp
<1>2. ASSUME NEW v \in VersionsOf(UpsIn(K)) PROVE AllForward(UpOf(UpsIn(K), v))
  <2>1. PICK f \in K : f.direction = "up" /\ f.version = v
    BY <1>1, UpsInAre
  <2>2. PICK g \in K : g.version = f.version /\ g.direction # f.direction
    BY DEF Whole
  <2>3. g.direction = "down" /\ v \in Versions
    BY <2>1, <2>2 DEF Directory, IsFile
  <2> DEFINE up == f.content  down == g.content
  <2>4. Pair(up, down, v)
    BY <2>1, <2>2, <2>3 DEF PairedFiles
  <2> HIDE DEF up, down
  <2>5. AllForward(up)
    BY <2>3, <2>4, PairForward
  <2> QED BY <1>1, <2>1, <2>5, UpsInAre DEF up
<1> QED BY <1>2 DEF UpsForward

\* One version more, after the others.
Before(A, v) ==
  /\ \A m, n \in A : m.version = n.version => m = n
  /\ VersionsOf(A) \subseteq 1..(v - 1)

LEMMA UpsAdd ==
  ASSUME NEW A, NEW v \in Versions, Before(A, v), NEW up, NEW d
  PROVE  Ups(A \cup {[version |-> v, up |-> up]}, d)[MaxVersion] = Run(up, Ups(A, d)[MaxVersion])
<1> DEFINE new == [version |-> v, up |-> up]
           B == {new}  S == A \cup B  n == v - 1
           e == Ups(A, d)[MaxVersion]
           f == Ups(B, e)
<1>0. (\A m, l \in A : m.version = l.version => m = l) /\ VersionsOf(A) \subseteq 1..n
  BY DEF Before
<1>1. /\ v \in Nat /\ n \in 0..MaxVersion /\ v = n + 1 /\ v \in 0..MaxVersion
      /\ v \in 1..MaxVersion
  BY VersionBound
<1>2. new.version = v /\ new.up = up
  OBVIOUS
<1> HIDE DEF new
<1>3. VersionsOf(B) = {v} /\ VersionsOf(S) = VersionsOf(A) \cup {v}
  BY <1>2 DEF VersionsOf
<1>4. \A m, l \in S : m.version = l.version => m = l
  BY <1>0, <1>1, <1>2 DEF VersionsOf
<1>5. UpOf(B, v) = up /\ UpOf(S, v) = up
  <2>1. \A m, l \in B : m.version = l.version => m = l
    OBVIOUS
  <2>2. UpOf(B, new.version) = new.up
    BY <2>1, UpIs
  <2>3. UpOf(S, new.version) = new.up
    <3> HIDE DEF B
    <3>1. new \in S
      BY DEF B
    <3> HIDE DEF S
    <3> QED BY <1>4, <3>1, UpIs
  <2> QED BY <1>2, <2>2, <2>3
<1>6. ASSUME NEW w \in 1..n, NEW x PROVE Upgraded(S, w, x) = Upgraded(A, w, x)
  <2>1. w # v
    BY <1>1
  <2>2. CASE w \in VersionsOf(A)
    <3>1. PICK m \in A : m.version = w
      BY <2>2 DEF VersionsOf
    <3>2. UpOf(A, m.version) = m.up
      BY <1>0, UpIs
    <3>3. UpOf(S, m.version) = m.up
      <4>1. m \in S
        OBVIOUS
      <4> HIDE DEF S
      <4> QED BY <1>4, <4>1, UpIs
    <3> HIDE DEF S
    <3> QED BY <1>3, <2>2, <3>1, <3>2, <3>3 DEF Upgraded
  <2>3. CASE w \notin VersionsOf(A)
    <3> HIDE DEF S
    <3> QED BY <1>3, <2>1, <2>3 DEF Upgraded
  <2> QED BY <2>2, <2>3
<1>7. ASSUME NEW w \in (n + 1)..MaxVersion, NEW x PROVE Upgraded(S, w, x) = Upgraded(B, w, x)
  <2>1. w \in VersionsOf(A) => w \in 1..n
    BY <1>0
  <2>2. w \notin VersionsOf(A)
    BY <1>1, <2>1
  <2> HIDE DEF S, B
  <2> QED BY <1>3, <1>5, <2>2 DEF Upgraded
<1>8. /\ \A w \in VersionsOf(A) : w <= n
      /\ VersionsOf(A) \subseteq Versions
  BY <1>0, <1>1, VersionBound
<1>9. \A w \in VersionsOf(B) : w > n
  BY <1>1, <1>3
<1>10. VersionsOf(B) \subseteq Versions
  BY <1>3
<1> HIDE DEF B, S, n
<1>11. Ups(S, d)[MaxVersion] = Ups(B, Ups(A, d)[MaxVersion])[MaxVersion]
  BY <1>1, <1>6, <1>7, <1>8, <1>9, <1>10, UpsJoin
<1> HIDE DEF e
<1>12. Replay(B, e, f)
  BY UpsReplay
<1>13. f[n] = f[0] /\ f[0] = e
  <2>1. 0 \in 0..MaxVersion /\ n \in 0..MaxVersion /\ \A w \in VersionsOf(B) : ~(0 < w /\ w <= n)
    BY <1>1, <1>3, VersionBound
  <2>2. n \in 0..MaxVersion /\ \A w \in VersionsOf(B) : ~(0 < w /\ w <= n)
    BY <2>1
  <2>3. f[n] = f[0]
    BY <2>1, <2>2, UpsRest
  <2> QED BY <1>12, <2>3 DEF Replay
<1>14. f[v] = Run(up, e)
  <2>1. f[v] = Upgraded(B, v, f[n])
    BY <1>1, <1>12 DEF Replay, n
  <2> QED BY <1>3, <1>5, <1>13, <2>1 DEF Upgraded
<1>15. f[MaxVersion] = f[v]
  <2>1. MaxVersion \in v..MaxVersion /\ \A w \in VersionsOf(B) : ~(v < w /\ w <= MaxVersion)
    BY <1>1, <1>3, VersionBound
  <2> QED BY <1>1, <2>1, UpsRest
<1> QED BY <1>11, <1>14, <1>15 DEF e, S, B, new

-----------------------------------------------------------------------------
(* The schema lock, step by step.                                          *)

\* Who generates is alone: nobody else is about to write or writing.
LEMMA Alone ==
  ASSUME IInv, NEW p \in Processes, Busy(pc[p])
  PROVE  /\ \A q \in Processes : q # p => ~Busy(pc[q])
         /\ \A v : Writing(v) <=> pc[p] \in {"down", "schema"} /\ plan[p].version = v
<1>1. \A q \in Processes : Busy(pc[q]) => projectLock = q
  BY DEF IInv, Generator, Busy
<1>2. \A q \in Processes : q # p => ~Busy(pc[q])
  BY <1>1
<1> QED BY <1>2 DEF Writing, Busy

\* What is settled stays as it is, and so does the schema lock.
LEMMA SchemaStays ==
  ASSUME SchemaKept, Settled' = Settled, schemaLock' = schemaLock, torn => torn',
         \A p \in Processes : Planned(p)'
  PROVE  SchemaKept'
<1>1. ASSUME ~torn' PROVE Whole(Settled)' /\ Makes(UpsIn(Settled), schemaLock)'
  <2> DEFINE K == Settled
  <2>1. Whole(K) /\ Makes(UpsIn(K), schemaLock) /\ K = Settled'
    BY <1>1 DEF SchemaKept
  <2> HIDE DEF K
  <2>2. Whole(Settled') /\ Makes(UpsIn(Settled'), schemaLock')
    BY <2>1
  <2> QED BY <2>2 DEF Whole, Makes, UpsIn, Ups, Tables
<1> QED BY <1>1 DEF SchemaKept

\* The others plan nothing: what they keep is what they had.
LEMMA PlansStay ==
  ASSUME IInv, SchemaKept, NEW p \in Processes, Moves(p), schemaLock' = schemaLock \/ Busy(pc[p]),
         Planned(p)'
  PROVE  \A q \in Processes : Planned(q)'
<1>1. ASSUME NEW q \in Processes, q # p PROVE Planned(q)'
  <2>1. pc'[q] = pc[q] /\ plan'[q] = plan[q] /\ Planned(q)
    BY <1>1 DEF Moves, SchemaKept
  <2>2. CASE schemaLock' = schemaLock
    BY <2>1, <2>2 DEF Planned
  <2>3. CASE Busy(pc[p])
    <3>1. ~Busy(pc'[q])
      BY <1>1, <2>1, <2>3, Alone
    <3> QED BY <3>1 DEF Planned, Busy
  <2> QED BY <2>2, <2>3
<1> QED BY <1>1

\* A step that writes no files.
LEMMA QuietSchema ==
  ASSUME IInv, SchemaKept, NEW p \in Processes, Moves(p), files' = files,
         schemaLock' = schemaLock, torn => torn', Planned(p)',
         pc[p] \notin {"down", "schema"}, pc'[p] \notin {"down", "schema"}
  PROVE  SchemaKept'
<1>1. \A v : Writing(v)' <=> Writing(v)
  BY DEF Writing, Moves
<1>2. Settled' = Settled
  BY <1>1 DEF Settled
<1> QED BY <1>2, PlansStay, SchemaStays

LEMMA EndSchema ==
  ASSUME IInv, SchemaKept, NEW p \in Processes, Return(p), files' = files,
         schemaLock' = schemaLock, torn => torn', pc[p] \notin {"down", "schema"}
  PROVE  SchemaKept'
<1>1. Moves(p) /\ pc'[p] = "idle"
  BY Returned DEF IInv
<1> QED BY <1>1, QuietSchema DEF Planned

LEMMA LockSchema ==
  ASSUME IInv, SchemaKept, NEW p \in Processes, NEW empty, lockDatabaseProject(p, empty)
  PROVE  SchemaKept'
<1> USE DEF lockDatabaseProject, Goto, database, counts
<1>1. Moves(p) /\ pc'[p] = "plan"
  BY MigrationsAssumption DEF IInv, Domains, Moves
<1> QED BY <1>1, QuietSchema DEF Planned

LEMMA LoadSchema ==
  ASSUME IInv, SchemaKept, NEW p \in Processes, NEW operation, Load(p, operation)
  PROVE  SchemaKept'
<1> USE DEF Load, Goto, project, database, counts
<1>1. Moves(p) /\ pc'[p] = "loaded"
  BY DEF IInv, Domains, Moves
<1> QED BY <1>1, QuietSchema DEF Planned

LEMMA BeginSchema ==
  ASSUME IInv, SchemaKept, NEW p \in Processes, lockedMigrationTx(p)
  PROVE  SchemaKept'
<1> USE DEF lockedMigrationTx, Goto, project, counts
<1>1. Moves(p) /\ pc'[p] = "begun"
  BY MigrationsAssumption DEF IInv, Domains, Moves
<1> QED BY <1>1, QuietSchema DEF Planned

LEMMA PlanSchema ==
  ASSUME IInv, Typed, SchemaKept, NEW p \in Processes, generateDB(p)
  PROVE  SchemaKept'
<1> USE DEF generateDB, Goto, project, database, counts
<1>1. /\ Moves(p) /\ pc'[p] = "up" /\ schemaLock' = schemaLock
      /\ plan'[p].up = migrationUp(schemaLock, exportSchema)
      /\ plan'[p].schema = exportSchema /\ plan'[p].empty = plan[p].empty
  BY DEF IInv, Domains, Moves
<1>2. /\ Generable(schemaLock, exportSchema) /\ Ordered(exportSchema)
      /\ plan[p].empty => migrationUp(schemaLock, exportSchema) = <<>>
  BY ExportOrders DEF Plannable
<1> HIDE DEF generateDB, Goto, project, database, counts
<1>3. Planned(p)'
  BY <1>1, <1>2 DEF Planned
<1> QED BY <1>1, <1>3, QuietSchema DEF generateDB, project, counts

LEMMA UpSchema ==
  ASSUME IInv, SchemaKept, NEW p \in Processes, WriteUp(p)
  PROVE  SchemaKept'
<1> USE DEF WriteUp, Goto, database, counts
<1> DEFINE v == plan[p].version
<1>1. v \in Nat /\ \A f \in files : f.version \in 1..(v - 1)
  BY Ahead DEF Busy
<1>2. /\ Moves(p) /\ pc[p] = "up" /\ pc'[p] = "down" /\ plan' = plan
      /\ files' = files \cup {UpFile(p)} /\ schemaLock' = schemaLock /\ torn' = torn
  BY DEF IInv, Domains, Moves
<1>3. UpFile(p).version = v
  BY DEF UpFile, File
<1>4. /\ \A w : ~Writing(w)
      /\ \A w : Writing(w)' <=> w = v
  <2>1. \A q \in Processes : q # p => ~Busy(pc'[q])
    BY <1>2, Alone DEF Moves, Busy
  <2> HIDE DEF WriteUp, Goto, database, counts
  <2> QED BY <1>2, <2>1, Alone DEF Writing, Busy
<1> HIDE DEF v, WriteUp, Goto, database, counts
<1>5. \A f \in files : f.version # v
  BY <1>1
<1>6. Settled' = Settled
  BY <1>2, <1>3, <1>4, <1>5 DEF Settled
<1>7. Planned(p)'
  BY <1>2 DEF SchemaKept, Planned
<1> QED BY <1>2, <1>6, <1>7, PlansStay, SchemaStays

\* Both files of a version are there and settle.
LEMMA Settling ==
  ASSUME IInv, Typed, Effects, SchemaKept, NEW p \in Processes, pc[p] \in {"down", "schema"},
         Moves(p), pc'[p] = "idle", torn' = torn,
         files' = files \cup {DownFile(p)}, Directory',
         \A d : Database(d) /\ d.tables = Tables(schemaLock) =>
           /\ Run(plan[p].up, d) # Refused
           /\ Run(plan[p].up, d).tables = Tables(schemaLock')
  PROVE  SchemaKept'
<1> DEFINE v == plan[p].version  K == Settled  A == UpsIn(K)
           d == Ups(A, NoDatabase)[MaxVersion]
<1>1. /\ v \in Nat /\ v \in Versions /\ FilesOf(v) \subseteq {UpFile(p), DownFile(p)}
      /\ UpFile(p) \in files /\ VersionsOf(files) = 1..v /\ Directory
  <2>1. v \in Nat /\ v \in Versions /\ Directory /\ VersionsOf(files) = 1..v
    BY Ahead DEF Busy, IInv, Generator, Versions
  <2>2. FilesOf(v) \subseteq {UpFile(p), DownFile(p)} /\ UpFile(p) \in FilesOf(v)
    BY Ahead DEF Busy
  <2> QED BY <2>1, <2>2 DEF FilesOf
<1>2. /\ UpFile(p).version = v /\ UpFile(p).name = p /\ UpFile(p).direction = "up"
      /\ UpFile(p).content = plan[p].up
      /\ DownFile(p).version = v /\ DownFile(p).name = p /\ DownFile(p).direction = "down"
  BY DEF UpFile, DownFile, File
<1>3. (\A w : Writing(w) <=> w = v) /\ \A w : ~Writing(w)'
  <2>1. \A q \in Processes : q # p => ~Busy(pc'[q])
    BY Alone DEF Moves, Busy
  <2>2. \A w : Writing(w) <=> w = v
    BY Alone DEF Busy
  <2> QED BY <2>1, <2>2 DEF Writing, Busy
<1>4. K = {f \in files : f.version # v} /\ Settled' = K \cup {UpFile(p), DownFile(p)}
  <2>1. K = {f \in files : f.version # v}
    BY <1>3 DEF Settled
  <2>2. Settled' = files'
    BY <1>3 DEF Settled
  <2>3. files = K \cup FilesOf(v)
    BY <2>1 DEF FilesOf
  <2> HIDE DEF K, v
  <2> QED BY <1>1, <2>1, <2>2, <2>3
<1> HIDE DEF v, K
<1>5. \A q \in Processes : Planned(q)'
  <2>1. Planned(p)'
    BY DEF Planned
  <2> QED BY <2>1, PlansStay DEF Busy
<1>6. ASSUME ~torn' PROVE Whole(Settled') /\ Makes(UpsIn(Settled'), schemaLock')
  <2>1. Whole(K) /\ Makes(A, schemaLock) /\ K \subseteq files
    BY <1>4, <1>6 DEF SchemaKept, K
  <2>2. Whole(Settled')
    BY <1>2, <1>4, <2>1 DEF Whole
  <2>3. Before(A, v) /\ UpsForward(A)
    <3>1. OneUp(K) /\ UpsForward(A)
      BY <1>1, <2>1, WholeIsOneUp, UpsInForward DEF Effects
    <3>2. ASSUME NEW w \in VersionsOf(A) PROVE w \in 1..(v - 1)
      <4>1. PICK f \in K : f.version = w
        BY <3>1, UpsInAre
      <4>2. w # v /\ w \in VersionsOf(files)
        BY <1>4, <4>1 DEF VersionsOf
      <4> QED BY <1>1, <4>2
    <3> QED BY <3>1, <3>2, UpsInAre DEF Before
  <2>4. UpsIn(Settled') = A \cup {[version |-> v, up |-> plan[p].up]}
    BY <1>2, <1>4 DEF UpsIn
  <2>5. Database(d) /\ d.tables = Tables(schemaLock)
    <3>1. d # Refused /\ d.tables = Tables(schemaLock)
      BY <2>1 DEF Makes
    <3>2. MaxVersion \in 0..MaxVersion
      BY VersionBound
    <3> QED BY <2>3, <3>1, <3>2, NothingIsADatabase, UpsKeep
  <2> HIDE DEF A
  <2>6. Ups(UpsIn(Settled'), NoDatabase)[MaxVersion] = Run(plan[p].up, d)
    <3> DEFINE up == plan[p].up
    <3>1. UpsIn(Settled') = A \cup {[version |-> v, up |-> up]}
      BY <2>4
    <3>0. v \in Versions /\ Before(A, v)
      BY <1>1, <2>3
    <3> HIDE DEF up
    <3>2. Ups(A \cup {[version |-> v, up |-> up]}, NoDatabase)[MaxVersion]
            = Run(up, Ups(A, NoDatabase)[MaxVersion])
      BY ONLY <3>0, UpsAdd
    <3> QED BY <3>1, <3>2 DEF up
  <2> HIDE DEF d
  <2>7. Run(plan[p].up, d) # Refused /\ Run(plan[p].up, d).tables = Tables(schemaLock')
    BY <2>5
  <2> QED BY <2>2, <2>6, <2>7 DEF Makes
<1>7. ASSUME ~torn' PROVE Whole(Settled)' /\ Makes(UpsIn(Settled), schemaLock)'
  BY <1>6, <1>7 DEF Whole, Makes, UpsIn, Ups, Tables
<1> QED BY <1>5, <1>7 DEF SchemaKept

\* The last file of an empty migration, or of one whose schema is yet to be
\* written.
LEMMA DownSchema ==
  ASSUME IInv, Typed, Effects, SchemaKept, NEW p \in Processes, WriteDown(p)
  PROVE  SchemaKept'
<1>1. /\ pc[p] = "down" /\ files' = files \cup {DownFile(p)} /\ schemaLock' = schemaLock
      /\ torn' = torn
  BY DEF WriteDown, counts
<1>2. Directory'
  BY DownStep DEF IInv
<1>3. CASE plan[p].empty /\ Return(p)
  <2>1. Moves(p) /\ pc'[p] = "idle"
    BY <1>3, Returned DEF IInv
  <2>2. plan[p].up = <<>>
    BY <1>1, <1>3 DEF SchemaKept, Planned
  <2>3. ASSUME NEW d, Database(d), d.tables = Tables(schemaLock)
        PROVE  /\ Run(plan[p].up, d) # Refused
               /\ Run(plan[p].up, d).tables = Tables(schemaLock')
    BY <1>1, <2>2, <2>3, RunNothing, Standing
  <2> QED BY <1>1, <1>2, <2>1, <2>3, Settling
<1>4. CASE Goto(p, "schema") /\ UNCHANGED <<projectLock, plan, loaded, seen, dbLock>>
  <2>1. Moves(p) /\ pc'[p] = "schema" /\ plan' = plan
    BY <1>4 DEF IInv, Domains, Moves, Goto
  <2>2. \A w : /\ Writing(w) <=> w = plan[p].version
               /\ Writing(w)' <=> w = plan[p].version
    <3>1. \A q \in Processes : q # p => ~Busy(pc'[q])
      BY <1>1, <2>1, Alone DEF Moves, Busy
    <3> QED BY <1>1, <2>1, <3>1, Alone DEF Writing, Busy
  <2>3. DownFile(p).version = plan[p].version
    BY DEF DownFile, File
  <2>4. Settled' = Settled
    BY <1>1, <2>2, <2>3 DEF Settled
  <2>5. Planned(p)'
    BY <1>1, <2>1 DEF SchemaKept, Planned
  <2> QED BY <1>1, <2>1, <2>4, <2>5, PlansStay, SchemaStays
<1> QED BY <1>3, <1>4 DEF WriteDown

LEMMA WriteSchemaKept ==
  ASSUME IInv, Typed, Effects, SchemaKept, NEW p \in Processes, writeSchema(p)
  PROVE  SchemaKept'
<1>1. /\ pc[p] = "schema" /\ Return(p) /\ files' = files /\ schemaLock' = plan[p].schema
      /\ torn' = torn
  BY DEF writeSchema, counts
<1>2. Moves(p) /\ pc'[p] = "idle"
  BY <1>1, Returned DEF IInv
<1>3. Directory'
  <2>1. IInv'
    BY EndStep DEF writeSchema, counts
  <2> QED BY <2>1 DEF IInv
<1>4. files' = files \cup {DownFile(p)}
  <2>1. FilesOf(plan[p].version) = {UpFile(p), DownFile(p)}
    BY <1>1, Ahead DEF Busy
  <2> QED BY <1>1, <2>1 DEF FilesOf
<1>5. ASSUME NEW d, Database(d), d.tables = Tables(schemaLock)
      PROVE  /\ Run(plan[p].up, d) # Refused
             /\ Run(plan[p].up, d).tables = Tables(schemaLock')
  <2> DEFINE schema == plan[p].schema
  <2>1. /\ plan[p].up = migrationUp(schemaLock, schema)
        /\ Generable(schemaLock, schema) /\ Ordered(schema)
    BY <1>1 DEF SchemaKept, Planned
  <2> HIDE DEF schema
  <2>2. /\ Database(Run(migrationUp(schemaLock, schema), d))
        /\ Run(migrationUp(schemaLock, schema), d).tables = Tables(schema)
    BY <1>5, <2>1, Generated
  <2> QED BY <1>1, <2>1, <2>2, Standing DEF schema
<1> QED BY <1>1, <1>2, <1>3, <1>4, <1>5, Settling

\* A failing write leaves what was settled.
LEMMA FailSchema ==
  ASSUME IInv, SchemaKept, NEW p \in Processes, WriteFails(p)
  PROVE  SchemaKept'
<1> DEFINE v == plan[p].version
<1>1. /\ v \in Nat
      /\ pc[p] = "up" => \A f \in files : f.version \in 1..(v - 1)
      /\ pc[p] = "down" => FilesOf(v) = {UpFile(p)}
      /\ pc[p] = "schema" => FilesOf(v) = {UpFile(p), DownFile(p)}
  BY Ahead DEF WriteFails, Busy
<1>2. Return(p) /\ files' = files \ Removed(p) /\ pc[p] \in {"up", "down", "schema"}
      /\ schemaLock' = schemaLock /\ torn' = torn
  BY DEF WriteFails
<1>3. Moves(p) /\ pc'[p] = "idle"
  BY <1>2, Returned DEF IInv
<1>4. Removed(p) = FilesOf(v)
  <2>1. /\ UpFile(p).version = v /\ UpFile(p).name = p /\ UpFile(p).direction = "up"
        /\ DownFile(p).version = v /\ DownFile(p).name = p
    BY DEF UpFile, DownFile, File
  <2>2. Removed(p) \subseteq FilesOf(v)
    BY DEF Removed, FilesOf
  <2>3. CASE pc[p] = "up"
    <3>1. \A f \in files : f.version # v
      BY <1>1, <2>3
    <3>2. FilesOf(v) = {}
      BY <3>1 DEF FilesOf
    <3> QED BY <2>2, <3>2
  <2>4. CASE pc[p] = "down"
    <3>1. UpFile(p) \in files
      BY <1>1, <2>4 DEF FilesOf
    <3>2. UpFile(p) \in Removed(p)
      BY <2>1, <3>1 DEF Removed
    <3> QED BY <1>1, <2>2, <2>4, <3>2
  <2>5. CASE pc[p] = "schema"
    <3>1. UpFile(p) \in files /\ DownFile(p) \in files
      BY <1>1, <2>5 DEF FilesOf
    <3>2. UpFile(p) \in Removed(p) /\ DownFile(p) \in Removed(p)
      BY <2>1, <2>5, <3>1 DEF Removed
    <3> QED BY <1>1, <2>2, <2>5, <3>2
  <2> QED BY <1>2, <2>3, <2>4, <2>5
<1>5. \A w : /\ Writing(w) <=> pc[p] \in {"down", "schema"} /\ w = v
             /\ ~Writing(w)'
  <2>1. \A q \in Processes : q # p => ~Busy(pc'[q])
    BY <1>2, <1>3, Alone DEF Moves, Busy
  <2>2. Busy(pc[p])
    BY <1>2 DEF Busy
  <2> QED BY <1>3, <2>1, <2>2, Alone DEF Writing, Busy
<1>6. pc[p] = "up" => \A f \in files : f.version # v
  BY <1>1
<1> HIDE DEF v
<1>7. Settled' = Settled
  BY <1>2, <1>4, <1>5, <1>6 DEF Settled, FilesOf
<1> QED BY <1>2, <1>3, <1>7, PlansStay, SchemaStays DEF Planned

-----------------------------------------------------------------------------
(* The schema lock and the developer.                                      *)

\* The developer's SQL at the end of an up.
Longer(c, new, v) == new = c \/ new = c \o <<custom(v, 1)>>

LEMMA LongerAlike ==
  ASSUME NEW v \in Versions, NEW c, AllForward(c), IsSeq(c), NEW new, Longer(c, new, v),
         NEW d, NEW e, Alike(d, e)
  PROVE  Alike(Run(c, d), Run(new, e))
<1>1. Alike(Run(c, d), Run(c, e))
  BY RunAlike
<1>2. CASE new = c
  BY <1>1, <1>2
<1>3. CASE new = c \o <<custom(v, 1)>>
  <2> DEFINE s == custom(v, 1)  S == ToSet(c) \cup {s}  a == <<s>>
  <2>1. IsCustom(s)
    BY Customs
  <2> HIDE DEF s
  <2>2. c \in Seq(S) /\ a \in Seq(S)
    <3>1. c \in Seq(ToSet(c))
      BY DEF IsSeq
    <3> QED BY <3>1
  <2> HIDE DEF S, a
  <2>3. Run(c \o a, e) = Run(a, Run(c, e))
    BY <2>2, RunConcat
  <2>4. Run(new, e) = Try(s, Run(c, e))
    BY <1>3, <2>3, RunOne DEF a, s
  <2> DEFINE x == Run(c, e)
  <2>5. State(x)
    BY <1>1 DEF Alike
  <2> HIDE DEF x
  <2>6. Alike(x, Try(s, x))
    BY <2>1, <2>5, CustomAlike
  <2> QED BY <1>1, <2>4, <2>6, AlikeThen DEF x
<1> QED BY <1>2, <1>3 DEF Longer

\* Contents change where they are, ups by the developer's SQL at their end.
LEMMA EditSchema ==
  ASSUME IInv, Effects, SchemaKept, Directory', UNCHANGED <<schemaLock, pc, plan, torn>>,
         NEW New, files' = {New[f] : f \in files},
         \A f \in files : /\ New[f].version = f.version /\ New[f].name = f.name
                          /\ New[f].direction = f.direction,
         ~torn => \A f \in Settled : f.direction = "up" =>
                    Longer(f.content, New[f].content, f.version)
  PROVE  SchemaKept'
<1> DEFINE K == Settled  R == {New[f] : f \in K}
<1>1. Settled' = R
  <2>1. \A w : Writing(w)' <=> Writing(w)
    BY DEF Writing
  <2> QED BY <2>1 DEF Settled
<1>2. K \subseteq files /\ R \subseteq files' /\ Directory
  BY DEF Settled, IInv
<1>3. ASSUME ~torn PROVE Whole(R) /\ Makes(UpsIn(R), schemaLock)
  <2>1. Whole(K) /\ Makes(UpsIn(K), schemaLock)
    BY <1>3 DEF SchemaKept
  <2> HIDE DEF K
  <2>2. Whole(R)
    BY <1>2, <2>1 DEF Whole
  <2>3. OneUp(K)
    BY <1>2, <2>1, WholeIsOneUp
  <2>4. OneUp(R)
    BY <1>2, <2>3 DEF OneUp
  <2> DEFINE A == UpsIn(K)  B == UpsIn(R)
  <2> HIDE DEF R
  <2>5. UpsForward(A)
    BY <1>2, <2>1, UpsInForward DEF Effects
  <2>6. ASSUME NEW v \in Versions, NEW d, NEW e, Alike(d, e)
        PROVE  Alike(Upgraded(A, v, d), Upgraded(B, v, e))
    <3>1. CASE v \in VersionsOf(A)
      <4>1. PICK f \in K : f.direction = "up" /\ f.version = v
        BY <2>3, <3>1, UpsInAre
      <4> DEFINE c == f.content  new == New[f].content
      <4>2. UpOf(A, v) = c /\ v \in VersionsOf(B) /\ UpOf(B, v) = new
        <5>1. New[f] \in R /\ New[f].direction = "up" /\ New[f].version = v
          BY <1>2, <4>1 DEF R
        <5>2. UpOf(A, v) = c
          BY <2>3, <4>1, UpsInAre
        <5>3. v \in VersionsOf(B) /\ UpOf(B, v) = new
          BY <2>4, <5>1, UpsInAre
        <5> QED BY <5>2, <5>3
      <4>3. Longer(c, new, v) /\ AllForward(c) /\ IsSeq(c)
        <5>1. Longer(c, new, v)
          BY <1>3, <4>1 DEF K
        <5>2. AllForward(c)
          BY <2>5, <3>1, <4>2 DEF UpsForward
        <5>3. IsSeq(c)
          <6>1. PICK g \in K : g.version = f.version /\ g.direction # f.direction
            BY <2>1, <4>1 DEF Whole
          <6>2. g.direction = "down"
            BY <1>2, <4>1, <6>1 DEF Directory, IsFile
          <6> DEFINE down == g.content
          <6>3. Pair(c, down, v)
            BY <1>2, <4>1, <6>1, <6>2 DEF Effects, PairedFiles
          <6> HIDE DEF c, down
          <6> QED BY <6>3, PairForward
        <5> QED BY <5>1, <5>2, <5>3
      <4> HIDE DEF c, new, A, B
      <4>4. Alike(Run(c, d), Run(new, e))
        BY <2>6, <4>3, LongerAlike
      <4> QED BY <3>1, <4>2, <4>4 DEF Upgraded
    <3>2. CASE v \notin VersionsOf(A)
      <4>1. v \notin VersionsOf(B)
        <5>1. ASSUME v \in VersionsOf(B) PROVE FALSE
          <6>1. PICK g \in R : g.direction = "up" /\ g.version = v
            BY <2>4, <5>1, UpsInAre
          <6>2. PICK f \in K : g = New[f]
            BY <6>1 DEF R
          <6>3. f.direction = "up" /\ f.version = v
            BY <1>2, <6>1, <6>2
          <6> QED BY <2>3, <3>2, <6>3, UpsInAre
        <5> QED BY <5>1
      <4> HIDE DEF A, B
      <4> QED BY <2>6, <3>2, <4>1 DEF Upgraded
    <3> QED BY <3>1, <3>2
  <2>7. SameTables(A, B)
    BY <2>6 DEF SameTables
  <2>8. Alike(Ups(A, NoDatabase)[MaxVersion], Ups(B, NoDatabase)[MaxVersion])
    <3>1. MaxVersion \in 0..MaxVersion /\ State(NoDatabase)
      BY VersionBound, NothingIsADatabase DEF State
    <3> HIDE DEF A, B
    <3> QED BY <2>7, <3>1, UpsAlike
  <2> QED BY <2>1, <2>2, <2>8 DEF Alike, Makes
<1>4. ASSUME ~torn' PROVE Whole(Settled)' /\ Makes(UpsIn(Settled), schemaLock)'
  <2> HIDE DEF R
  <2>1. Whole(Settled') /\ Makes(UpsIn(Settled'), schemaLock')
    BY <1>1, <1>3, <1>4
  <2> QED BY <2>1 DEF Whole, Makes, UpsIn, Ups, Tables
<1>5. \A p \in Processes : Planned(p)'
  BY DEF SchemaKept, Planned
<1> QED BY <1>4, <1>5 DEF SchemaKept

LEMMA WriteSQLSchema ==
  ASSUME IInv, Effects, SchemaKept, NEW f \in files, WriteSQL(f)
  PROVE  SchemaKept'
<1> DEFINE new == [f EXCEPT !.content = <<custom(f.version, IF f.direction = "up" THEN 1 ELSE -1)>>]
           New == [g \in files |-> IF g = f THEN new ELSE g]
<1>1. /\ f.content = <<>> /\ files' = (files \ {f}) \cup {new}
      /\ UNCHANGED <<schemaLock, pc, plan, torn>>
  BY DEF WriteSQL
<1>2. /\ new.version = f.version /\ new.name = f.name /\ new.direction = f.direction
      /\ f.direction = "up" => new.content = <<custom(f.version, 1)>>
  BY DEF IInv, Directory, IsFile, File
<1>3. <<custom(f.version, 1)>> = <<>> \o <<custom(f.version, 1)>>
  OBVIOUS
<1>4. f.direction = "up" => Longer(f.content, new.content, f.version)
  BY <1>1, <1>2, <1>3 DEF Longer
<1> HIDE DEF new
<1>5. files' = {New[g] : g \in files}
  BY <1>1
<1>6. \A g \in files : /\ New[g].version = g.version /\ New[g].name = g.name
                       /\ New[g].direction = g.direction
  BY <1>2
<1>7. \A g \in Settled : g.direction = "up" => Longer(g.content, New[g].content, g.version)
  BY <1>4 DEF Settled, Longer
<1>8. Directory'
  BY WriteSQLStep DEF IInv
<1> HIDE DEF New
<1> QED BY <1>1, <1>5, <1>6, <1>7, <1>8, EditSchema

LEMMA ModifySchema ==
  ASSUME IInv, Effects, SchemaKept, NEW v \in Versions, ModifyPair(v)
  PROVE  SchemaKept'
<1> DEFINE Changed(f) == [f EXCEPT !.content = IF f.direction = "up" THEN Append(@, custom(v, 1))
                                               ELSE <<custom(v, -1)>> \o @]
           New == [g \in files |-> IF g.version = v THEN Changed(g) ELSE g]
<1>1. /\ files' = {f \in files : f.version # v} \cup
                    {Changed(f) : f \in {g \in files : g.version = v}}
      /\ UNCHANGED <<schemaLock, pc, plan, torn>>
  BY DEF ModifyPair
<1>2. ASSUME NEW f \in files
      PROVE  /\ Changed(f).version = f.version /\ Changed(f).name = f.name
             /\ Changed(f).direction = f.direction
             /\ f.direction = "up" => Changed(f).content = Append(f.content, custom(v, 1))
  BY DEF IInv, Directory, IsFile, File
<1> HIDE DEF Changed
<1>3. files' = {New[g] : g \in files}
  BY <1>1
<1>4. Directory'
  BY ModifyStep DEF IInv
<1>5. ASSUME ~torn, NEW f \in Settled, f.direction = "up"
      PROVE  Longer(f.content, New[f].content, f.version)
  <2>1. f \in files /\ f.version \in Versions
    BY DEF Settled, IInv, Directory, IsFile
  <2>2. CASE f.version = v
    <3> DEFINE c == f.content  s == custom(v, 1)
    <3>1. IsSeq(c)
      <4>1. PICK g \in Settled : g.version = f.version /\ g.direction # f.direction
        BY <1>5 DEF SchemaKept, Whole
      <4>2. g \in files /\ g.direction = "down"
        BY <1>5, <4>1 DEF Settled, IInv, Directory, IsFile
      <4> DEFINE down == g.content
      <4>3. Pair(c, down, v)
        BY <1>5, <2>1, <2>2, <4>1, <4>2 DEF Effects, PairedFiles
      <4> HIDE DEF c, down
      <4> QED BY <4>3, PairForward
    <3>2. New[f].content = Append(c, s)
      BY <1>2, <1>5, <2>1, <2>2
    <3> HIDE DEF c, s
    <3>3. Append(c, s) = c \o <<s>>
      <4> DEFINE S == ToSet(c) \cup {s}
      <4>1. c \in Seq(S) /\ s \in S
        <5>1. c \in Seq(ToSet(c))
          BY <3>1 DEF IsSeq
        <5> QED BY <5>1
      <4> HIDE DEF S
      <4> QED BY <4>1
    <3> QED BY <2>2, <3>2, <3>3 DEF Longer, c, s
  <2>3. CASE f.version # v
    BY <2>1, <2>3 DEF Longer
  <2> QED BY <2>2, <2>3
<1>6. \A f \in files : /\ New[f].version = f.version /\ New[f].name = f.name
                       /\ New[f].direction = f.direction
  BY <1>2
<1> HIDE DEF New
<1> QED BY <1>1, <1>3, <1>4, <1>5, <1>6, EditSchema

-----------------------------------------------------------------------------
(* The files make the schema lock.                                         *)

LEMMA SchemaInitially == Init => SchemaKept
<1> SUFFICES ASSUME Init PROVE SchemaKept
  OBVIOUS
<1>1. Settled = {} /\ UpsIn({}) = {} /\ VersionsOf({}) = {}
  BY DEF Init, Settled, UpsIn, VersionsOf
<1>2. Ups({}, NoDatabase)[MaxVersion] = NoDatabase
  BY NothingToRun
<1>3. Tables(schemaLock) = {}
  BY DEF Init, Tables, emptySchema, ToSet
<1>4. Makes({}, schemaLock)
  <2>1. NoDatabase.tables = {}
    BY DEF NoDatabase
  <2> QED BY <1>2, <1>3, <2>1, NothingIsADatabase, Standing DEF Makes
<1> QED BY <1>1, <1>4 DEF Init, SchemaKept, Planned, Whole

LEMMA SchemaInductive == IInv /\ Typed /\ Effects /\ SchemaKept /\ [Next]_vars => SchemaKept'
<1> SUFFICES ASSUME IInv, Typed, Effects, SchemaKept, [Next]_vars PROVE SchemaKept'
  OBVIOUS
<1>1. ASSUME NEW p \in Processes, Step(p) PROVE SchemaKept'
  <2>1. CASE \E empty \in BOOLEAN : lockDatabaseProject(p, empty)
    BY <2>1, LockSchema
  <2>2. CASE generateDB(p)
    BY <2>2, PlanSchema
  <2>3. CASE GenerateRefuses(p) \/ Fails(p) \/ migrate(p) \/ rollback(p)
    BY <2>3, EndSchema DEF GenerateRefuses, Fails, migrate, rollback, counts
  <2>4. CASE WriteUp(p)
    BY <2>4, UpSchema
  <2>5. CASE WriteDown(p)
    BY <2>5, DownSchema
  <2>6. CASE writeSchema(p)
    BY <2>6, WriteSchemaKept
  <2>7. CASE WriteFails(p)
    BY <2>7, FailSchema
  <2>11. CASE RemoveFails(p)
    <3>1. torn' /\ Moves(p) /\ pc'[p] = "idle" /\ schemaLock' = schemaLock
      BY <2>11, Returned DEF RemoveFails, IInv
    <3>2. \A q \in Processes : Planned(q)'
      BY <3>1, PlansStay DEF Planned
    <3> QED BY <3>1, <3>2 DEF SchemaKept
  <2>8. CASE \E operation \in {"migrate", "rollback"} : Load(p, operation)
    BY <2>8, LoadSchema
  <2>9. CASE lockedMigrationTx(p)
    BY <2>9, BeginSchema
  <2>10. CASE Killed(p)
    <3>1. CASE pc[p] \in {"down", "schema"}
      <4>1. torn' /\ Moves(p) /\ pc'[p] = "idle" /\ schemaLock' = schemaLock
        BY <2>10, <3>1, Returned DEF Killed, IInv
      <4>2. \A q \in Processes : Planned(q)'
        BY <4>1, PlansStay DEF Planned
      <4> QED BY <4>1, <4>2 DEF SchemaKept
    <3>2. CASE pc[p] \notin {"down", "schema"}
      BY <2>10, <3>2, EndSchema DEF Killed
    <3> QED BY <3>1, <3>2
  <2> QED BY <1>1, <2>1, <2>2, <2>3, <2>4, <2>5, <2>6, <2>7, <2>8, <2>9, <2>10, <2>11 DEF Step
<1>2. ASSUME UNCHANGED <<files, schemaLock, pc, plan, torn>> PROVE SchemaKept'
  <2>1. Settled' = Settled /\ \A p \in Processes : Planned(p)'
    BY <1>2 DEF Settled, Writing, SchemaKept, Planned
  <2> QED BY <1>2, <2>1, SchemaStays
<1>3. CASE RegisterModels
  BY <1>2, <1>3 DEF RegisterModels, counts
<1>4. CASE \E f \in files : WriteSQL(f)
  BY <1>4, WriteSQLSchema
<1>5. CASE \E v \in Versions : ModifyPair(v)
  BY <1>5, ModifySchema
<1>6. CASE UNCHANGED vars
  BY <1>2, <1>6 DEF vars, project, counts
<1> QED BY <1>1, <1>3, <1>4, <1>5, <1>6 DEF Next

\* The list that migrate would read makes what its ups make.
LEMMA ListMakes ==
  ASSUME Directory, Whole(files), Loadable
  PROVE  Ups(loadMigrations, NoDatabase) = Ups(UpsIn(files), NoDatabase)
<1> DEFINE L == loadMigrations  A == UpsIn(files)
           f == Ups(L, NoDatabase)  g == Ups(A, NoDatabase)
<1>1. /\ VersionsOf(L) = VersionsOf(files)
      /\ \A m, n \in L : m.version = n.version => m = n
      /\ \A m \in L : Kept(m.version, m.name, m.up, m.down)
  BY Listed
<1>2. OneUp(files)
  BY WholeIsOneUp
<1> HIDE DEF L, A
<1>3. ASSUME NEW v \in Versions, NEW e PROVE Upgraded(L, v, e) = Upgraded(A, v, e)
  <2>1. CASE v \in VersionsOf(L)
    <3>1. PICK m \in L : m.version = v
      BY <2>1 DEF VersionsOf
    <3>2. PICK h \in files : h.version = v /\ h.direction = "up" /\ h.content = m.up
      <4>1. Kept(v, m.name, m.up, m.down)
        BY <1>1, <3>1
      <4> QED BY <4>1 DEF Kept
    <3>3. UpOf(L, m.version) = m.up
      BY <1>1, UpIs
    <3>4. v \in VersionsOf(A) /\ UpOf(A, v) = m.up
      BY <1>2, <3>2, UpsInAre DEF A
    <3> QED BY <2>1, <3>1, <3>3, <3>4 DEF Upgraded
  <2>2. CASE v \notin VersionsOf(L)
    <3>1. v \notin VersionsOf(A)
      <4>1. \A w \in VersionsOf(A) : \E h \in files : h.version = w
        BY <1>2, UpsInAre DEF A
      <4> QED BY <1>1, <2>2, <4>1 DEF VersionsOf
    <3> QED BY <2>2, <3>1 DEF Upgraded
  <2> QED BY <2>1, <2>2
<1>4. Replay(L, NoDatabase, f) /\ Replay(A, NoDatabase, g)
  BY UpsReplay
<1> HIDE DEF f, g
<1>5. \A v \in 0..MaxVersion : f[v] = g[v]
  <2>1. /\ MaxVersion \in 0..MaxVersion
        /\ \A v \in 1..MaxVersion : \A e : Upgraded(L, v, e) = Upgraded(A, v, e)
    BY <1>3, VersionBound
  <2> QED BY <1>4, <2>1, ReplaysAgree
<1>6. f = g
  BY <1>4, <1>5 DEF Replay
<1> QED BY <1>6 DEF f, g, L, A

\* Replayed on an empty database, the files make exactly the tables of the
\* schema lock, and the down of each takes the database back to where its up
\* started, unless a generate was killed between two of its files
\* (database.go:253-260, schema.go:94-170).
THEOREM FilesStaySchemaLock == Spec => []FilesMakeSchemaLock
<1>1. IInv /\ Effects /\ SchemaKept => FilesMakeSchemaLock
  <2> SUFFICES ASSUME IInv, Effects, SchemaKept, ~torn, ~Generating PROVE FilesMakeSchemaLock
    BY DEF FilesMakeSchemaLock
  <2> DEFINE L == loadMigrations  upTo == Ups(L, NoDatabase)
  <2>1. Settled = files
    BY DEF Generating, Settled, Writing
  <2>2. Whole(files) /\ Makes(UpsIn(files), schemaLock) /\ Directory
    BY <2>1 DEF SchemaKept, IInv
  <2>3. Loadable
    BY <2>2 DEF Loadable, Whole
  <2>4. upTo[MaxVersion] # Refused /\ upTo[MaxVersion].tables = Tables(schemaLock)
    BY <2>2, <2>3, ListMakes DEF Makes
  <2>5. /\ VersionsOf(L) \subseteq Versions
        /\ \A m, n \in L : m.version = n.version => m = n
        /\ \A m \in L : Pair(m.up, m.down, m.version)
    <3>1. /\ VersionsOf(L) = VersionsOf(files)
          /\ \A m, n \in L : m.version = n.version => m = n
          /\ \A m \in L : Kept(m.version, m.name, m.up, m.down)
      BY <2>2, <2>3, Listed
    <3>2. VersionsOf(files) \subseteq Versions
      BY <2>2 DEF Directory, IsFile, VersionsOf
    <3> HIDE DEF L
    <3>3. \A m \in L : Pair(m.up, m.down, m.version)
      BY <3>1 DEF Kept, Effects, PairedFiles
    <3> QED BY <3>1, <3>2, <3>3
  <2> HIDE DEF L
  <2>6. \A m \in L : m.version \in Versions /\ UpOf(L, m.version) = m.up
    BY <2>5, UpIs DEF VersionsOf
  <2>7. UpsForward(L)
    <3>1. ASSUME NEW v \in VersionsOf(L) PROVE AllForward(UpOf(L, v))
      <4>1. PICK m \in L : m.version = v
        BY DEF VersionsOf
      <4> DEFINE up == m.up  down == m.down
      <4>2. Pair(up, down, v) /\ v \in Versions /\ UpOf(L, v) = up
        BY <2>5, <2>6, <4>1
      <4> HIDE DEF up, down
      <4> QED BY <4>2, PairForward
    <3> QED BY <3>1 DEF UpsForward
  <2>8. ASSUME NEW m \in L, m.up # <<>>, m.down # <<>>
        PROVE  Run(m.down, upTo[m.version]) = upTo[m.version - 1]
    <3> DEFINE up == m.up  down == m.down  v == m.version  before == upTo[v - 1]
    <3>1. v \in Versions /\ UpOf(L, v) = up /\ v \in VersionsOf(L)
      BY <2>6 DEF VersionsOf
    <3>2. v \in 0..MaxVersion /\ v - 1 \in 0..MaxVersion
      BY <3>1, VersionBound
    <3>3. Mirrored(up, down)
      <4>1. Pair(up, down, v) /\ up # <<>> /\ down # <<>>
        BY <2>5, <2>8
      <4> HIDE DEF up, down, v
      <4> QED BY <3>1, <4>1, PairWritten
    <3>4. upTo[v] = Run(up, before)
      <4>1. Replay(L, NoDatabase, upTo)
        BY UpsReplay
      <4>2. upTo[v] = Upgraded(L, v, before)
        BY <3>1, <4>1 DEF Replay
      <4> QED BY <3>1, <4>2 DEF Upgraded
    <3>5. Database(before) /\ upTo[v] # Refused
      <4>1. upTo[v] # Refused /\ before # Refused
        BY <2>4, <2>7, <3>2, UpsStand
      <4> QED BY <2>7, <3>2, <4>1, NothingIsADatabase, UpsKeep
    <3> HIDE DEF up, down, v, before, upTo
    <3>6. Run(down, Run(up, before)) = before
      BY <3>3, <3>4, <3>5, RunBack
    <3> QED BY <3>4, <3>6 DEF down, before, v
  <2> QED BY <2>3, <2>4, <2>8 DEF FilesMakeSchemaLock, L
<1> QED BY <1>1, Initial, Inductive, TypedInitially, TypedInductive, EffectsInitially,
           EffectsInductive, SchemaInitially, SchemaInductive, PTL DEF Spec
=============================================================================
