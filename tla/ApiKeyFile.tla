----------------------------- MODULE ApiKeyFile -----------------------------
(***************************************************************************)
(* The API key file (core/http/plugins/apikey/file.go) under concurrent    *)
(* godo commands, failing system calls, killed processes and power loss.   *)
(*                                                                         *)
(* A process is one command: auth init, auth create or auth revoke         *)
(* (cli/godo/auth.go).  file is what a reader finds now; disk is the set   *)
(* of contents it may find after a power loss: everything the path held    *)
(* since its directory was last synced.  A key is named by its id and the  *)
(* process that created it.                                                *)
(***************************************************************************)
EXTENDS Integers, FiniteSets

CONSTANTS
  Processes, NoProcess,
  MaxInt,          \* the largest NextID
  MaxPowerLosses   \* bound on the power losses of a run

ASSUME ApiKeyAssumption ==
  /\ NoProcess \notin Processes
  /\ MaxInt \in Nat \ {0} /\ MaxPowerLosses \in Nat

VARIABLES
  file, disk,
  lock,         \* holder of the flock on path.lock
  pc, target,   \* per process; target: the id to revoke
  registry,     \* per process: the file as it was read
  powerLosses,
  shown,        \* history: keys whose secret was shown
  revoked,      \* history: keys whose revocation was reported
  dropped       \* history: ids issued by a file that a failing InitFile removed

history == <<shown, revoked, dropped>>
vars == <<file, disk, lock, pc, target, registry, powerLosses, history>>

-----------------------------------------------------------------------------

Ids == 1..(MaxInt - 1)
Key == [id : Ids, by : Processes]
Registry == [state : {"whole"}, nextID : 1..MaxInt, keys : SUBSET Key]

\* No file, or one that does not decode: InitFile has not written it yet, or
\* its data never reached the disk.
Absent == [state |-> "absent"]
Torn(p) == [state |-> "torn", by |-> p]
Content == Registry \cup {Absent} \cup {Torn(p) : p \in Processes}

newRegistry == [state |-> "whole", nextID |-> 1, keys |-> {}]

Locations == {"idle", "opened", "written", "synced",        \* InitFile
              "lock", "read", "temporary", "rename", "dirsync",
              "display", "done"}

Init ==
  /\ file = Absent /\ disk = {Absent}
  /\ lock = NoProcess
  /\ pc = [p \in Processes |-> "idle"]
  /\ target = [p \in Processes |-> 0]
  /\ registry = [p \in Processes |-> Absent]
  /\ powerLosses = 0
  /\ shown = {} /\ revoked = {} /\ dropped = {}

Goto(p, l) == pc' = [pc EXCEPT ![p] = l] /\ UNCHANGED registry

\* The command ends; what it has read is forgotten.
Return(p) == pc' = [pc EXCEPT ![p] = "done"] /\ registry' = [registry EXCEPT ![p] = Absent]

\* The path holds c from now on; until the directory is synced a power loss
\* may bring back anything it held before.
Becomes(c) == file' = c /\ disk' = disk \cup {c}

-----------------------------------------------------------------------------
(* InitFile: created empty under its final name, not locked.               *)

InitOpens(p) ==
  /\ pc[p] = "idle"
  /\ \/ file = Absent /\ Becomes(Torn(p)) /\ Goto(p, "opened")
     \/ file # Absent /\ Return(p) /\ UNCHANGED <<file, disk>>
  /\ UNCHANGED <<lock, target, powerLosses, history>>

\* After another InitFile has failed and removed the file, the path may name
\* the one that a command which had read the old file has renamed there.
InitWrites(p) ==
  /\ pc[p] = "opened" /\ Goto(p, "written")
  /\ IF file = Torn(p) THEN Becomes(newRegistry) ELSE UNCHANGED <<file, disk>>
  /\ UNCHANGED <<lock, target, powerLosses, history>>

InitSyncs(p) ==
  /\ pc[p] = "written" /\ Goto(p, "synced")
  /\ disk' = disk \ {Torn(p)}
  /\ UNCHANGED <<file, lock, target, powerLosses, history>>

\* Write, Sync or Close fails: whatever the path names now is removed, which
\* may be the file another command has renamed there.
InitFails(p) ==
  /\ pc[p] \in {"opened", "written", "synced"} /\ Return(p)
  /\ Becomes(Absent)
  /\ dropped' = dropped \cup (IF file.state = "whole" THEN 1..(file.nextID - 1) ELSE {})
  /\ UNCHANGED <<lock, target, powerLosses, shown, revoked>>

InitSyncsDirectory(p) ==
  /\ pc[p] = "synced" /\ Return(p)
  /\ disk' \in {{file}, disk}    \* done, or reported as failed
  /\ UNCHANGED <<file, lock, target, powerLosses, history>>

-----------------------------------------------------------------------------
(* CreateKeyWithScopes and RevokeKey.                                      *)

StartCreate(p) ==
  /\ pc[p] = "idle" /\ Goto(p, "lock")
  /\ UNCHANGED <<file, disk, lock, target, powerLosses, history>>

StartRevoke(p) ==
  /\ pc[p] = "idle" /\ Goto(p, "lock")
  /\ \E id \in Ids : target' = [target EXCEPT ![p] = id]
  /\ UNCHANGED <<file, disk, lock, powerLosses, history>>

\* FAULT: the lock is not exclusive.
lockKeyFileShared(p) ==
  /\ pc[p] = "lock" /\ Goto(p, "read")
  /\ lock' = p
  /\ UNCHANGED <<file, disk, target, powerLosses, history>>

lockKeyFile(p) ==
  /\ pc[p] = "lock" /\ lock = NoProcess
  /\ lock' = p /\ Goto(p, "read")
  /\ UNCHANGED <<file, disk, target, powerLosses, history>>

unlock(p) == lock' = IF lock = p THEN NoProcess ELSE lock

Creates(p) == target[p] = 0

\* FAULT: the id after the greatest one in use is taken, next_id is ignored.
withKeyAfterGreatest(p, r) ==
  LET id == 1 + Cardinality(r.keys)
  IN  [r EXCEPT !.nextID = id + 1, !.keys = @ \cup {[id |-> id, by |-> p]}]

\* The registry a command writes, from the one it has read.
withKey(p, r) ==
  [r EXCEPT !.nextID = @ + 1, !.keys = @ \cup {[id |-> r.nextID, by |-> p]}]

KeysWithID(r, id) == {k \in r.keys : k.id = id}

withoutKey(r, id) == [r EXCEPT !.keys = @ \ KeysWithID(r, id)]

Changed(p) ==
  IF Creates(p) THEN withKey(p, registry[p]) ELSE withoutKey(registry[p], target[p])

\* What readKeyFile accepts: ids that are positive, different, below next_id.
Accepted(c) ==
  /\ c.state = "whole" /\ c.nextID >= 1
  /\ \A k \in c.keys : k.id \in 1..(c.nextID - 1) /\ KeysWithID(c, k.id) = {k}

\* FAULT: the id space is taken to be endless.
PossibleForever(p) ==
  Accepted(file) /\ (Creates(p) \/ KeysWithID(file, target[p]) # {})

Possible(p) ==
  /\ Accepted(file)
  /\ IF Creates(p) THEN file.nextID < MaxInt
                   ELSE KeysWithID(file, target[p]) # {}

readKeyFile(p) ==
  /\ pc[p] = "read" /\ Possible(p)
  /\ registry' = [registry EXCEPT ![p] = file]
  /\ pc' = [pc EXCEPT ![p] = "temporary"]
  /\ UNCHANGED <<file, disk, lock, target, powerLosses, history>>

\* The file does not decode, ids are exhausted, or the id does not exist.
Refuse(p) ==
  /\ pc[p] = "read" /\ ~Possible(p)
  /\ unlock(p) /\ Return(p)
  /\ UNCHANGED <<file, disk, target, powerLosses, history>>

\* The temporary file is written and synced before it gets the final name.
WriteTemporary(p) ==
  /\ pc[p] = "temporary" /\ Goto(p, "rename")
  /\ UNCHANGED <<file, disk, lock, target, powerLosses, history>>

Rename(p) ==
  /\ pc[p] = "rename" /\ Goto(p, "dirsync")
  /\ Becomes(Changed(p))
  /\ UNCHANGED <<lock, target, powerLosses, history>>

\* What the command tells its user once it has succeeded.
Reports(p) ==
  IF Creates(p) THEN Goto(p, "display") /\ UNCHANGED revoked
  ELSE Return(p) /\ revoked' = revoked \cup KeysWithID(registry[p], target[p])

\* FAULT: the directory is not synced after the rename.
SyncDirectoryNever(p) ==
  /\ pc[p] = "dirsync"
  /\ unlock(p) /\ Reports(p)
  /\ UNCHANGED <<file, disk, target, powerLosses, shown, dropped>>

syncDirectory(p) ==
  /\ pc[p] = "dirsync"
  /\ disk' = {file}
  /\ unlock(p) /\ Reports(p)
  /\ UNCHANGED <<file, target, powerLosses, shown, dropped>>

\* A system call of writeKeyFile fails; after the rename the change stays.
WriteFails(p) ==
  /\ pc[p] \in {"temporary", "rename", "dirsync"}
  /\ unlock(p) /\ Return(p)
  /\ UNCHANGED <<file, disk, target, powerLosses, history>>

-----------------------------------------------------------------------------
(* createAuthKey: the secret is shown once, or the key is revoked again.   *)

Created(p) == CHOOSE k \in Changed(p).keys : k.by = p

Display(p) ==
  /\ pc[p] = "display" /\ Return(p)
  /\ shown' = shown \cup {Created(p)}
  /\ UNCHANGED <<file, disk, lock, target, powerLosses, revoked, dropped>>

DisplayFails(p) ==
  /\ pc[p] = "display" /\ Goto(p, "lock")
  /\ target' = [target EXCEPT ![p] = Created(p).id]
  /\ UNCHANGED <<file, disk, lock, powerLosses, history>>

-----------------------------------------------------------------------------
(* The machine.                                                            *)

\* The process is killed; the kernel drops its lock, a temporary file stays.
Killed(p) ==
  /\ pc[p] \notin {"idle", "done"} /\ Return(p)
  /\ unlock(p)
  /\ UNCHANGED <<file, disk, target, powerLosses, history>>

PowerLoss ==
  /\ powerLosses < MaxPowerLosses /\ powerLosses' = powerLosses + 1
  /\ file' \in disk /\ disk' = {file'}
  /\ lock' = NoProcess
  /\ pc' = [p \in Processes |-> IF pc[p] = "idle" THEN "idle" ELSE "done"]
  /\ registry' = [p \in Processes |-> Absent]
  /\ UNCHANGED <<target, history>>

Step(p) ==
  \/ InitOpens(p) \/ InitWrites(p) \/ InitSyncs(p) \/ InitFails(p) \/ InitSyncsDirectory(p)
  \/ StartCreate(p) \/ StartRevoke(p) \/ lockKeyFile(p) \/ readKeyFile(p) \/ Refuse(p)
  \/ WriteTemporary(p) \/ Rename(p) \/ syncDirectory(p) \/ WriteFails(p)
  \/ Display(p) \/ DisplayFails(p) \/ Killed(p)

Next == PowerLoss \/ \E p \in Processes : Step(p)

Spec == Init /\ [][Next]_vars

-----------------------------------------------------------------------------
(* Properties.                                                             *)

TypeOK ==
  /\ file \in Content /\ disk \subseteq Content /\ file \in disk
  /\ lock \in Processes \cup {NoProcess}
  /\ pc \in [Processes -> Locations]
  /\ target \in [Processes -> Ids \cup {0}]
  /\ registry \in [Processes -> Registry \cup {Absent}]
  /\ powerLosses \in 0..MaxPowerLosses
  /\ shown \subseteq Key /\ revoked \subseteq Key /\ dropped \subseteq Ids

KeysIn(c) == IF c.state = "whole" THEN c.keys ELSE {}

\* Somebody has asked for the key to go, whether or not it was reported.
Revoking(id) == \E p \in Processes : target[p] = id

\* A key whose secret was shown can be used from then on, now and after any
\* power loss, until somebody revokes it: no lost update between commands, no
\* lost rename.  The one exception is a file that a failing InitFile removes
\* although another command has already replaced it (lines 113-121).
ShownKeysSurvive ==
  \A k \in shown : k.id \notin dropped /\ ~Revoking(k.id) =>
    \A c \in disk : k \in KeysIn(c)

\* A revocation that was reported is final: the key is in no file that is read
\* from then on, also after a power loss (docs/http-apikey.md:179-180).
RevokedStaysRevoked ==
  \A k \in revoked : \A c \in disk : k \notin KeysIn(c)

\* No two keys that were shown or revoked have the same id, so that a
\* revocation means one key and an id never comes back for another one, not
\* even after a power loss (docs/http-apikey.md:180-181); the exception is
\* again a file that a failing InitFile has removed.
IdsAreUnique ==
  \A j, k \in shown \cup revoked : j.id = k.id => j = k \/ j.id \in dropped
=============================================================================
