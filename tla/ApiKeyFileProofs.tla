-------------------------- MODULE ApiKeyFileProofs --------------------------
(***************************************************************************)
(* Proofs about the API key file, for any number of commands, ids and      *)
(* power losses.                                                           *)
(***************************************************************************)
EXTENDS ApiKeyFile, TLAPS

-----------------------------------------------------------------------------
(* The inductive invariant.                                                *)

\* The processes that hold a registry they have read under the lock.
Held == {p \in Processes : pc[p] \in {"temporary", "rename", "dirsync"}}

\* The lock is exclusive, and kept while a registry is held.
Locked ==
  \A p \in Processes : pc[p] \in {"read", "temporary", "rename", "dirsync"} => lock = p

\* What a holder, or a command about to show its key, has read.
Readings ==
  \A p \in Processes : pc[p] \in {"temporary", "rename", "dirsync", "display"} =>
    /\ registry[p] \in Registry /\ Accepted(registry[p])
    /\ Creates(p) => registry[p].nextID < MaxInt
    /\ pc[p] = "display" => Creates(p)

\* A process that has written its file does not find it torn.
Initialized == \A p \in Processes : pc[p] \in {"written", "synced"} => file # Torn(p)

\* The key that a creation adds, and the keys whose id somebody knows or is
\* about to be told.
NewKey(p) == [id |-> registry[p].nextID, by |-> p]
Pending == {p \in Processes : pc[p] = "display"}
Issued == shown \cup revoked \cup {NewKey(p) : p \in Pending}

\* The contents from which the file of tomorrow can come.
Sources == disk \cup {registry[p] : p \in Held}

\* A process that cannot add a key any more.
Past(p) == pc[p] \in {"dirsync", "display", "done"} \/ target[p] # 0

\* A key is added by its creator, once.
AddedOnce ==
  /\ \A c \in Sources : \A k \in KeysIn(c) : Past(k.by)
  /\ \A k \in Issued : Past(k.by)

NotYet ==
  \A p \in Processes : pc[p] \in {"temporary", "rename", "dirsync", "display"} /\ Creates(p) =>
    \A k \in registry[p].keys : k.by # p

\* A source knows every issued id that was not dropped, and gives it to nobody
\* else.
Known ==
  \A k \in Issued : k.id \notin dropped => \A c \in Sources :
    /\ c.state = "whole" /\ k.id < c.nextID
    /\ k \in c.keys \/ Revoking(k.id)
    /\ \A j \in c.keys : j.id = k.id => j = k

\* A renamed file is there until its directory is synced, or its ids are dropped.
Renamed ==
  \A p \in Processes : pc[p] = "dirsync" =>
    \/ file = Changed(p)
    \/ KeysIn(file) = {} /\ 1..(Changed(p).nextID - 1) \subseteq dropped

\* A revoked key is in no source.
Gone == \A k \in revoked : \A c \in Sources : k \notin KeysIn(c)

\* No issued id names two keys.
Distinct == \A j, k \in Issued : j.id = k.id => j = k \/ j.id \in dropped

\* A process that has not begun revokes nothing.
Fresh == \A p \in Processes : pc[p] = "idle" => target[p] = 0

Control == TypeOK /\ Locked /\ Readings /\ Initialized /\ NotYet
IInv == Control /\ Fresh /\ AddedOnce /\ Known /\ Renamed /\ Gone /\ Distinct

USE ApiKeyAssumption

-----------------------------------------------------------------------------
(* Contents and keys.                                                      *)

LEMMA Contents ==
  /\ \A c \in Registry : c.state = "whole" /\ c.nextID \in 1..MaxInt /\ c.keys \in SUBSET Key
                         /\ KeysIn(c) = c.keys
  /\ newRegistry \in Registry /\ newRegistry.keys = {} /\ KeysIn(newRegistry) = {}
  /\ Absent.state = "absent" /\ KeysIn(Absent) = {}
  /\ \A p : Torn(p).state = "torn" /\ Torn(p).by = p /\ KeysIn(Torn(p)) = {}
  /\ \A c \in Content : c.state = "whole" => c \in Registry
  /\ \A c \in Content : KeysIn(c) \in SUBSET Key
BY DEF Registry, newRegistry, Absent, Torn, KeysIn, Content

\* What a command writes, from an acceptable registry.
LEMMA Writes ==
  ASSUME TypeOK, Readings, NEW p \in Processes,
         pc[p] \in {"temporary", "rename", "dirsync", "display"}
  PROVE  /\ Changed(p) \in Registry
         /\ Changed(p).nextID >= registry[p].nextID
         /\ Creates(p) => /\ Changed(p).nextID = registry[p].nextID + 1
                          /\ Changed(p).keys = registry[p].keys \cup {NewKey(p)}
                          /\ NewKey(p) \in Key
         /\ ~Creates(p) => /\ Changed(p).nextID = registry[p].nextID
                           /\ Changed(p).keys = {k \in registry[p].keys : k.id # target[p]}
<1>1. registry[p] \in Registry /\ (Creates(p) => registry[p].nextID < MaxInt)
  BY DEF Readings
<1>2. CASE Creates(p)
  <2>1. NewKey(p) \in Key
    BY <1>1, <1>2 DEF NewKey, Key, Ids, Registry
  <2>2. Changed(p) = [registry[p] EXCEPT !.nextID = @ + 1, !.keys = @ \cup {NewKey(p)}]
    BY <1>2 DEF Changed, withKey, NewKey
  <2>3. registry[p].keys \cup {NewKey(p)} \in SUBSET Key /\ registry[p].nextID + 1 \in 1..MaxInt
    BY <1>1, <1>2, <2>1 DEF Registry
  <2>4. Changed(p).nextID = registry[p].nextID + 1
        /\ Changed(p).keys = registry[p].keys \cup {NewKey(p)}
    BY <1>1, <2>2 DEF Registry
  <2>5. Changed(p) \in Registry
    BY <1>1, <2>2, <2>3 DEF Registry
  <2> QED BY <1>1, <1>2, <2>1, <2>3, <2>4, <2>5 DEF Registry
<1>3. CASE ~Creates(p)
  <2>1. Changed(p) = [registry[p] EXCEPT !.keys = @ \ {k \in registry[p].keys : k.id = target[p]}]
    BY <1>3 DEF Changed, withoutKey, KeysWithID
  <2> QED BY <1>1, <1>3, <2>1 DEF Registry
<1> QED BY <1>2, <1>3

\* The key that is shown is the one that was added.
LEMMA Shows ==
  ASSUME TypeOK, Readings, NotYet, NEW p \in Processes, pc[p] = "display"
  PROVE  Created(p) = NewKey(p)
<1>1. Creates(p) /\ Changed(p).keys = registry[p].keys \cup {NewKey(p)}
  BY Writes DEF Readings
<1>2. \A k \in registry[p].keys : k.by # p
  BY <1>1 DEF NotYet
<1>3. NewKey(p).by = p
  BY DEF NewKey
<1> QED BY <1>1, <1>2, <1>3 DEF Created

LEMMA Typed ==
  ASSUME TypeOK, Readings
  PROVE  Issued \subseteq Key /\ Sources \subseteq Content
<1>1. \A p \in Pending : NewKey(p) \in Key
  BY Writes DEF Readings, Pending
<1>2. \A p \in Held : registry[p] \in Content
  BY DEF Readings, Held, Content
<1> QED BY <1>1, <1>2 DEF TypeOK, Issued, Sources

\* What a step leaves alone of the other processes.
LEMMA Local ==
  ASSUME TypeOK, NEW q \in Processes, Step(q), NEW p \in Processes, p # q
  PROVE  pc'[p] = pc[p] /\ target'[p] = target[p] /\ registry'[p] = registry[p]
BY DEF TypeOK, Step, Goto, Return, Reports, InitOpens, InitWrites, InitSyncs, InitFails,
  InitSyncsDirectory, StartCreate, StartRevoke, lockKeyFile, readKeyFile, Refuse, WriteTemporary,
  Rename, syncDirectory, WriteFails, Display, DisplayFails, Killed

-----------------------------------------------------------------------------
(* Each step keeps the control invariant.                                  *)

LEMMA ControlInit ==
  ASSUME IInv, NEW p \in Processes,
         InitOpens(p) \/ InitWrites(p) \/ InitSyncs(p) \/ InitFails(p) \/ InitSyncsDirectory(p)
  PROVE  Control'
<1> USE DEF Goto, Return, Becomes, history
<1>1. TypeOK /\ Locked /\ Readings /\ Initialized /\ NotYet
  BY DEF IInv, Control
<1>2. TypeOK'
  <2>1. CASE InitOpens(p)
    BY <1>1, <2>1, Contents DEF TypeOK, InitOpens, Locations, Content
  <2>2. CASE InitWrites(p)
    BY <1>1, <2>2, Contents DEF TypeOK, InitWrites, Locations, Content
  <2>3. CASE InitSyncs(p)
    BY <1>1, <2>3, Contents DEF TypeOK, InitSyncs, Locations, Content, Initialized
  <2>4. CASE InitFails(p)
    <3>1. \A c \in Content : c.state = "whole" => 1..(c.nextID - 1) \subseteq Ids
      BY Contents DEF Ids
    <3> QED BY <1>1, <2>4, <3>1, Contents DEF TypeOK, InitFails, Locations, Content
  <2>5. CASE InitSyncsDirectory(p)
    BY <1>1, <2>5 DEF TypeOK, InitSyncsDirectory, Locations
  <2> QED BY <2>1, <2>2, <2>3, <2>4, <2>5
<1>3. /\ lock' = lock /\ target' = target
      /\ pc'[p] \in {"opened", "written", "synced", "done"}
      /\ \A q \in Processes \ {p} : pc'[q] = pc[q] /\ registry'[q] = registry[q]
  BY <1>1 DEF TypeOK, InitOpens, InitWrites, InitSyncs, InitFails, InitSyncsDirectory
<1>4. Locked' /\ Readings' /\ NotYet'
  BY <1>1, <1>3 DEF Locked, Readings, NotYet, Creates
<1>5. Initialized'
  BY <1>1, Contents DEF TypeOK, Initialized, InitOpens, InitWrites, InitSyncs, InitFails,
    InitSyncsDirectory
<1> QED BY <1>2, <1>4, <1>5 DEF Control

LEMMA ControlRead ==
  ASSUME IInv, NEW p \in Processes,
         StartCreate(p) \/ StartRevoke(p) \/ lockKeyFile(p) \/ readKeyFile(p) \/ Refuse(p)
  PROVE  Control'
<1> USE DEF Goto, Return, unlock, history
<1>1. TypeOK /\ Locked /\ Readings /\ Initialized /\ NotYet
  BY DEF IInv, Control
<1>2. TypeOK'
  <2>1. CASE StartCreate(p) \/ StartRevoke(p) \/ lockKeyFile(p)
    BY <1>1, <2>1 DEF TypeOK, StartCreate, StartRevoke, lockKeyFile, Locations
  <2>2. CASE readKeyFile(p)
    BY <1>1, <2>2, Contents DEF TypeOK, readKeyFile, Locations, Possible, Accepted
  <2>3. CASE Refuse(p)
    BY <1>1, <2>3 DEF TypeOK, Refuse, Locations
  <2> QED BY <2>1, <2>2, <2>3
<1>3. Locked'
  BY <1>1 DEF TypeOK, Locked, StartCreate, StartRevoke, lockKeyFile, readKeyFile, Refuse
<1>4. Readings' /\ NotYet'
  <2>1. CASE readKeyFile(p)
    <3>1. file \in Registry /\ Accepted(file) /\ (Creates(p) => file.nextID < MaxInt)
      BY <1>1, <2>1, Contents DEF readKeyFile, Possible, Accepted, TypeOK
    <3>2. Creates(p) => \A k \in file.keys : k.by # p
      <4> SUFFICES ASSUME Creates(p), NEW k \in file.keys, k.by = p PROVE FALSE
        OBVIOUS
      <4>1. file \in Sources /\ k \in KeysIn(file)
        BY <1>1, <3>1, Contents DEF Sources, TypeOK
      <4>2. Past(p)
        BY <4>1 DEF IInv, AddedOnce
      <4> QED BY <2>1, <4>2 DEF Past, Creates, readKeyFile
    <3> QED BY <1>1, <2>1, <3>1, <3>2 DEF TypeOK, readKeyFile, Readings, NotYet, Creates
  <2>2. CASE ~readKeyFile(p)
    BY <1>1, <2>2 DEF TypeOK, Readings, NotYet, Creates, StartCreate, StartRevoke, lockKeyFile, Refuse
  <2> QED BY <2>1, <2>2
<1>5. Initialized'
  BY <1>1 DEF TypeOK, Initialized, StartCreate, StartRevoke, lockKeyFile, readKeyFile, Refuse
<1> QED BY <1>2, <1>3, <1>4, <1>5 DEF Control

LEMMA ControlWrite ==
  ASSUME IInv, NEW p \in Processes,
         WriteTemporary(p) \/ Rename(p) \/ syncDirectory(p) \/ WriteFails(p)
  PROVE  Control'
<1> USE DEF Goto, Return, Reports, Becomes, unlock, history
<1>1. TypeOK /\ Locked /\ Readings /\ Initialized /\ NotYet
  BY DEF IInv, Control
<1>2. Changed(p) \in Registry /\ registry[p] \in Registry
  BY <1>1, Writes DEF Readings, WriteTemporary, Rename, syncDirectory, WriteFails
<1>3. TypeOK'
  <2>1. CASE WriteTemporary(p) \/ WriteFails(p)
    BY <1>1, <2>1 DEF TypeOK, WriteTemporary, WriteFails, Locations
  <2>2. CASE Rename(p)
    BY <1>1, <1>2, <2>2 DEF TypeOK, Rename, Locations, Content
  <2>3. CASE syncDirectory(p)
    <3>1. KeysWithID(registry[p], target[p]) \subseteq Key
      BY <1>2 DEF KeysWithID, Registry
    <3> QED BY <1>1, <2>3, <3>1 DEF TypeOK, syncDirectory, Locations
  <2> QED BY <2>1, <2>2, <2>3
<1>4. Locked'
  BY <1>1 DEF TypeOK, Locked, WriteTemporary, Rename, syncDirectory, WriteFails
<1>5. Readings' /\ NotYet'
  BY <1>1 DEF TypeOK, Readings, NotYet, Creates, WriteTemporary, Rename, syncDirectory, WriteFails
<1>6. Initialized'
  <2>1. \A q : Changed(p) # Torn(q)
    BY <1>2, Contents
  <2> QED BY <1>1, <2>1 DEF TypeOK, Initialized, WriteTemporary, Rename, syncDirectory, WriteFails
<1> QED BY <1>3, <1>4, <1>5, <1>6 DEF Control

LEMMA ControlEnd ==
  ASSUME IInv, PowerLoss \/ \E p \in Processes : Display(p) \/ DisplayFails(p) \/ Killed(p)
  PROVE  Control'
<1> USE DEF Goto, Return, unlock, history
<1>1. TypeOK /\ Locked /\ Readings /\ Initialized /\ NotYet
  BY DEF IInv, Control
<1>2. CASE PowerLoss
  <2>1. TypeOK'
    BY <1>1, <1>2 DEF TypeOK, PowerLoss, Locations
  <2>2. \A p \in Processes : pc'[p] \in {"idle", "done"}
    BY <1>2 DEF PowerLoss
  <2> QED BY <2>1, <2>2 DEF Control, Locked, Readings, Initialized, NotYet
<1>3. ASSUME NEW p \in Processes, Display(p) \/ DisplayFails(p) \/ Killed(p)
      PROVE  Control'
  <2>1. pc[p] = "display" => Created(p) = NewKey(p) /\ NewKey(p) \in Key
    BY <1>1, Shows, Writes DEF Readings
  <2>2. TypeOK'
    BY <1>1, <1>3, <2>1 DEF TypeOK, Display, DisplayFails, Killed, Locations, Key
  <2>3. Locked'
    BY <1>1, <1>3 DEF TypeOK, Locked, Display, DisplayFails, Killed
  <2>4. Readings' /\ NotYet' /\ Initialized'
    BY <1>1, <1>3 DEF TypeOK, Readings, NotYet, Initialized, Creates, Display, DisplayFails, Killed
  <2> QED BY <2>2, <2>3, <2>4 DEF Control
<1> QED BY <1>2, <1>3

-----------------------------------------------------------------------------
(* A step that issues no key and adds no key to a file.                    *)

LEMMA Quiet ==
  ASSUME IInv, Issued' \subseteq Issued, revoked' \subseteq revoked, dropped \subseteq dropped',
         \A p \in Processes : Past(p) => Past(p)',
         \A id \in Ids : Revoking(id) => Revoking(id)',
         \A c \in Sources' : c \in Sources
           \/ (KeysIn(c) = {} /\ \A k \in Issued : k.id \in dropped')
  PROVE  AddedOnce' /\ Known' /\ Gone' /\ Distinct'
<1>0. Issued \subseteq Key /\ Sources \subseteq Content
  BY Typed DEF IInv, Control
<1>1. \A k \in Key : k.by \in Processes /\ k.id \in Ids
  BY DEF Key
<1>2. AddedOnce'
  <2>1. \A c \in Sources' : \A k \in KeysIn(c) : Past(k.by)'
    <3> SUFFICES ASSUME NEW c \in Sources', NEW k \in KeysIn(c) PROVE Past(k.by)'
      OBVIOUS
    <3>1. c \in Sources /\ k \in Key
      BY <1>0, Contents
    <3> QED BY <3>1, <1>1 DEF IInv, AddedOnce
  <2>2. \A k \in Issued' : Past(k.by)'
    BY <1>0, <1>1 DEF IInv, AddedOnce
  <2> QED BY <2>1, <2>2 DEF AddedOnce, KeysIn
<1>3. Known'
  <2> SUFFICES ASSUME NEW k \in Issued', k.id \notin dropped', NEW c \in Sources'
               PROVE  /\ c.state = "whole" /\ k.id < c.nextID
                      /\ k \in c.keys \/ Revoking(k.id)'
                      /\ \A j \in c.keys : j.id = k.id => j = k
    BY DEF Known
  <2>1. c \in Sources /\ k \in Issued /\ k.id \notin dropped /\ k.id \in Ids
    BY <1>0, <1>1
  <2> QED BY <2>1 DEF IInv, Known
<1>4. Gone'
  BY DEF IInv, Gone, KeysIn
<1>5. Distinct'
  BY DEF IInv, Distinct
<1> QED BY <1>2, <1>3, <1>4, <1>5

\* Files that a command empties hold no key of an id that was not dropped.
LEMMA Emptied ==
  ASSUME IInv, file.state # "whole"
  PROVE  \A k \in Issued : k.id \in dropped
BY DEF IInv, Control, TypeOK, Known, Sources

-----------------------------------------------------------------------------
(* The data invariant.                                                     *)

Data == AddedOnce /\ Known /\ Renamed /\ Gone /\ Distinct

LEMMA DataInit ==
  ASSUME IInv, NEW p \in Processes,
         InitOpens(p) \/ InitWrites(p) \/ InitSyncs(p) \/ InitFails(p) \/ InitSyncsDirectory(p)
  PROVE  Data'
<1> USE DEF Goto, Return, Becomes, history
<1>1. TypeOK /\ Readings
  BY DEF IInv, Control
<1>2. /\ target' = target /\ shown' = shown /\ revoked' = revoked
      /\ pc[p] \in {"idle", "opened", "written", "synced"}
      /\ pc'[p] \in {"opened", "written", "synced", "done"}
      /\ \A q \in Processes \ {p} : pc'[q] = pc[q] /\ registry'[q] = registry[q]
  BY <1>1 DEF TypeOK, InitOpens, InitWrites, InitSyncs, InitFails, InitSyncsDirectory
<1>3. dropped \subseteq dropped'
  BY DEF InitOpens, InitWrites, InitSyncs, InitFails, InitSyncsDirectory
<1>4. Held' = Held /\ (\A q \in Held : registry'[q] = registry[q])
  BY <1>2 DEF Held
<1>5. Pending' = Pending /\ \A q \in Pending : NewKey(q)' = NewKey(q)
  BY <1>2 DEF Pending, NewKey
<1>6. Issued' = Issued
  BY <1>2, <1>5 DEF Issued
<1>7. /\ file' = file /\ disk' \subseteq disk
      \/ /\ disk' = disk \cup {file'} /\ KeysIn(file') = {}
         /\ \A k \in Issued : k.id \in dropped'
         /\ file.state = "whole" => 1..(file.nextID - 1) \subseteq dropped'
  <2>1. CASE InitOpens(p)
    BY <2>1, <1>1, <1>3, Emptied, Contents DEF InitOpens
  <2>2. CASE InitWrites(p)
    BY <2>2, <1>1, <1>3, Emptied, Contents DEF InitWrites
  <2>3. CASE InitFails(p)
    <3>1. ASSUME NEW k \in Issued, k.id \notin dropped PROVE k.id \in dropped'
      <4>1. file.state = "whole" /\ k.id < file.nextID /\ file \in Registry
        BY <3>1, <1>1, Contents DEF IInv, Known, Sources, TypeOK
      <4>2. k.id \in 1..(file.nextID - 1)
        BY <4>1, <1>1, Typed, Contents DEF Key, Ids
      <4> QED BY <2>3, <4>1, <4>2 DEF InitFails
    <3> QED BY <2>3, <1>3, <3>1, Contents DEF InitFails
  <2>4. CASE InitSyncs(p) \/ InitSyncsDirectory(p)
    BY <2>4, <1>1 DEF InitSyncs, InitSyncsDirectory, TypeOK
  <2> QED BY <2>1, <2>2, <2>3, <2>4
<1>8. \A c \in Sources' : c \in Sources
        \/ (KeysIn(c) = {} /\ \A k \in Issued : k.id \in dropped')
  BY <1>4, <1>7 DEF Sources
<1>9. AddedOnce' /\ Known' /\ Gone' /\ Distinct'
  <2>1. \A q \in Processes : Past(q) => Past(q)'
    BY <1>2 DEF Past
  <2>2. \A id \in Ids : Revoking(id) => Revoking(id)'
    BY <1>2 DEF Revoking
  <2> QED BY <1>2, <1>3, <1>6, <1>8, <2>1, <2>2, Quiet
<1>10. Renamed'
  <2> SUFFICES ASSUME NEW q \in Processes, pc'[q] = "dirsync"
               PROVE  \/ file' = Changed(q)'
                      \/ KeysIn(file)' = {} /\ (1..(Changed(q).nextID - 1) \subseteq dropped)'
    BY DEF Renamed
  <2>1. q # p /\ pc[q] = "dirsync"
    BY <1>2
  <2>2. Changed(q)' = Changed(q) /\ Changed(q) \in Registry
    BY <1>1, <1>2, <2>1, Writes DEF Changed, Creates
  <2>3. \/ file = Changed(q)
        \/ KeysIn(file) = {} /\ 1..(Changed(q).nextID - 1) \subseteq dropped
    BY <2>1 DEF IInv, Renamed
  <2>4. Changed(q).state = "whole" /\ KeysIn(file)' = KeysIn(file')
    BY <2>2, Contents DEF KeysIn
  <2> QED BY <1>3, <1>7, <2>2, <2>3, <2>4
<1> QED BY <1>9, <1>10 DEF Data

\* Steps that leave the file, what may come back, and the histories.
LEMMA DataRead ==
  ASSUME IInv, NEW p \in Processes,
         \/ StartCreate(p) \/ StartRevoke(p) \/ lockKeyFile(p) \/ readKeyFile(p) \/ Refuse(p)
         \/ WriteTemporary(p) \/ WriteFails(p) \/ DisplayFails(p) \/ Killed(p)
  PROVE  Data'
<1> USE DEF Goto, Return, history
<1>1. TypeOK /\ Readings /\ NotYet
  BY DEF IInv, Control
<1>2. /\ file' = file /\ disk' = disk
      /\ shown' = shown /\ revoked' = revoked /\ dropped' = dropped
  BY DEF StartCreate, StartRevoke, lockKeyFile, readKeyFile, Refuse, WriteTemporary, WriteFails,
    DisplayFails, Killed
<1>3. \A q \in Processes : /\ pc'[q] = "display" => pc[q] = "display"
                           /\ pc'[q] = "dirsync" => pc[q] = "dirsync"
  BY <1>1 DEF TypeOK, StartCreate, StartRevoke, lockKeyFile, readKeyFile, Refuse, WriteTemporary,
    WriteFails, DisplayFails, Killed
<1>4. \A q \in Processes :
        \/ registry'[q] = registry[q]
        \/ registry'[q] = file
        \/ pc'[q] = "done"
  BY <1>1 DEF TypeOK, StartCreate, StartRevoke, lockKeyFile, readKeyFile, Refuse, WriteTemporary,
    WriteFails, DisplayFails, Killed
<1>5. \A q \in Processes : pc'[q] \in {"display", "dirsync"} => registry'[q] = registry[q]
  BY <1>1 DEF TypeOK, StartCreate, StartRevoke, lockKeyFile, readKeyFile, Refuse, WriteTemporary,
    WriteFails, DisplayFails, Killed
<1>6. \A q \in Processes : pc'[q] \in {"temporary", "rename"} =>
        \/ registry'[q] = file
        \/ pc[q] \in {"temporary", "rename"} /\ registry'[q] = registry[q]
  BY <1>1 DEF TypeOK, StartCreate, StartRevoke, lockKeyFile, readKeyFile, Refuse, WriteTemporary,
    WriteFails, DisplayFails, Killed
<1>7. Issued' \subseteq Issued
  BY <1>2, <1>3, <1>5 DEF Issued, Pending, NewKey
<1>8. Sources' \subseteq Sources
  <2>1. \A q \in Held' : registry'[q] \in Sources
    BY <1>1, <1>3, <1>5, <1>6 DEF Held, Sources, TypeOK
  <2> QED BY <1>2, <2>1 DEF Sources
<1>9. \A q \in Processes : target'[q] = target[q] \/ (target[q] = 0 /\ pc[q] \in {"idle", "display"})
  <2>1. CASE DisplayFails(p)
    BY <1>1, <2>1 DEF TypeOK, DisplayFails, Readings, Creates
  <2>2. CASE ~DisplayFails(p)
    <3>1. CASE StartRevoke(p)
      BY <1>1, <3>1 DEF TypeOK, StartRevoke, IInv, Fresh
    <3> QED BY <2>2, <3>1 DEF StartCreate, lockKeyFile, readKeyFile, Refuse, WriteTemporary,
           WriteFails, Killed
  <2> QED BY <2>1, <2>2
<1>10. CASE DisplayFails(p)
  <2>1. Created(p) = NewKey(p) /\ NewKey(p).id \in Ids /\ target'[p] = NewKey(p).id
    BY <1>1, <1>10, Shows, Writes DEF DisplayFails, TypeOK, Readings, Key
  <2>2. target'[p] # 0
    BY <2>1 DEF Ids
  <2>3. \A q \in Processes : Past(q) => Past(q)'
    BY <1>1, <1>10, <2>2 DEF Past, DisplayFails, TypeOK
  <2>4. \A id \in Ids : Revoking(id) => Revoking(id)'
    BY <1>9 DEF Revoking, Ids
  <2>5. AddedOnce' /\ Known' /\ Gone' /\ Distinct'
    BY <1>2, <1>7, <1>8, <2>3, <2>4, Quiet
  <2>6. \A q \in Processes : pc'[q] = "dirsync" => Changed(q)' = Changed(q)
    BY <1>1, <1>10 DEF DisplayFails, TypeOK, Changed, Creates
  <2> QED BY <1>2, <1>3, <2>5, <2>6 DEF Data, IInv, Renamed, KeysIn
<1>11. CASE ~DisplayFails(p)
  <2>1. \A q \in Processes : Past(q) => Past(q)'
    BY <1>1, <1>11 DEF Past, TypeOK, StartCreate, StartRevoke, lockKeyFile, readKeyFile, Refuse,
      WriteTemporary, WriteFails, Killed, Ids
  <2>2. \A id \in Ids : Revoking(id) => Revoking(id)'
    BY <1>9 DEF Revoking, Ids
  <2>3. AddedOnce' /\ Known' /\ Gone' /\ Distinct'
    BY <1>2, <1>7, <1>8, <2>1, <2>2, Quiet
  <2>4. \A q \in Processes : pc'[q] = "dirsync" => target'[q] = target[q]
    BY <1>3, <1>9
  <2>5. \A q \in Processes : pc'[q] = "dirsync" => Changed(q)' = Changed(q)
    BY <1>5, <2>4 DEF Changed, Creates, withKey, withoutKey, KeysWithID
  <2> QED BY <1>2, <1>3, <2>3, <2>5 DEF Data, IInv, Renamed, KeysIn
<1> QED BY <1>10, <1>11

LEMMA DataEnd ==
  ASSUME IInv, PowerLoss \/ \E p \in Processes : Display(p)
  PROVE  Data'
<1> USE DEF Goto, Return, history
<1>1. TypeOK /\ Readings /\ NotYet
  BY DEF IInv, Control
<1>2. CASE PowerLoss
  <2>1. /\ Held' = {} /\ Pending' = {} /\ \A q \in Processes : pc'[q] # "dirsync"
    BY <1>2 DEF PowerLoss, Held, Pending
  <2>2. Issued' \subseteq Issued /\ Sources' \subseteq Sources
    BY <1>1, <1>2, <2>1 DEF PowerLoss, Issued, Sources, TypeOK
  <2>3. \A q \in Processes : Past(q) => Past(q)'
    BY <1>2 DEF Past, PowerLoss
  <2>4. \A id \in Ids : Revoking(id) => Revoking(id)'
    BY <1>2 DEF Revoking, PowerLoss
  <2>5. AddedOnce' /\ Known' /\ Gone' /\ Distinct'
    BY <1>2, <2>2, <2>3, <2>4, Quiet DEF PowerLoss
  <2> QED BY <2>1, <2>5 DEF Data, Renamed
<1>3. ASSUME NEW p \in Processes, Display(p) PROVE Data'
  <2>1. Created(p) = NewKey(p) /\ p \in Pending
    BY <1>1, <1>3, Shows DEF Display, Pending
  <2>2. /\ pc'[p] = "done" /\ \A q \in Processes \ {p} : pc'[q] = pc[q] /\ registry'[q] = registry[q]
    BY <1>1, <1>3 DEF Display, TypeOK
  <2>3. /\ target' = target /\ file' = file /\ disk' = disk /\ dropped' = dropped
        /\ revoked' = revoked /\ shown' = shown \cup {NewKey(p)}
    BY <1>3, <2>1 DEF Display
  <2>4. Issued' \subseteq Issued
    BY <2>1, <2>2, <2>3 DEF Issued, Pending, NewKey
  <2>5. Sources' \subseteq Sources
    BY <2>2, <2>3 DEF Sources, Held
  <2>6. \A q \in Processes : Past(q) => Past(q)'
    BY <2>2, <2>3 DEF Past
  <2>7. \A id \in Ids : Revoking(id) => Revoking(id)'
    BY <2>3 DEF Revoking
  <2>8. AddedOnce' /\ Known' /\ Gone' /\ Distinct'
    BY <2>3, <2>4, <2>5, <2>6, <2>7, Quiet
  <2>9. \A q \in Processes : pc'[q] = "dirsync" => pc[q] = "dirsync" /\ Changed(q)' = Changed(q)
    BY <2>2, <2>3 DEF Changed, Creates, withKey, withoutKey, KeysWithID
  <2> QED BY <2>3, <2>8, <2>9 DEF Data, IInv, Renamed, KeysIn
<1> QED BY <1>2, <1>3

LEMMA FreshKept == ASSUME TypeOK, Fresh, Next PROVE Fresh'
<1>1. CASE PowerLoss
  BY <1>1 DEF PowerLoss, Fresh
<1>2. ASSUME NEW p \in Processes, Step(p) PROVE Fresh'
  <2>1. pc'[p] # "idle"
    BY <1>2 DEF TypeOK, Step, Goto, Return, Reports, InitOpens, InitWrites, InitSyncs, InitFails,
      InitSyncsDirectory, StartCreate, StartRevoke, lockKeyFile, readKeyFile, Refuse,
      WriteTemporary, Rename, syncDirectory, WriteFails, Display, DisplayFails, Killed
  <2> QED BY <1>2, <2>1, Local DEF Fresh
<1> QED BY <1>1, <1>2 DEF Next

LEMMA DataRename ==
  ASSUME IInv, NEW p \in Processes, Rename(p)
  PROVE  Data'
<1> USE DEF Goto, Becomes, history
<1>1. TypeOK /\ Readings /\ NotYet /\ Locked
  BY DEF IInv, Control
<1>2. /\ pc[p] = "rename" /\ pc' = [pc EXCEPT ![p] = "dirsync"] /\ registry' = registry
      /\ file' = Changed(p) /\ disk' = disk \cup {Changed(p)}
      /\ target' = target /\ shown' = shown /\ revoked' = revoked /\ dropped' = dropped
  BY DEF Rename
<1>3. pc'[p] = "dirsync" /\ \A q \in Processes \ {p} : pc'[q] = pc[q]
  BY <1>1, <1>2 DEF TypeOK
<1>4. p \in Held /\ Held' = Held /\ Pending' = Pending
  BY <1>2, <1>3 DEF Held, Pending
<1>5. Issued' = Issued /\ Sources' = Sources \cup {Changed(p)} /\ registry[p] \in Sources
  BY <1>2, <1>4 DEF Issued, Sources, NewKey
<1>6. Issued \subseteq Key /\ registry[p] \in Registry
  BY <1>1, <1>2, Typed DEF Readings
<1>7. /\ Changed(p) \in Registry /\ Changed(p).state = "whole"
      /\ KeysIn(Changed(p)) = Changed(p).keys /\ KeysIn(registry[p]) = registry[p].keys
  BY <1>1, <1>2, <1>6, Writes, Contents
<1>8. Past(p)' /\ \A q \in Processes : Past(q) => Past(q)'
  BY <1>2, <1>3 DEF Past
<1>9. \A k \in Changed(p).keys : k \in registry[p].keys \/ (k = NewKey(p) /\ Creates(p))
  BY <1>1, <1>2, Writes
<1>10. \A k \in Key : k.by \in Processes /\ k.id \in Ids /\ k.id \in Int
  BY DEF Key, Ids
<1>11. AddedOnce'
  <2>1. \A k \in registry[p].keys : Past(k.by)
    BY <1>5, <1>7 DEF IInv, AddedOnce
  <2>2. \A k \in Changed(p).keys : Past(k.by)'
    BY <1>6, <1>8, <1>9, <1>10, <2>1 DEF NewKey, Registry
  <2>3. \A c \in Sources : \A k \in KeysIn(c) : Past(k.by)'
    BY <1>1, <1>8, <1>10, Typed, Contents DEF IInv, AddedOnce
  <2>4. \A k \in Issued : Past(k.by)'
    BY <1>6, <1>8, <1>10 DEF IInv, AddedOnce
  <2> QED BY <1>5, <1>7, <2>2, <2>3, <2>4 DEF AddedOnce, KeysIn
<1>12. Known'
  <2> SUFFICES ASSUME NEW k \in Issued, k.id \notin dropped, NEW c \in Sources \cup {Changed(p)}
               PROVE  /\ c.state = "whole" /\ k.id < c.nextID
                      /\ k \in c.keys \/ Revoking(k.id)
                      /\ \A j \in c.keys : j.id = k.id => j = k
    BY <1>2, <1>5 DEF Known, Revoking
  <2>1. CASE c \in Sources
    BY <2>1 DEF IInv, Known
  <2>2. CASE c = Changed(p)
    <3>1. /\ k.id < registry[p].nextID /\ (k \in registry[p].keys \/ Revoking(k.id))
          /\ \A j \in registry[p].keys : j.id = k.id => j = k
      BY <1>5 DEF IInv, Known
    <3>2. registry[p].nextID <= Changed(p).nextID /\ registry[p].nextID \in Int
          /\ Changed(p).nextID \in Int
      BY <1>1, <1>2, <1>6, <1>7, Writes DEF Registry
    <3>3. k.id < Changed(p).nextID
      BY <1>6, <1>10, <3>1, <3>2
    <3>4. k \in Changed(p).keys \/ Revoking(k.id)
      BY <1>1, <1>2, <3>1, Writes DEF Revoking
    <3>5. \A j \in Changed(p).keys : j.id = k.id => j = k
      BY <1>6, <1>9, <1>10, <3>1, <3>2 DEF NewKey
    <3> QED BY <1>7, <2>2, <3>3, <3>4, <3>5
  <2> QED BY <2>1, <2>2
<1>13. Gone'
  <2>1. \A k \in revoked : k \notin registry[p].keys
    BY <1>5, <1>7 DEF IInv, Gone
  <2>2. Creates(p) => NewKey(p) \notin revoked
    BY <1>2 DEF IInv, AddedOnce, Issued, Past, Creates, NewKey
  <2>3. \A k \in revoked : k \notin KeysIn(Changed(p))
    BY <1>7, <1>9, <2>1, <2>2
  <2> QED BY <1>2, <1>5, <2>3 DEF IInv, Gone, KeysIn
<1>14. Distinct'
  BY <1>2, <1>5 DEF IInv, Distinct
<1>15. Renamed'
  <2>1. \A q \in Processes : pc'[q] = "dirsync" => q = p
    BY <1>1, <1>2, <1>3 DEF Locked
  <2>2. Changed(p)' = Changed(p)
    BY <1>2 DEF Changed, Creates, withKey, withoutKey, KeysWithID
  <2> QED BY <1>2, <2>1, <2>2 DEF Renamed
<1> QED BY <1>11, <1>12, <1>13, <1>14, <1>15 DEF Data

LEMMA DataSync ==
  ASSUME IInv, NEW p \in Processes, syncDirectory(p)
  PROVE  Data'
<1> USE DEF Goto, Return, Reports, history
<1> DEFINE r == registry[p]
           New == IF Creates(p) THEN {NewKey(p)} ELSE {k \in r.keys : k.id = target[p]}
<1>1. TypeOK /\ Readings /\ NotYet /\ Locked
  BY DEF IInv, Control
<1>2. /\ pc[p] = "dirsync" /\ pc'[p] \in {"display", "done"}
      /\ pc'[p] = "display" => Creates(p) /\ registry' = registry
      /\ \A q \in Processes \ {p} : pc'[q] = pc[q] /\ registry'[q] = registry[q]
      /\ file' = file /\ disk' = {file} /\ target' = target
      /\ shown' = shown /\ dropped' = dropped
      /\ revoked' = IF Creates(p) THEN revoked ELSE revoked \cup New
  BY <1>1 DEF syncDirectory, TypeOK, KeysWithID
<1>3. p \in Held /\ Held' = {} /\ Sources' = {file} /\ file \in Sources /\ r \in Sources
  <2>1. Held = {p}
    BY <1>1, <1>2 DEF Held, Locked
  <2>2. Held' = {}
    BY <1>2, <2>1 DEF Held
  <2> QED BY <1>1, <1>2, <2>1, <2>2 DEF Sources, TypeOK
<1>4. Issued' \subseteq Issued \cup New /\ New \subseteq Key /\ Issued \subseteq Key
  <2>1. Issued \subseteq Key /\ r \in Registry
    BY <1>1, <1>2, Typed DEF Readings
  <2>2. New \subseteq Key
    BY <1>1, <1>2, <2>1, Writes DEF Registry
  <2>3. \A q \in Pending' : q \in Pending \/ (q = p /\ Creates(p))
    BY <1>2 DEF Pending
  <2>4. \A q \in Pending' : NewKey(q)' = NewKey(q)
    BY <1>2 DEF Pending, NewKey
  <2> QED BY <1>2, <2>1, <2>2, <2>3, <2>4 DEF Issued
<1>5. /\ r \in Registry /\ Accepted(r) /\ KeysIn(r) = r.keys /\ r.nextID \in Int
      /\ Changed(p) \in Registry /\ KeysIn(Changed(p)) = Changed(p).keys
      /\ Changed(p).nextID \in Int /\ Changed(p).state = "whole"
  BY <1>1, <1>2, Writes, Contents DEF Readings
<1>6. \/ file = Changed(p)
      \/ KeysIn(file) = {} /\ 1..(Changed(p).nextID - 1) \subseteq dropped
  BY <1>2 DEF IInv, Renamed
<1>7. \A k \in Key : k.by \in Processes /\ k.id \in Ids /\ k.id \in Int /\ k.id >= 1
  BY DEF Key, Ids
<1>8. \A k \in r.keys : /\ k \in Key /\ k.id < r.nextID
                        /\ \A j \in r.keys : j.id = k.id => j = k
  BY <1>5, <1>7 DEF Accepted, KeysWithID, Registry
<1>9. \A k \in New : k.id < Changed(p).nextID /\ (file = Changed(p) \/ k.id \in dropped)
  <2> SUFFICES ASSUME NEW k \in New
               PROVE  k.id < Changed(p).nextID /\ (file = Changed(p) \/ k.id \in dropped)
    OBVIOUS
  <2>1. k.id < Changed(p).nextID
    <3>1. CASE Creates(p)
      BY <1>1, <1>2, <1>5, <3>1, Writes DEF NewKey
    <3>2. CASE ~Creates(p)
      BY <1>1, <1>2, <1>8, <3>2, Writes
    <3> QED BY <3>1, <3>2
  <2>2. k.id \in 1..(Changed(p).nextID - 1)
    BY <1>4, <1>5, <1>7, <2>1
  <2> QED BY <1>6, <2>1, <2>2
<1>10. \A q \in Processes : Past(q) => Past(q)'
  BY <1>2 DEF Past
<1>11. \A k \in Issued, n \in New : k.id = n.id => k = n \/ k.id \in dropped
  <2> SUFFICES ASSUME NEW k \in Issued, NEW n \in New, k.id = n.id, k.id \notin dropped
               PROVE  k = n
    OBVIOUS
  <2>1. k.id < r.nextID /\ \A j \in r.keys : j.id = k.id => j = k
    BY <1>3 DEF IInv, Known
  <2>2. CASE Creates(p)
    BY <1>4, <1>5, <1>7, <2>1, <2>2 DEF NewKey
  <2>3. CASE ~Creates(p)
    BY <2>1, <2>3
  <2> QED BY <2>2, <2>3
<1>12. AddedOnce'
  <2>1. \A k \in KeysIn(file) : Past(k.by)'
    BY <1>1, <1>3, <1>7, <1>10, Contents DEF IInv, AddedOnce, TypeOK
  <2>2. \A k \in New : Past(k.by)'
    <3>1. \A k \in r.keys : Past(k.by)
      BY <1>3, <1>5 DEF IInv, AddedOnce
    <3>2. Past(p)'
      BY <1>2 DEF Past
    <3> QED BY <1>4, <1>7, <1>10, <3>1, <3>2 DEF NewKey
  <2>3. \A k \in Issued : Past(k.by)'
    BY <1>4, <1>7, <1>10 DEF IInv, AddedOnce
  <2> QED BY <1>2, <1>3, <1>4, <2>1, <2>2, <2>3 DEF AddedOnce, KeysIn
<1>13. Known'
  <2> SUFFICES ASSUME NEW k \in Issued \cup New, k.id \notin dropped
               PROVE  /\ file.state = "whole" /\ k.id < file.nextID
                      /\ k \in file.keys \/ Revoking(k.id)
                      /\ \A j \in file.keys : j.id = k.id => j = k
    BY <1>2, <1>3, <1>4 DEF Known, Revoking
  <2>1. CASE k \in Issued
    BY <1>3, <2>1 DEF IInv, Known
  <2>2. CASE k \in New
    <3>1. file = Changed(p)
      BY <1>9, <2>2
    <3>2. CASE Creates(p)
      BY <1>1, <1>2, <1>5, <1>8, <2>2, <3>1, <3>2, Writes DEF NewKey
    <3>3. CASE ~Creates(p)
      <4>1. Revoking(k.id) /\ \A j \in file.keys : j.id # k.id
        BY <1>1, <1>2, <2>2, <3>1, <3>3, Writes DEF Revoking
      <4> QED BY <1>5, <1>9, <2>2, <3>1, <4>1
    <3> QED BY <3>2, <3>3
  <2> QED BY <2>1, <2>2
<1>14. Gone'
  <2>1. \A k \in revoked : k \notin KeysIn(file)
    BY <1>3 DEF IInv, Gone
  <2>2. ~Creates(p) => \A k \in New : k \notin KeysIn(file)
    BY <1>1, <1>2, <1>5, <1>6, Writes
  <2> QED BY <1>2, <1>3, <2>1, <2>2 DEF Gone, KeysIn
<1>15. Distinct'
  <2>1. \A j, k \in New : j.id = k.id => j = k
    BY <1>8
  <2> QED BY <1>2, <1>4, <1>11, <2>1 DEF IInv, Distinct
<1>16. Renamed'
  <2>1. \A q \in Processes : pc'[q] # "dirsync"
    BY <1>1, <1>2 DEF Locked
  <2> QED BY <2>1 DEF Renamed
<1> QED BY <1>12, <1>13, <1>14, <1>15, <1>16 DEF Data

-----------------------------------------------------------------------------
LEMMA Initial == Init => IInv
<1> SUFFICES ASSUME Init PROVE IInv
  OBVIOUS
<1>1. Held = {} /\ Pending = {} /\ Issued = {} /\ Sources = {Absent}
  BY DEF Init, Held, Pending, Issued, Sources
<1>2. Control /\ Fresh
  BY Contents DEF Init, Control, Fresh, TypeOK, Locked, Readings, Initialized, NotYet, Locations,
    Content
<1>3. AddedOnce /\ Known /\ Renamed /\ Gone /\ Distinct
  BY <1>1, Contents DEF Init, AddedOnce, Known, Renamed, Gone, Distinct
<1> QED BY <1>2, <1>3 DEF IInv

LEMMA Inductive == IInv /\ [Next]_vars => IInv'
<1> SUFFICES ASSUME IInv, [Next]_vars PROVE IInv'
  OBVIOUS
<1>1. CASE UNCHANGED vars
  <2>1. Control' /\ Fresh'
    BY <1>1 DEF vars, history, IInv, Control, Fresh, TypeOK, Locked, Readings, Initialized, NotYet,
      Creates, Accepted, KeysWithID
  <2>2. Held' = Held /\ Pending' = Pending /\ registry' = registry /\ disk' = disk
        /\ shown' = shown /\ revoked' = revoked
    BY <1>1 DEF vars, history, Held, Pending
  <2>3. Issued' = Issued /\ Sources' = Sources
    BY <2>2 DEF Issued, Sources, NewKey
  <2>4. AddedOnce' /\ Known' /\ Gone' /\ Distinct'
    BY <1>1, <2>3 DEF vars, history, IInv, AddedOnce, Known, Gone, Distinct, Past, Revoking, KeysIn
  <2>5. Renamed'
    BY <1>1 DEF vars, history, IInv, Renamed, Changed, Creates, withKey, withoutKey, KeysWithID,
      KeysIn
  <2> QED BY <2>1, <2>4, <2>5 DEF IInv
<1>2. CASE Next
  <2>1. Control' /\ Data'
    <3>1. CASE PowerLoss
      BY <3>1, ControlEnd, DataEnd
    <3>2. ASSUME NEW p \in Processes, Step(p) PROVE Control' /\ Data'
      <4>1. CASE InitOpens(p) \/ InitWrites(p) \/ InitSyncs(p) \/ InitFails(p)
                 \/ InitSyncsDirectory(p)
        BY <4>1, ControlInit, DataInit
      <4>2. CASE StartCreate(p) \/ StartRevoke(p) \/ lockKeyFile(p) \/ readKeyFile(p) \/ Refuse(p)
        BY <4>2, ControlRead, DataRead
      <4>3. CASE WriteTemporary(p) \/ WriteFails(p)
        BY <4>3, ControlWrite, DataRead
      <4>4. CASE Rename(p)
        BY <4>4, ControlWrite, DataRename
      <4>5. CASE syncDirectory(p)
        BY <4>5, ControlWrite, DataSync
      <4>6. CASE DisplayFails(p) \/ Killed(p)
        BY <4>6, ControlEnd, DataRead
      <4>7. CASE Display(p)
        BY <4>7, ControlEnd, DataEnd
      <4> QED BY <3>2, <4>1, <4>2, <4>3, <4>4, <4>5, <4>6, <4>7 DEF Step
    <3> QED BY <1>2, <3>1, <3>2 DEF Next
  <2>2. Fresh'
    BY <1>2, FreshKept DEF IInv, Control
  <2> QED BY <2>1, <2>2 DEF IInv, Data
<1> QED BY <1>1, <1>2

-----------------------------------------------------------------------------
(* Theorems.                                                               *)

\* The inductive invariant of the key file.
THEOREM Invariance == Spec => []IInv
<1>1. Init => IInv
  BY Initial
<1>2. IInv /\ [Next]_vars => IInv'
  BY Inductive
<1> QED BY <1>1, <1>2, PTL DEF Spec

\* Every variable keeps its type; no id beyond the largest is ever written
\* (file.go:150).
THEOREM TypeCorrect == Spec => []TypeOK
BY Invariance, PTL DEF IInv, Control

\* Among any number of commands, one at most is between the read of the file
\* and the sync of its directory (file.go:141-168, 189-207).
THEOREM OneWriter ==
  Spec => [](\A p, q \in Held : p = q)
<1>1. IInv => \A p, q \in Held : p = q
  BY DEF IInv, Control, Locked, Held
<1> QED BY <1>1, Invariance, PTL

\* A key whose secret was shown can be used from then on, also after any number
\* of power losses and killed commands, until somebody revokes it.
THEOREM ShownSurvive == Spec => []ShownKeysSurvive
<1>1. IInv => ShownKeysSurvive
  <2> SUFFICES ASSUME IInv, NEW k \in shown, k.id \notin dropped, ~Revoking(k.id), NEW c \in disk
               PROVE  k \in KeysIn(c)
    BY DEF ShownKeysSurvive
  <2> QED BY DEF IInv, Known, Issued, Sources, KeysIn
<1> QED BY <1>1, Invariance, PTL

\* A reported revocation is final, whatever crashes.
THEOREM RevocationIsFinal == Spec => []RevokedStaysRevoked
<1>1. IInv => RevokedStaysRevoked
  BY DEF IInv, Gone, Sources, RevokedStaysRevoked
<1> QED BY <1>1, Invariance, PTL

\* No id that was shown or revoked names two keys.
THEOREM IdsNameOneKey == Spec => []IdsAreUnique
<1>1. IInv => IdsAreUnique
  BY DEF IInv, Distinct, Issued, IdsAreUnique
<1> QED BY <1>1, Invariance, PTL
=============================================================================
