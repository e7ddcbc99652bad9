--------------------------- MODULE ServiceProofs ---------------------------
(***************************************************************************)
(* Two models of services: the registry of the installed ones and its      *)
(* commands (ServiceRegistry), and lifecycle.Run, which runs those of one  *)
(* program (Lifecycle).                                                    *)
(*                                                                         *)
(* The registry, for any number of terminals, services, versions and       *)
(* faults: names and ids are taken once, what the commands reported stays  *)
(* so, AGENTS.md follows the registry, and no service loses its last       *)
(* program.  A command has the registry to itself, so the invariant says   *)
(* what the one command at work knows at each of its places; a step is     *)
(* shown to touch nothing but its own service and to lead to a place whose *)
(* knowledge holds.                                                        *)
(*                                                                         *)
(* Run, for any number of services: it has waited for everything when it   *)
(* returns, and tells of every failure.                                    *)
(***************************************************************************)
EXTENDS ServiceRegistry, Lifecycle, FiniteSetTheorems, TLAPS

-----------------------------------------------------------------------------
(* The inductive invariant of the registry.                                *)

Units == [conf : Confs, port : Ports]
Texts == Units \cup {NoUnit}
Programs == 0..MaxVersion

Typed ==
  /\ source \in Versions /\ lock \in Processes \cup {NoProcess}
  /\ registry \in [nextID : 1..(MaxID + 1), services : SUBSET Service]
  /\ DOMAIN pc = Processes /\ DOMAIN cmd = Processes /\ DOMAIN value = Processes
  /\ binary \in [Ids -> Programs] /\ previous \in [Ids -> Programs]
  /\ unitFile \in [Ids -> Texts] /\ loaded \in [Ids -> Texts]
  /\ enabled \in [Ids -> BOOLEAN]
  /\ running \in [Ids -> [version : Programs, unit : Texts]]
  /\ faults \in 0..MaxFaults /\ settled \subseteq Ids /\ gone \subseteq Ids /\ stale \in BOOLEAN

\* Whoever is not idle holds the lock, and knows the registry.
Holder ==
  /\ \A p \in Processes : pc[p] # "idle" => lock = p /\ value[p] = registry
  /\ \A p \in Processes : lock = p => pc[p] # "idle"

Names ==
  /\ \A s \in registry.services : s.id < registry.nextID
  /\ \A s, t \in registry.services :
       s # t => s.id # t.id /\ s.meta.name # t.meta.name /\ s.port # t.port
  /\ settled \subseteq IdsOf(registry.services)
  /\ gone \cap IdsOf(registry.services) = {} /\ \A id \in gone : id < registry.nextID

\* The service runs what the unit says.
Matches(id, unit) ==
  /\ enabled[id] /\ binary[id] # 0 /\ unitFile[id] = unit /\ loaded[id] = unit
  /\ running[id] = [version |-> binary[id], unit |-> unit]

Absent(id) == unitFile[id] = NoUnit /\ ~enabled[id] /\ running[id] = Stopped

(* What a command knows at each of its places.                             *)

Adding(p, s) ==
  /\ cmd[p] \in [op : {"add"}, service : Service, fresh : BOOLEAN]
  /\ pc[p] \in {"build", "unit", "reload", "enable", "save", "agents",
                "undo stop", "undo remove", "undo unit", "undo reload", "undo files"}
  /\ s.id \notin settled
  /\ pc[p] = "agents" => s \in registry.services
  /\ pc[p] # "agents" =>
       /\ s.id = registry.nextID
       /\ \A t \in registry.services : t.meta.name # s.meta.name /\ t.port # s.port
  /\ pc[p] \in {"unit", "reload", "enable", "save", "agents"} => binary[s.id] # 0
  /\ pc[p] \in {"reload", "enable", "save", "agents"} => unitFile[s.id] = renderUnit(s)
  /\ pc[p] \in {"enable", "save", "agents"} => loaded[s.id] = renderUnit(s)
  /\ pc[p] \in {"save", "agents"} /\ cmd[p].fresh => Matches(s.id, renderUnit(s))

Updating(p, s) ==
  /\ cmd[p] \in [op : {"update"}, service : Service, built : Programs]
  /\ pc[p] \in {"build", "keep", "swap", "restart", "restore", "restart again"}
  /\ s \in registry.services
  /\ pc[p] \in {"keep", "swap"} => cmd[p].built # 0
  /\ pc[p] \in {"swap", "restart", "restore"} => previous[s.id] # 0
  /\ pc[p] \in {"restart", "restart again"} => binary[s.id] # 0
  /\ s.id \in settled =>
       /\ enabled[s.id] /\ unitFile[s.id] = renderUnit(s) /\ loaded[s.id] = renderUnit(s)
       /\ pc[p] \in {"build", "keep"} => Matches(s.id, renderUnit(s))
       /\ pc[p] = "swap" =>
            /\ binary[s.id] = 0
            /\ running[s.id] = [version |-> previous[s.id], unit |-> renderUnit(s)]

Restarting(p, s) ==
  /\ cmd[p] \in [op : {"restart"}, service : Service]
  /\ pc[p] = "restart" /\ s \in registry.services
  /\ s.id \in settled => Matches(s.id, renderUnit(s))

Removing(p, s) ==
  /\ cmd[p] \in [op : {"remove"}, service : Service]
  /\ pc[p] \in {"stop", "unit", "reload", "save", "files", "agents"}
  /\ pc[p] \in {"files", "agents"} =>
       s.id \notin IdsOf(registry.services) /\ s.id < registry.nextID
  /\ pc[p] \notin {"files", "agents"} => s \in registry.services
  /\ pc[p] \in {"unit", "reload", "save", "files"} => ~enabled[s.id] /\ running[s.id] = Stopped
  /\ pc[p] \in {"reload", "save", "files"} => unitFile[s.id] = NoUnit

Editing(p, s, old) ==
  /\ cmd[p] \in [op : {"edit"}, service : Service, old : Service, oldUnit : Texts,
                 runtime : BOOLEAN]
  /\ pc[p] \in {"save", "unit", "reload", "restart", "restore unit", "restore reload",
                "restore restart", "registry", "agents"}
  /\ old.id = s.id /\ old.port = s.port
  /\ \A t \in registry.services : t.id # s.id =>
       t.meta.name # s.meta.name /\ t.meta.name # old.meta.name
  /\ pc[p] = "save" => old \in registry.services /\ (~cmd[p].runtime => s.conf = old.conf)
  /\ pc[p] # "save" => s \in registry.services
  /\ s.id \in settled =>
       /\ enabled[s.id] /\ binary[s.id] # 0
       /\ pc[p] \in {"save", "unit", "registry"} => Matches(s.id, renderUnit(old))
       /\ pc[p] = "agents" => Matches(s.id, renderUnit(s))
       /\ pc[p] \in {"reload", "restart", "restore unit"} => cmd[p].oldUnit = renderUnit(old)
       /\ pc[p] = "reload" => unitFile[s.id] = renderUnit(s)
       /\ pc[p] = "restart" => unitFile[s.id] = renderUnit(s) /\ loaded[s.id] = renderUnit(s)
       /\ pc[p] \in {"restore reload", "restore restart"} => unitFile[s.id] = renderUnit(old)
       /\ pc[p] = "restore restart" => loaded[s.id] = renderUnit(old)
  /\ pc[p] \notin {"save", "agents"} /\ ~stale =>
       agents = agentBlock((registry.services \ {s}) \cup {old})

Phase(p) ==
  \/ pc[p] = "idle" /\ cmd[p] = NoCommand
  \/ pc[p] = "agents" /\ cmd[p] = [op |-> "agents"]
  \/ Adding(p, cmd[p].service)
  \/ Updating(p, cmd[p].service)
  \/ Restarting(p, cmd[p].service)
  \/ Removing(p, cmd[p].service)
  \/ Editing(p, cmd[p].service, cmd[p].old)

\* What no command is working on is as it was reported.
Resting ==
  /\ \A s \in registry.services :
       s.id \in settled /\ ~Working(s.id) => Matches(s.id, renderUnit(s))
  /\ \A id \in gone : Absent(id) /\ binary[id] = 0

\* AGENTS.md is written after the registry.
Saved(p) ==
  \/ cmd[p].op \in {"add", "remove"} /\ pc[p] = "agents"
  \/ cmd[p].op = "remove" /\ pc[p] = "files"
  \/ cmd[p].op = "edit" /\ pc[p] # "save"

Block == ~stale => \/ agents = agentBlock(registry.services)
                   \/ \E p \in Processes : Saved(p)

IInv ==
  Typed /\ Holder /\ Names /\ (\A p \in Processes : Phase(p)) /\ Resting /\ Block

-----------------------------------------------------------------------------
(* What a step leaves alone.                                               *)

\* Other services, up to a daemon-reload, and other commands.
Elsewhere(p) ==
  /\ \A id \in Ids : id # Id(p) =>
       /\ binary'[id] = binary[id] /\ previous'[id] = previous[id]
       /\ unitFile'[id] = unitFile[id] /\ enabled'[id] = enabled[id]
       /\ running'[id] = running[id] /\ loaded'[id] \in {loaded[id], unitFile[id]}
  /\ \A q \in Processes : q # p => pc'[q] = pc[q] /\ cmd'[q] = cmd[q] /\ value'[q] = value[q]

Local(p) == Typed' /\ Elsewhere(p)

LEMMA OneAtWork ==
  ASSUME IInv, NEW p \in Processes, pc[p] # "idle"
  PROVE  /\ \A q \in Processes : q # p => pc[q] = "idle" /\ cmd[q] = NoCommand
         /\ value[p] = registry /\ lock = p
<1>1. \A q \in Processes : q # p => pc[q] = "idle"
  BY DEF IInv, Holder
<1>2. ASSUME NEW q \in Processes, pc[q] = "idle" PROVE cmd[q] = NoCommand
  <2>1. Phase(q)
    BY DEF IInv
  <2> QED BY <1>2, <2>1 DEF Phase, Adding, Updating, Restarting, Removing, Editing
<1> QED BY <1>1, <1>2 DEF IInv, Holder

\* The phase of a command by its name, or by its place.
LEMMA PhaseOf ==
  ASSUME IInv, NEW p \in Processes, pc[p] # "idle"
  PROVE  /\ cmd[p].op = "add" => Adding(p, cmd[p].service)
         /\ cmd[p].op = "update" => Updating(p, cmd[p].service)
         /\ cmd[p].op = "restart" => Restarting(p, cmd[p].service)
         /\ cmd[p].op = "remove" => Removing(p, cmd[p].service)
         /\ cmd[p].op = "edit" => Editing(p, cmd[p].service, cmd[p].old)
         /\ cmd[p].op = "agents" => pc[p] = "agents"
         /\ cmd[p].op \in {"add", "update", "restart", "remove", "edit", "agents"}
         /\ pc[p] \in {"undo stop", "undo remove", "undo unit", "undo reload", "undo files"} =>
              cmd[p].op = "add"
         /\ cmd[p].op # "agents" => cmd[p].service \in Service /\ Id(p) \in Ids
<1>1. Phase(p)
  BY DEF IInv
<1>2. /\ Adding(p, cmd[p].service) => cmd[p].op = "add" /\ cmd[p].service \in Service
      /\ Updating(p, cmd[p].service) => cmd[p].op = "update" /\ cmd[p].service \in Service
      /\ Restarting(p, cmd[p].service) => cmd[p].op = "restart" /\ cmd[p].service \in Service
      /\ Removing(p, cmd[p].service) => cmd[p].op = "remove" /\ cmd[p].service \in Service
      /\ Editing(p, cmd[p].service, cmd[p].old) =>
           cmd[p].op = "edit" /\ cmd[p].service \in Service
      /\ cmd[p] = [op |-> "agents"] => cmd[p].op = "agents"
  <2>1. Adding(p, cmd[p].service) => cmd[p].op = "add" /\ cmd[p].service \in Service
    BY DEF Adding
  <2>2. Updating(p, cmd[p].service) => cmd[p].op = "update" /\ cmd[p].service \in Service
    BY DEF Updating
  <2>3. Restarting(p, cmd[p].service) => cmd[p].op = "restart" /\ cmd[p].service \in Service
    BY DEF Restarting
  <2>4. Removing(p, cmd[p].service) => cmd[p].op = "remove" /\ cmd[p].service \in Service
    BY DEF Removing
  <2>5. Editing(p, cmd[p].service, cmd[p].old) =>
          cmd[p].op = "edit" /\ cmd[p].service \in Service
    BY DEF Editing
  <2> QED BY <2>1, <2>2, <2>3, <2>4, <2>5
<1>3. pc[p] \in {"undo stop", "undo remove", "undo unit", "undo reload", "undo files"} =>
        Adding(p, cmd[p].service)
  BY <1>1 DEF Phase, Updating, Restarting, Removing, Editing
<1>4. cmd[p].service \in Service => Id(p) \in Ids
  BY DEF Id, Service
<1> QED BY <1>1, <1>2, <1>3, <1>4 DEF Phase

LEMMA Rendered == \A s \in Service : renderUnit(s) \in Units /\ s.id \in Ids
BY DEF Service, Units, renderUnit

-----------------------------------------------------------------------------

\* At most at i, and to something in S.
Touched(f, g, i, S) == g = f \/ \E v \in S : g = [f EXCEPT ![i] = v]

\* A command moves on, or ends; the history goes along.
Moved(p) ==
  /\ DOMAIN pc' = Processes /\ DOMAIN cmd' = Processes /\ DOMAIN value' = Processes
  /\ lock' \in {lock, NoProcess}
  /\ \A q \in Processes : q # p => pc'[q] = pc[q] /\ cmd'[q] = cmd[q] /\ value'[q] = value[q]
  /\ UNCHANGED <<source, registry>>
  /\ faults' \in 0..MaxFaults /\ settled' \subseteq settled
  /\ gone' \subseteq gone \cup {Id(p)} /\ stale' \in {stale, TRUE}

Confined(p) ==
  /\ Touched(binary, binary', Id(p), Programs) /\ Touched(previous, previous', Id(p), Programs)
  /\ Touched(unitFile, unitFile', Id(p), Texts) /\ loaded' \in {loaded, unitFile}
  /\ Touched(enabled, enabled', Id(p), BOOLEAN)
  /\ Touched(running, running', Id(p), [version : Programs, unit : Texts])

LEMMA FaultKept == ASSUME Typed, NEW b, Fails(b) PROVE faults' \in 0..MaxFaults
BY ServiceRegistryAssumption DEF Typed, Fails

LEMMA MovedLocal ==
  ASSUME Typed, NEW p \in Processes, Id(p) \in Ids, Moved(p), Confined(p)
  PROVE  Local(p)
<1>1. /\ binary' \in [Ids -> Programs] /\ previous' \in [Ids -> Programs]
      /\ unitFile' \in [Ids -> Texts] /\ enabled' \in [Ids -> BOOLEAN]
      /\ running' \in [Ids -> [version : Programs, unit : Texts]]
      /\ \A id \in Ids : id # Id(p) =>
           /\ binary'[id] = binary[id] /\ previous'[id] = previous[id]
           /\ unitFile'[id] = unitFile[id] /\ enabled'[id] = enabled[id]
           /\ running'[id] = running[id]
  <2>1. binary' \in [Ids -> Programs] /\ \A id \in Ids : id # Id(p) => binary'[id] = binary[id]
    BY DEF Typed, Confined, Touched
  <2>2. /\ previous' \in [Ids -> Programs]
        /\ \A id \in Ids : id # Id(p) => previous'[id] = previous[id]
    BY DEF Typed, Confined, Touched
  <2>3. unitFile' \in [Ids -> Texts] /\ \A id \in Ids : id # Id(p) => unitFile'[id] = unitFile[id]
    BY DEF Typed, Confined, Touched
  <2>4. enabled' \in [Ids -> BOOLEAN] /\ \A id \in Ids : id # Id(p) => enabled'[id] = enabled[id]
    BY DEF Typed, Confined, Touched
  <2>5. /\ running' \in [Ids -> [version : Programs, unit : Texts]]
        /\ \A id \in Ids : id # Id(p) => running'[id] = running[id]
    BY DEF Typed, Confined, Touched
  <2> QED BY <2>1, <2>2, <2>3, <2>4, <2>5
<1>2. loaded' \in [Ids -> Texts] /\ \A id \in Ids : loaded'[id] \in {loaded[id], unitFile[id]}
  BY DEF Typed, Confined
<1>3. Typed'
  BY <1>1, <1>2 DEF Typed, Moved
<1> QED BY <1>1, <1>2, <1>3 DEF Moved, Local, Elsewhere

LEMMA StepsAreLocal ==
  ASSUME IInv, NEW p \in Processes, pc[p] # "idle", cmd[p].op # "agents",
         \/ AddBuild(p)
         \/ AddUnit(p)
         \/ AddReload(p)
         \/ AddEnable(p)
         \/ UndoStop(p)
         \/ UndoUnit(p)
         \/ UndoReload(p)
         \/ UndoFiles(p)
         \/ UpdateBuild(p)
         \/ UpdateKeep(p)
         \/ UpdateSwap(p)
         \/ UpdateRestart(p)
         \/ UpdateRestore(p)
         \/ UpdateRestartAgain(p)
         \/ RestartRestart(p)
         \/ RemoveStop(p)
         \/ RemoveUnit(p)
         \/ RemoveReload(p)
         \/ RemoveFiles(p)
         \/ EditUnit(p)
         \/ EditReload(p)
         \/ EditRestart(p)
         \/ EditRestoreUnit(p)
         \/ EditRestoreReload(p)
         \/ EditRestoreRestart(p)
  PROVE  Local(p)
<1> USE DEF files, systemd, history, Same, At, Clean, Fault
<1> DEFINE i == Id(p)
<1>1. /\ Typed /\ i \in Ids /\ renderUnit(cmd[p].service) \in Texts /\ NoUnit \in Texts
      /\ source \in Programs /\ 0 \in Programs /\ binary[i] \in Programs /\ previous[i] \in Programs
      /\ Stopped \in [version : Programs, unit : Texts]
      /\ Process(i) \in [version : Programs, unit : Texts]
      /\ cmd[p].op = "update" => cmd[p].built \in Programs
      /\ cmd[p].op = "edit" => cmd[p].oldUnit \in Texts
  <2>1. cmd[p].service \in Service /\ i \in Ids
    BY PhaseOf
  <2>2. cmd[p].op = "update" => cmd[p].built \in Programs
    BY PhaseOf DEF Updating
  <2>3. cmd[p].op = "edit" => cmd[p].oldUnit \in Texts
    BY PhaseOf DEF Editing
  <2> QED BY <2>1, <2>2, <2>3, Rendered, ServiceRegistryAssumption
        DEF IInv, Typed, Texts, Programs, Versions, Process, Stopped
<1> HIDE DEF i
<1>2. CASE AddBuild(p)
  <2>1. Moved(p)
    BY <1>1, <1>2, FaultKept DEF AddBuild, Moved, Typed, i, Return, Goto
  <2>2. Confined(p)
    BY <1>1, <1>2 DEF AddBuild, Confined, Touched, Typed, i
  <2> QED BY <1>1, <2>1, <2>2, MovedLocal DEF i
<1>3. CASE AddUnit(p)
  <2>1. Moved(p)
    BY <1>1, <1>3, FaultKept DEF AddUnit, Moved, Typed, i, Return, Goto
  <2>2. Confined(p)
    BY <1>1, <1>3 DEF AddUnit, Confined, Touched, Typed, i, RemoveAll
  <2> QED BY <1>1, <2>1, <2>2, MovedLocal DEF i
<1>4. CASE AddReload(p)
  <2>1. Moved(p)
    BY <1>1, <1>4, FaultKept DEF AddReload, Moved, Typed, i, Return, Goto
  <2>2. Confined(p)
    BY <1>1, <1>4 DEF AddReload, Confined, Touched, Typed, i, RemoveAll, DaemonReload
  <2> QED BY <1>1, <2>1, <2>2, MovedLocal DEF i
<1>5. CASE AddEnable(p)
  <2>1. Moved(p)
    BY <1>1, <1>5, FaultKept DEF AddEnable, Moved, Typed, i, Goto
  <2>2. Confined(p)
    BY <1>1, <1>5 DEF AddEnable, Confined, Touched, Typed, i, EnableNow
  <2> QED BY <1>1, <2>1, <2>2, MovedLocal DEF i
<1>6. CASE UndoStop(p)
  <2>1. Moved(p)
    BY <1>1, <1>6, FaultKept DEF UndoStop, Moved, Typed, i, Goto
  <2>2. Confined(p)
    BY <1>1, <1>6 DEF UndoStop, Confined, Touched, Typed, i, DisableNow
  <2> QED BY <1>1, <2>1, <2>2, MovedLocal DEF i
<1>7. CASE UndoUnit(p)
  <2>1. Moved(p)
    BY <1>1, <1>7, FaultKept DEF UndoUnit, Moved, Typed, i, Goto
  <2>2. Confined(p)
    BY <1>1, <1>7 DEF UndoUnit, Confined, Touched, Typed, i
  <2> QED BY <1>1, <2>1, <2>2, MovedLocal DEF i
<1>8. CASE UndoReload(p)
  <2>1. Moved(p)
    BY <1>1, <1>8, FaultKept DEF UndoReload, Moved, Typed, i, Goto
  <2>2. Confined(p)
    BY <1>1, <1>8 DEF UndoReload, Confined, Touched, Typed, i, DaemonReload
  <2> QED BY <1>1, <2>1, <2>2, MovedLocal DEF i
<1>9. CASE UndoFiles(p)
  <2>1. Moved(p)
    BY <1>1, <1>9, FaultKept DEF UndoFiles, Moved, Typed, i, Return, Goto
  <2>2. Confined(p)
    BY <1>1, <1>9 DEF UndoFiles, Confined, Touched, Typed, i, RemoveAll
  <2> QED BY <1>1, <2>1, <2>2, MovedLocal DEF i
<1>10. CASE UpdateBuild(p)
  <2>1. Moved(p)
    BY <1>1, <1>10, FaultKept DEF UpdateBuild, Moved, Typed, i, Return, Goto
  <2>2. Confined(p)
    BY <1>1, <1>10 DEF UpdateBuild, Confined, Touched, Typed, i
  <2> QED BY <1>1, <2>1, <2>2, MovedLocal DEF i
<1>11. CASE UpdateKeep(p)
  <2>1. Moved(p)
    BY <1>1, <1>11, FaultKept DEF UpdateKeep, Moved, Typed, i, Return, Goto
  <2>2. Confined(p)
    BY <1>1, <1>11 DEF UpdateKeep, Confined, Touched, Typed, i
  <2> QED BY <1>1, <2>1, <2>2, MovedLocal DEF i
<1>12. CASE UpdateSwap(p)
  <2>1. Moved(p)
    BY <1>1, <1>12, FaultKept DEF UpdateSwap, Moved, Typed, i, Return, Goto, Torn
  <2>2. Confined(p)
    BY <1>1, <1>12 DEF UpdateSwap, Confined, Touched, Typed, i, Restored
  <2> QED BY <1>1, <2>1, <2>2, MovedLocal DEF i
<1>13. CASE UpdateRestart(p)
  <2>1. Moved(p)
    BY <1>1, <1>13, FaultKept DEF UpdateRestart, Moved, Typed, i, Return, Goto,
      RestartFails
  <2>2. Confined(p)
    BY <1>1, <1>13 DEF UpdateRestart, Confined, Touched, Typed, i, RestartUnit,
      RestartFails
  <2> QED BY <1>1, <2>1, <2>2, MovedLocal DEF i
<1>14. CASE UpdateRestore(p)
  <2>1. Moved(p)
    BY <1>1, <1>14, FaultKept DEF UpdateRestore, Moved, Typed, i, Return, Goto, Torn
  <2>2. Confined(p)
    BY <1>1, <1>14 DEF UpdateRestore, Confined, Touched, Typed, i, Restored
  <2> QED BY <1>1, <2>1, <2>2, MovedLocal DEF i
<1>15. CASE UpdateRestartAgain(p)
  <2>1. Moved(p)
    BY <1>1, <1>15, FaultKept DEF UpdateRestartAgain, Moved, Typed, i, Return, Goto, Torn,
      RestartFails
  <2>2. Confined(p)
    BY <1>1, <1>15 DEF UpdateRestartAgain, Confined, Touched, Typed, i, RestartUnit,
      RestartFails
  <2> QED BY <1>1, <2>1, <2>2, MovedLocal DEF i
<1>16. CASE RestartRestart(p)
  <2>1. Moved(p)
    BY <1>1, <1>16, FaultKept DEF RestartRestart, Moved, Typed, i, Return, Goto, Torn,
      RestartFails
  <2>2. Confined(p)
    BY <1>1, <1>16 DEF RestartRestart, Confined, Touched, Typed, i, RestartUnit,
      RestartFails
  <2> QED BY <1>1, <2>1, <2>2, MovedLocal DEF i
<1>17. CASE RemoveStop(p)
  <2>1. Moved(p)
    BY <1>1, <1>17, FaultKept DEF RemoveStop, Moved, Typed, i, Return, Goto, Torn
  <2>2. Confined(p)
    BY <1>1, <1>17 DEF RemoveStop, Confined, Touched, Typed, i, DisableNow
  <2> QED BY <1>1, <2>1, <2>2, MovedLocal DEF i
<1>18. CASE RemoveUnit(p)
  <2>1. Moved(p)
    BY <1>1, <1>18, FaultKept DEF RemoveUnit, Moved, Typed, i, Return, Goto, Torn
  <2>2. Confined(p)
    BY <1>1, <1>18 DEF RemoveUnit, Confined, Touched, Typed, i
  <2> QED BY <1>1, <2>1, <2>2, MovedLocal DEF i
<1>19. CASE RemoveReload(p)
  <2>1. Moved(p)
    BY <1>1, <1>19, FaultKept DEF RemoveReload, Moved, Typed, i, Return, Goto, Torn
  <2>2. Confined(p)
    BY <1>1, <1>19 DEF RemoveReload, Confined, Touched, Typed, i, DaemonReload
  <2> QED BY <1>1, <2>1, <2>2, MovedLocal DEF i
<1>20. CASE RemoveFiles(p)
  <2>1. Moved(p)
    BY <1>1, <1>20, FaultKept DEF RemoveFiles, Moved, Typed, i, Return, Goto
  <2>2. Confined(p)
    BY <1>1, <1>20 DEF RemoveFiles, Confined, Touched, Typed, i, RemoveAll
  <2> QED BY <1>1, <2>1, <2>2, MovedLocal DEF i
<1>21. CASE EditUnit(p)
  <2>1. Moved(p)
    BY <1>1, <1>21, FaultKept DEF EditUnit, Moved, Typed, i, Goto
  <2>2. Confined(p)
    BY <1>1, <1>21 DEF EditUnit, Confined, Touched, Typed, i
  <2> QED BY <1>1, <2>1, <2>2, MovedLocal DEF i
<1>22. CASE EditReload(p)
  <2>1. Moved(p)
    BY <1>1, <1>22, FaultKept DEF EditReload, Moved, Typed, i, Goto
  <2>2. Confined(p)
    BY <1>1, <1>22 DEF EditReload, Confined, Touched, Typed, i, DaemonReload
  <2> QED BY <1>1, <2>1, <2>2, MovedLocal DEF i
<1>23. CASE EditRestart(p)
  <2>1. Moved(p)
    BY <1>1, <1>23, FaultKept DEF EditRestart, Moved, Typed, i, Goto, RestartFails
  <2>2. Confined(p)
    BY <1>1, <1>23 DEF EditRestart, Confined, Touched, Typed, i, RestartUnit, RestartFails
  <2> QED BY <1>1, <2>1, <2>2, MovedLocal DEF i
<1>24. CASE EditRestoreUnit(p)
  <2>1. Moved(p)
    BY <1>1, <1>24, FaultKept DEF EditRestoreUnit, Moved, Typed, i, Goto
  <2>2. Confined(p)
    BY <1>1, <1>24 DEF EditRestoreUnit, Confined, Touched, Typed, i
  <2> QED BY <1>1, <2>1, <2>2, MovedLocal DEF i
<1>25. CASE EditRestoreReload(p)
  <2>1. Moved(p)
    BY <1>1, <1>25, FaultKept DEF EditRestoreReload, Moved, Typed, i, Goto
  <2>2. Confined(p)
    BY <1>1, <1>25 DEF EditRestoreReload, Confined, Touched, Typed, i, DaemonReload
  <2> QED BY <1>1, <2>1, <2>2, MovedLocal DEF i
<1>26. CASE EditRestoreRestart(p)
  <2>1. Moved(p)
    BY <1>1, <1>26, FaultKept DEF EditRestoreRestart, Moved, Typed, i, Goto, RestartFails
  <2>2. Confined(p)
    BY <1>1, <1>26 DEF EditRestoreRestart, Confined, Touched, Typed, i, RestartUnit,
      RestartFails
  <2> QED BY <1>1, <2>1, <2>2, MovedLocal DEF i
<1> QED BY <1>2, <1>3, <1>4, <1>5, <1>6, <1>7, <1>8, <1>9, <1>10, <1>11, <1>12,
      <1>13, <1>14, <1>15, <1>16, <1>17, <1>18, <1>19, <1>20, <1>21, <1>22,
      <1>23, <1>24, <1>25, <1>26

-----------------------------------------------------------------------------
(* What is left to show of a command's step.                               *)

LEMMA NamesKept ==
  ASSUME Names, registry' = registry, settled' \subseteq settled, gone' = gone
  PROVE  Names'
BY DEF Names

LEMMA Assemble ==
  ASSUME IInv, NEW p \in Processes, pc[p] # "idle", cmd[p].op # "agents",
         Local(p), Names', Block', Phase(p)',
         \/ pc'[p] = "idle" /\ lock' = NoProcess
         \/ /\ pc'[p] # "idle" /\ lock' = lock /\ value'[p] = registry'
            /\ cmd'[p].op = cmd[p].op /\ Id(p)' = Id(p),
         \A t \in registry'.services : t.id # Id(p) => t \in registry.services,
         settled' \subseteq settled \cup {Id(p)}, gone' \subseteq gone \cup {Id(p)},
         pc'[p] = "idle" => \A t \in registry'.services :
           t.id = Id(p) /\ t.id \in settled' => Matches(t.id, renderUnit(t))',
         \A id \in gone' : id = Id(p) => Absent(id)' /\ binary'[id] = 0
  PROVE  IInv'
<1>1. /\ \A q \in Processes : q # p => pc[q] = "idle" /\ cmd[q] = NoCommand
      /\ lock = p /\ Id(p) \in Ids /\ NoProcess \notin Processes
  BY OneAtWork, PhaseOf, ServiceRegistryAssumption
<1>2. \A q \in Processes : q # p => pc'[q] = "idle" /\ cmd'[q] = NoCommand
  BY <1>1 DEF Local, Elsewhere
<1>3. Holder'
  BY <1>1, <1>2 DEF Holder
<1>4. ASSUME NEW q \in Processes PROVE Phase(q)'
  BY <1>2 DEF Phase
<1>5. ASSUME NEW t \in registry'.services, t.id \in settled', ~Working(t.id)'
      PROVE  Matches(t.id, renderUnit(t))'
  <2>1. CASE t.id = Id(p)
    <3>1. pc'[p] = "idle"
      BY <1>5, <2>1 DEF Working
    <3> QED BY <1>5, <2>1, <3>1
  <2>2. CASE t.id # Id(p)
    <3>1. t \in registry.services /\ t.id \in settled /\ ~Working(t.id) /\ t.id \in Ids
      BY <1>1, <1>5, <2>2 DEF Working, IInv, Typed
    <3>2. Matches(t.id, renderUnit(t))
      BY <3>1 DEF IInv, Resting
    <3> QED BY <2>2, <3>1, <3>2 DEF Matches, Local, Elsewhere
  <2> QED BY <2>1, <2>2
<1>6. ASSUME NEW id \in gone' PROVE Absent(id)' /\ binary'[id] = 0
  <2>1. CASE id = Id(p)
    BY <1>6, <2>1
  <2>2. CASE id # Id(p)
    <3>1. id \in Ids /\ Absent(id) /\ binary[id] = 0
      BY <2>2 DEF IInv, Resting, Typed
    <3> QED BY <2>2, <3>1 DEF Absent, Local, Elsewhere
  <2> QED BY <2>1, <2>2
<1>7. Resting'
  BY <1>5, <1>6 DEF Resting
<1> QED BY <1>3, <1>4, <1>7 DEF IInv, Local

LEMMA NotGone ==
  ASSUME IInv, NEW p \in Processes, pc[p] # "idle", cmd[p].op # "agents",
         ~(cmd[p].op = "remove" /\ pc[p] \in {"files", "agents"})
  PROVE  Id(p) \notin gone
<1>1. /\ \A id \in gone : id < registry.nextID /\ id \notin IdsOf(registry.services)
      /\ \A t \in registry.services : t.id \in IdsOf(registry.services)
      /\ registry.nextID \in Nat
  BY ServiceRegistryAssumption DEF IInv, Names, Typed, IdsOf
<1>2. CASE cmd[p].op = "add"
  <2>1. Adding(p, cmd[p].service)
    BY <1>2, PhaseOf
  <2>2. CASE pc[p] = "agents"
    BY <1>1, <2>1, <2>2 DEF Adding, Id
  <2>3. CASE pc[p] # "agents"
    <3>1. Id(p) = registry.nextID
      BY <2>1, <2>3 DEF Adding, Id
    <3> QED BY <1>1, <3>1
  <2> QED BY <2>2, <2>3
<1>3. CASE cmd[p].op = "update"
  BY <1>1, <1>3, PhaseOf DEF Updating, Id
<1>4. CASE cmd[p].op = "restart"
  BY <1>1, <1>4, PhaseOf DEF Restarting, Id
<1>5. CASE cmd[p].op = "remove"
  BY <1>1, <1>5, PhaseOf DEF Removing, Id
<1>6. CASE cmd[p].op = "edit"
  BY <1>1, <1>6, PhaseOf DEF Editing, Id
<1> QED BY <1>2, <1>3, <1>4, <1>5, <1>6, PhaseOf

LEMMA BlockKept ==
  ASSUME IInv, NEW p \in Processes, pc[p] # "idle",
         registry' = registry, agents' = agents, stale' \in {stale, TRUE},
         stale' \/ ~Saved(p) \/ Saved(p)'
  PROVE  Block'
<1>1. \A q \in Processes : q # p => ~Saved(q)
  BY OneAtWork DEF Saved, NoCommand
<1>2. stale \in BOOLEAN
  BY DEF IInv, Typed
<1>3. CASE ~stale'
  <2>1. agents = agentBlock(registry.services) \/ Saved(p)
    BY <1>1, <1>2, <1>3 DEF IInv, Block
  <2> QED BY <1>3, <2>1 DEF Block
<1> QED BY <1>2, <1>3 DEF Block

\* The registry and AGENTS.md stay, and the command ends.
LEMMA Ending ==
  ASSUME IInv, NEW p \in Processes, pc[p] # "idle", cmd[p].op # "agents",
         Local(p), Return(p), registry' = registry, agents' = agents,
         stale' \in {stale, TRUE}, settled' \subseteq settled, gone' = gone,
         ~(cmd[p].op = "remove" /\ pc[p] \in {"files", "agents"}),
         stale' \/ ~Saved(p),
         Id(p) \in settled' => \A t \in registry.services :
           t.id = Id(p) => Matches(t.id, renderUnit(t))'
  PROVE  IInv'
<1>1. pc'[p] = "idle" /\ cmd'[p] = NoCommand /\ lock' = NoProcess
  BY DEF Return, Goto, IInv, Typed
<1>2. Phase(p)'
  BY <1>1 DEF Phase
<1>3. Names' /\ Block'
  BY NamesKept, BlockKept DEF IInv
<1>4. Id(p) \notin gone
  BY NotGone
<1>5. \A t \in registry'.services : t.id = Id(p) /\ t.id \in settled' => Matches(t.id, renderUnit(t))'
  OBVIOUS
<1> QED BY <1>1, <1>2, <1>3, <1>4, <1>5, Assemble

\* They stay, and the command goes on.
LEMMA Continuing ==
  ASSUME IInv, NEW p \in Processes, pc[p] # "idle", cmd[p].op # "agents",
         Local(p), registry' = registry, agents' = agents,
         stale' \in {stale, TRUE}, settled' \subseteq settled, gone' = gone,
         ~(cmd[p].op = "remove" /\ pc[p] \in {"files", "agents"}),
         stale' \/ ~Saved(p) \/ Saved(p)',
         pc'[p] # "idle", lock' = lock, value'[p] = value[p],
         cmd'[p].op = cmd[p].op, cmd'[p].service = cmd[p].service, Phase(p)'
  PROVE  IInv'
<1>1. Names' /\ Block'
  BY NamesKept, BlockKept DEF IInv
<1>2. Id(p) \notin gone /\ Id(p)' = Id(p) /\ value'[p] = registry'
  BY NotGone, OneAtWork DEF Id
<1> QED BY <1>1, <1>2, Assemble

LEMMA GoesTo ==
  ASSUME Typed, NEW p \in Processes, NEW l, Goto(p, l)
  PROVE  /\ pc'[p] = l
         /\ UNCHANGED <<cmd, value, lock>> =>
              cmd'[p] = cmd[p] /\ value'[p] = value[p] /\ lock' = lock
BY DEF Goto, Typed

LEMMA IdleStays == NoCommand.op = "none" /\ Stopped.version = 0 /\ Stopped.unit = NoUnit
BY DEF NoCommand, Stopped

-----------------------------------------------------------------------------
(* add                                                                     *)

LEMMA AddSteps ==
  ASSUME IInv, NEW p \in Processes, NEW s \in Service, s = cmd[p].service,
         \/ AddBuild(p) \/ AddUnit(p) \/ AddReload(p) \/ AddEnable(p)
         \/ UndoStop(p) \/ UndoUnit(p) \/ UndoReload(p) \/ UndoFiles(p)
  PROVE  IInv'
<1> USE DEF files, systemd, history, Same, At, Clean, Fault
<1>1. /\ pc[p] \in {"build", "unit", "reload", "enable", "undo stop", "undo remove",
                    "undo unit", "undo reload", "undo files"}
      /\ cmd[p].op = "add"
  BY PhaseOf DEF AddBuild, AddUnit, AddReload, AddEnable, UndoStop, UndoUnit, UndoReload, UndoFiles
<1>2. /\ Typed /\ Adding(p, s) /\ s.id = Id(p) /\ Id(p) \in Ids /\ Local(p)
      /\ Id(p) \notin settled /\ ~Saved(p)
  BY <1>1, PhaseOf, StepsAreLocal DEF IInv, Adding, Id, Saved
<1>3. /\ registry' = registry /\ agents' = agents /\ stale' = stale /\ settled' = settled
      /\ gone' = gone
  BY DEF AddBuild, AddUnit, AddReload, AddEnable, UndoStop, UndoUnit, UndoReload, UndoFiles
<1>4. CASE Return(p)
  BY <1>1, <1>2, <1>3, <1>4, Ending
<1>5. ASSUME pc'[p] # "idle", lock' = lock, value' = value, cmd'[p].op = "add",
             cmd'[p].service = s, Adding(p, s)'
      PROVE  IInv'
  BY <1>1, <1>2, <1>3, <1>5, Continuing DEF Phase
<1>6. /\ pc \in [Processes -> STRING] \/ DOMAIN pc = Processes
      /\ cmd[p] \in [op : {"add"}, service : {s}, fresh : BOOLEAN]
      /\ DOMAIN cmd = Processes
  BY <1>2 DEF Adding, Typed
<1>7. CASE AddBuild(p) /\ ~Return(p)
  <2>1. /\ binary'[s.id] = source /\ source # 0 /\ pc'[p] = "unit" /\ pc[p] = "build"
        /\ UNCHANGED <<cmd, value, lock, unitFile, systemd>>
    <3>1. /\ binary' = [binary EXCEPT ![s.id] = source] /\ pc' = [pc EXCEPT ![p] = "unit"]
          /\ pc[p] = "build" /\ UNCHANGED <<cmd, value, lock, unitFile, systemd>>
      BY <1>2, <1>7 DEF AddBuild, Goto
    <3> QED BY <1>2, <3>1 DEF Typed, Versions
  <2>2. Adding(p, s)'
    BY <1>2, <1>3, <2>1 DEF Adding
  <2> QED BY <1>1, <1>5, <2>1, <2>2
<1>8. CASE AddUnit(p) /\ ~Return(p)
  <2>1. /\ unitFile'[s.id] = renderUnit(s) /\ pc'[p] = "reload" /\ pc[p] = "unit"
        /\ UNCHANGED <<cmd, value, lock, files, systemd>>
    <3>1. /\ unitFile' = [unitFile EXCEPT ![s.id] = renderUnit(s)]
          /\ pc' = [pc EXCEPT ![p] = "reload"] /\ pc[p] = "unit"
          /\ UNCHANGED <<cmd, value, lock, files, systemd>>
      BY <1>2, <1>8 DEF AddUnit, Goto
    <3> QED BY <1>2, <3>1 DEF Typed
  <2>2. Adding(p, s)'
    BY <1>2, <1>3, <2>1 DEF Adding
  <2> QED BY <1>1, <1>5, <2>1, <2>2
<1>9. CASE AddReload(p) /\ ~Return(p)
  <2>1. /\ loaded'[s.id] = unitFile[s.id] /\ pc'[p] = "enable" /\ pc[p] = "reload"
        /\ UNCHANGED <<cmd, value, lock, files, unitFile>>
    BY <1>2, <1>9 DEF AddReload, DaemonReload, Goto, Typed
  <2>2. Adding(p, s)'
    BY <1>2, <1>3, <2>1 DEF Adding
  <2> QED BY <1>1, <1>5, <2>1, <2>2
<1>10. CASE AddEnable(p)
  <2>1. UNCHANGED <<value, lock, files, unitFile, loaded>> /\ pc[p] = "enable"
    BY <1>10 DEF AddEnable, EnableNow
  <2>2. CASE pc' = [pc EXCEPT ![p] = "undo stop"] /\ UNCHANGED cmd
    <3>1. Adding(p, s)'
      BY <1>2, <1>3, <2>1, <2>2 DEF Adding, Typed
    <3> QED BY <1>1, <1>2, <1>5, <2>1, <2>2, <3>1 DEF Typed
  <2>3. CASE /\ EnableNow(s.id) /\ pc' = [pc EXCEPT ![p] = "save"]
             /\ cmd' = [cmd EXCEPT ![p].fresh = (running[s.id] = Stopped)]
    <3>1. /\ cmd'[p] \in [op : {"add"}, service : Service, fresh : BOOLEAN]
          /\ cmd'[p].op = "add" /\ cmd'[p].service = s
          /\ cmd'[p].fresh = (running[s.id] = Stopped) /\ pc'[p] = "save"
      BY <1>2, <1>6, <2>3 DEF Typed
    <3>2. /\ binary[s.id] # 0 /\ unitFile[s.id] = renderUnit(s) /\ loaded[s.id] = renderUnit(s)
      BY <1>2, <2>1 DEF Adding
    <3>3. enabled'[s.id] /\ (cmd'[p].fresh => running'[s.id] = Process(s.id))
      BY <1>2, <2>3, <3>1 DEF EnableNow, Typed
    <3>4. cmd'[p].fresh => Matches(s.id, renderUnit(s))'
      BY <2>1, <3>2, <3>3 DEF Matches, Process
    <3>5. Adding(p, s)'
      BY <1>2, <1>3, <2>1, <3>1, <3>2, <3>4 DEF Adding
    <3> QED BY <1>5, <2>1, <3>1, <3>5
  <2> QED BY <1>2, <1>10, <2>2, <2>3 DEF AddEnable, Goto
<1>11. CASE UndoStop(p) \/ UndoUnit(p) \/ UndoReload(p)
  <2>1. /\ pc'[p] \in {"undo unit", "undo reload", "undo files"}
        /\ pc[p] \in {"undo stop", "undo remove", "undo unit", "undo reload"}
        /\ UNCHANGED <<cmd, value, lock>>
    BY <1>2, <1>11 DEF UndoStop, UndoUnit, UndoReload, Goto, Typed
  <2>2. Adding(p, s)'
    BY <1>2, <1>3, <2>1 DEF Adding
  <2> QED BY <1>1, <1>5, <2>1, <2>2
<1> QED BY <1>4, <1>7, <1>8, <1>9, <1>10, <1>11 DEF UndoFiles

\* A step of the registry or of the agents file alone.
LEMMA SavesAreLocal ==
  ASSUME IInv, NEW p \in Processes, UNCHANGED <<source, files, unitFile, systemd>>,
         registry' \in [nextID : 1..(MaxID + 1), services : SUBSET Service],
         DOMAIN pc' = Processes, DOMAIN cmd' = Processes, DOMAIN value' = Processes,
         \A q \in Processes : q # p => pc'[q] = pc[q] /\ cmd'[q] = cmd[q] /\ value'[q] = value[q],
         lock' \in {lock, NoProcess}, faults' \in 0..MaxFaults,
         settled' \subseteq Ids, gone' = gone, stale' \in BOOLEAN
  PROVE  Local(p)
<1> USE DEF files, systemd
<1>1. Typed'
  BY DEF IInv, Typed
<1> QED BY <1>1 DEF Local, Elsewhere

LEMMA AddSaveStep ==
  ASSUME IInv, NEW p \in Processes, NEW s \in Service, s = cmd[p].service, AddSave(p)
  PROVE  IInv'
<1> USE DEF Same, At
<1>1. pc[p] = "save" /\ cmd[p].op = "add" /\ value[p] = registry
  BY OneAtWork DEF AddSave
<1>2. /\ Typed /\ Names /\ Adding(p, s) /\ s.id = Id(p) /\ Id(p) \in Ids
      /\ s.id = registry.nextID /\ Id(p) \notin gone
      /\ registry \in [nextID : 1..(MaxID + 1), services : SUBSET Service]
  BY <1>1, PhaseOf, NotGone DEF IInv, Adding, Id, Typed
<1>3. /\ UNCHANGED <<source, agents, cmd, lock, files, unitFile, systemd, settled, gone, stale>>
      /\ faults' \in 0..MaxFaults
  <2>1. faults' = faults \/ Fails(TRUE)
    BY DEF AddSave, Fault
  <2> QED BY <1>2, <2>1, FaultKept DEF AddSave, Typed
<1>4. CASE UNCHANGED <<registry, value>> /\ Goto(p, "undo remove")
  <2>1. pc'[p] = "undo remove" /\ \A q \in Processes : q # p => pc'[q] = pc[q]
    BY <1>2, <1>4 DEF Goto, Typed
  <2>2. Local(p)
    BY <1>2, <1>3, <1>4, SavesAreLocal DEF Typed, Goto
  <2>3. Adding(p, s)'
    BY <1>1, <1>2, <1>3, <1>4, <2>1 DEF Adding
  <2> QED BY <1>1, <1>2, <1>3, <1>4, <2>1, <2>2, <2>3, Continuing DEF Phase, Saved
<1>5. CASE /\ registry' = [nextID |-> registry.nextID + 1,
                           services |-> registry.services \cup {s}]
           /\ value' = [value EXCEPT ![p] = registry'] /\ Goto(p, "agents")
  <2>1. /\ pc'[p] = "agents" /\ value'[p] = registry'
        /\ \A q \in Processes : q # p => pc'[q] = pc[q] /\ value'[q] = value[q]
    BY <1>2, <1>5 DEF Goto, Typed
  <2>2. /\ registry' \in [nextID : 1..(MaxID + 1), services : SUBSET Service]
        /\ registry.nextID \in 1..MaxID
    BY <1>2, <1>5, ServiceRegistryAssumption DEF Ids
  <2>3. Local(p)
    BY <1>2, <1>3, <1>5, <2>1, <2>2, SavesAreLocal DEF Typed, Goto
  <2>4. Adding(p, s)'
    BY <1>1, <1>2, <1>3, <1>5, <2>1 DEF Adding, Matches, files, systemd
  <2>5. Names'
    <3>1. /\ \A t \in registry.services : t.id < registry.nextID
          /\ \A t \in registry.services : t.meta.name # s.meta.name /\ t.port # s.port
          /\ \A id \in gone : id < registry.nextID
          /\ registry.nextID \in Nat /\ \A t \in registry.services : t.id \in Nat
          /\ \A id \in gone : id \in Nat
      BY <1>1, <1>2, <2>2, ServiceRegistryAssumption DEF Names, Adding, Service, Ids, Typed
    <3>2. /\ \A t \in registry'.services : t.id < registry'.nextID
          /\ \A id \in gone' : id < registry'.nextID
      BY <1>2, <1>3, <1>5, <3>1
    <3>3. \A t, u \in registry'.services :
            t # u => t.id # u.id /\ t.meta.name # u.meta.name /\ t.port # u.port
      BY <1>2, <1>5, <3>1 DEF Names
    <3>4. settled' \subseteq IdsOf(registry'.services) /\ gone' \cap IdsOf(registry'.services) = {}
      BY <1>2, <1>3, <1>5 DEF Names, IdsOf
    <3> QED BY <3>2, <3>3, <3>4 DEF Names, IdsOf
  <2>6. Block'
    BY <1>1, <1>3, <2>1 DEF Block, Saved
  <2> QED BY <1>1, <1>2, <1>3, <1>5, <2>1, <2>3, <2>4, <2>5, <2>6, Assemble DEF Phase, Id
<1> QED BY <1>1, <1>4, <1>5 DEF AddSave

-----------------------------------------------------------------------------
(* update and restart                                                      *)

\* A registered service has its identity to itself.
LEMMA Alone ==
  ASSUME Names, NEW s \in registry.services
  PROVE  \A t \in registry.services : t.id = s.id => t = s
BY DEF Names

LEMMA UpdateSteps ==
  ASSUME IInv, NEW p \in Processes, NEW s \in Service, s = cmd[p].service,
         \/ UpdateBuild(p) \/ UpdateKeep(p) \/ UpdateSwap(p)
         \/ UpdateRestart(p) \/ UpdateRestore(p) \/ UpdateRestartAgain(p)
  PROVE  IInv'
<1> USE DEF systemd, history, Same, At, Clean, Fault
<1>1. /\ cmd[p].op = "update"
      /\ pc[p] \in {"build", "keep", "swap", "restart", "restore", "restart again"}
  BY DEF UpdateBuild, UpdateKeep, UpdateSwap, UpdateRestart, UpdateRestore, UpdateRestartAgain
<1>2. /\ Typed /\ Names /\ Updating(p, s) /\ s.id = Id(p) /\ Id(p) \in Ids
      /\ ~Saved(p) /\ s \in registry.services
      /\ \A t \in registry.services : t.id = s.id => t = s
  <2>1. Updating(p, s) /\ s.id = Id(p) /\ Id(p) \in Ids
    BY <1>1, PhaseOf DEF Id
  <2> QED BY <1>1, <2>1, Alone DEF IInv, Updating, Saved
<1>3. /\ registry' = registry /\ agents' = agents /\ stale' = stale /\ gone' = gone
      /\ settled' \subseteq settled /\ UNCHANGED unitFile /\ Local(p)
  <2>1. Local(p)
    BY <1>1, StepsAreLocal
  <2>2. /\ registry' = registry /\ agents' = agents /\ UNCHANGED unitFile
    BY DEF UpdateBuild, UpdateKeep, UpdateSwap, UpdateRestart, UpdateRestore, UpdateRestartAgain
  <2>3. UNCHANGED <<stale, gone>> /\ settled' \subseteq settled
    BY DEF UpdateBuild, UpdateKeep, UpdateSwap, UpdateRestart, UpdateRestore, UpdateRestartAgain, Torn
  <2> QED BY <2>1, <2>2, <2>3
<1>4. ASSUME Return(p), Id(p) \in settled' => Matches(s.id, renderUnit(s))'
      PROVE  IInv'
  BY <1>1, <1>2, <1>3, <1>4, Ending
<1>5. ASSUME pc'[p] # "idle", lock' = lock, value' = value, cmd'[p].op = "update",
             cmd'[p].service = s, Updating(p, s)'
      PROVE  IInv'
  BY <1>1, <1>2, <1>3, <1>5, Continuing DEF Phase
<1>6. Torn(p) => Id(p) \notin settled' /\ Return(p)
  BY DEF Torn, Id
<1>7. CASE UpdateBuild(p)
  <2>1. UNCHANGED <<binary, systemd>> /\ pc[p] = "build"
    BY <1>7 DEF UpdateBuild
  <2>2. Id(p) \in settled => Matches(s.id, renderUnit(s))'
    BY <1>2, <1>3, <2>1 DEF Updating, Matches
  <2>3. CASE Return(p)
    BY <1>3, <1>4, <2>2, <2>3
  <2>4. CASE /\ cmd' = [cmd EXCEPT ![p].built = source] /\ Goto(p, "keep")
             /\ UNCHANGED <<value, lock>>
    <3>1. /\ cmd'[p] \in [op : {"update"}, service : Service, built : Programs]
          /\ cmd'[p].service = s /\ cmd'[p].op = "update" /\ cmd'[p].built = source
          /\ source # 0 /\ pc'[p] = "keep"
      <4>1. source \in Programs /\ source # 0
        BY <1>2 DEF Typed, Versions, Programs
      <4>2. /\ cmd[p] \in [op : {"update"}, service : Service, built : Programs]
            /\ cmd'[p] = [cmd[p] EXCEPT !.built = source] /\ pc'[p] = "keep"
        BY <1>2, <2>4 DEF Typed, Updating, Goto
      <4> QED BY <4>1, <4>2
    <3>2. Updating(p, s)'
      BY <1>2, <1>3, <2>1, <2>2, <3>1 DEF Updating, Matches
    <3> QED BY <1>5, <2>4, <3>1, <3>2
  <2> QED BY <1>7, <2>3, <2>4 DEF UpdateBuild
<1>8. CASE UpdateKeep(p)
  <2>1. UNCHANGED systemd /\ pc[p] = "keep"
    BY <1>8 DEF UpdateKeep
  <2>2. CASE Return(p) /\ UNCHANGED files
    <3>1. Id(p) \in settled => Matches(s.id, renderUnit(s))'
      BY <1>2, <1>3, <2>1, <2>2 DEF Updating, Matches, files
    <3> QED BY <1>3, <1>4, <2>2, <3>1
  <2>3. CASE /\ binary[s.id] # 0 /\ Goto(p, "swap")
             /\ previous' = [previous EXCEPT ![s.id] = binary[s.id]]
             /\ binary' = [binary EXCEPT ![s.id] = 0]
             /\ UNCHANGED <<cmd, value, lock>>
    <3>1. /\ previous'[s.id] = binary[s.id] /\ binary'[s.id] = 0 /\ pc'[p] = "swap"
      BY <1>2, <2>3 DEF Typed, Goto
    <3>2. Updating(p, s)'
      BY <1>2, <1>3, <2>1, <2>3, <3>1 DEF Updating, Matches
    <3> QED BY <1>1, <1>5, <2>3, <3>1, <3>2
  <2> QED BY <1>2, <1>8, <2>2, <2>3 DEF UpdateKeep
<1>9. CASE UpdateSwap(p)
  <2>1. UNCHANGED systemd /\ pc[p] = "swap"
    BY <1>9 DEF UpdateSwap
  <2>2. CASE Torn(p)
    BY <1>4, <1>6, <2>2
  <2>3. CASE Restored(p) /\ Return(p)
    <3>1. binary'[s.id] = previous[s.id]
      BY <1>2, <2>3 DEF Restored, Typed
    <3>2. Id(p) \in settled => Matches(s.id, renderUnit(s))'
      BY <1>2, <1>3, <2>1, <3>1 DEF Updating, Matches
    <3> QED BY <1>3, <1>4, <2>3, <3>2
  <2>4. CASE /\ binary' = [binary EXCEPT ![s.id] = cmd[p].built] /\ Goto(p, "restart")
             /\ UNCHANGED <<cmd, value, lock, previous>>
    <3>1. binary'[s.id] = cmd[p].built /\ pc'[p] = "restart"
      BY <1>2, <2>4 DEF Typed, Goto
    <3>2. Updating(p, s)'
      BY <1>2, <1>3, <2>1, <2>4, <3>1 DEF Updating
    <3> QED BY <1>1, <1>5, <2>4, <3>1, <3>2
  <2> QED BY <1>2, <1>9, <2>2, <2>3, <2>4 DEF UpdateSwap
<1>10. CASE UpdateRestart(p)
  <2>1. pc[p] = "restart"
    BY <1>10 DEF UpdateRestart
  <2>2. CASE RestartUnit(s.id) /\ Return(p) /\ UNCHANGED binary
    <3>1. /\ running'[s.id] = [version |-> binary[s.id], unit |-> loaded[s.id]]
          /\ UNCHANGED <<loaded, enabled>>
      BY <1>2, <2>2 DEF RestartUnit, Typed, Process
    <3>2. Id(p) \in settled => Matches(s.id, renderUnit(s))'
      BY <1>2, <1>3, <2>1, <2>2, <3>1 DEF Updating, Matches
    <3> QED BY <1>3, <1>4, <2>2, <3>2
  <2>3. CASE /\ RestartFails(s.id) /\ Goto(p, "restore") /\ UNCHANGED <<cmd, value, lock, previous>>
    <3>1. UNCHANGED <<loaded, enabled>> /\ pc'[p] = "restore"
      BY <1>2, <2>3 DEF RestartFails, Goto, Typed
    <3>2. Updating(p, s)'
      BY <1>2, <1>3, <2>1, <2>3, <3>1 DEF Updating
    <3> QED BY <1>1, <1>5, <2>3, <3>1, <3>2
  <2> QED BY <1>2, <1>10, <2>2, <2>3 DEF UpdateRestart
<1>11. CASE UpdateRestore(p)
  <2>1. UNCHANGED systemd /\ pc[p] = "restore"
    BY <1>11 DEF UpdateRestore
  <2>2. CASE Torn(p)
    BY <1>4, <1>6, <2>2
  <2>3. CASE Restored(p) /\ Goto(p, "restart again") /\ UNCHANGED <<cmd, value, lock>>
    <3>1. binary'[s.id] = previous[s.id] /\ pc'[p] = "restart again"
      BY <1>2, <2>3 DEF Restored, Typed, Goto
    <3>2. Updating(p, s)'
      BY <1>2, <1>3, <2>1, <2>3, <3>1 DEF Updating
    <3> QED BY <1>1, <1>5, <2>3, <3>1, <3>2
  <2> QED BY <1>2, <1>11, <2>2, <2>3 DEF UpdateRestore
<1>12. CASE UpdateRestartAgain(p)
  <2>1. pc[p] = "restart again" /\ UNCHANGED binary
    BY <1>12 DEF UpdateRestartAgain, files
  <2>2. CASE Torn(p)
    BY <1>4, <1>6, <2>2
  <2>3. CASE RestartUnit(s.id) /\ Return(p)
    <3>1. /\ running'[s.id] = [version |-> binary[s.id], unit |-> loaded[s.id]]
          /\ UNCHANGED <<loaded, enabled>>
      BY <1>2, <2>3 DEF RestartUnit, Typed, Process
    <3>2. Id(p) \in settled => Matches(s.id, renderUnit(s))'
      BY <1>2, <1>3, <2>1, <3>1 DEF Updating, Matches
    <3> QED BY <1>3, <1>4, <2>3, <3>2
  <2> QED BY <1>2, <1>12, <2>2, <2>3 DEF UpdateRestartAgain
<1> QED BY <1>7, <1>8, <1>9, <1>10, <1>11, <1>12

LEMMA RestartStep ==
  ASSUME IInv, NEW p \in Processes, NEW s \in Service, s = cmd[p].service, RestartRestart(p)
  PROVE  IInv'
<1> USE DEF systemd, history, Same, At, Clean
<1>1. cmd[p].op = "restart" /\ pc[p] = "restart"
  BY DEF RestartRestart
<1>2. /\ Typed /\ Names /\ Restarting(p, s) /\ s.id = Id(p) /\ Id(p) \in Ids
      /\ ~Saved(p) /\ s \in registry.services /\ Local(p)
      /\ \A t \in registry.services : t.id = s.id => t = s
  <2>1. Restarting(p, s) /\ s.id = Id(p) /\ Id(p) \in Ids
    BY <1>1, PhaseOf DEF Id
  <2> QED BY <1>1, <2>1, Alone, StepsAreLocal DEF IInv, Restarting, Saved
<1>3. /\ registry' = registry /\ agents' = agents /\ stale' = stale /\ gone' = gone
      /\ settled' \subseteq settled /\ UNCHANGED <<binary, unitFile>> /\ Return(p)
  BY DEF RestartRestart, Torn, files
<1>4. CASE Torn(p)
  <2>1. Id(p) \notin settled'
    BY <1>4 DEF Torn, Id
  <2> QED BY <1>1, <1>2, <1>3, <2>1, Ending
<1>5. CASE RestartUnit(s.id)
  <2>1. /\ running'[s.id] = [version |-> binary[s.id], unit |-> loaded[s.id]]
        /\ UNCHANGED <<loaded, enabled>>
    BY <1>2, <1>5 DEF RestartUnit, Typed, Process
  <2>2. s.id \in settled => Matches(s.id, renderUnit(s))'
    BY <1>2, <1>3, <2>1 DEF Restarting, Matches
  <2> QED BY <1>1, <1>2, <1>3, <2>2, Ending
<1> QED BY <1>2, <1>4, <1>5 DEF RestartRestart

-----------------------------------------------------------------------------
(* remove                                                                  *)

LEMMA RemoveSteps ==
  ASSUME IInv, NEW p \in Processes, NEW s \in Service, s = cmd[p].service,
         RemoveStop(p) \/ RemoveUnit(p) \/ RemoveReload(p)
  PROVE  IInv'
<1> USE DEF systemd, history, Same, At, Fault
<1>1. cmd[p].op = "remove" /\ pc[p] \in {"stop", "unit", "reload"}
  BY DEF RemoveStop, RemoveUnit, RemoveReload
<1>2. /\ Typed /\ Removing(p, s) /\ s.id = Id(p) /\ Id(p) \in Ids /\ ~Saved(p)
      /\ s \in registry.services /\ Local(p)
  <2>1. Removing(p, s) /\ s.id = Id(p) /\ Id(p) \in Ids
    BY <1>1, PhaseOf DEF Id
  <2> QED BY <1>1, <2>1, StepsAreLocal DEF IInv, Removing, Saved
<1>3. /\ registry' = registry /\ agents' = agents /\ stale' = stale /\ gone' = gone
      /\ settled' \subseteq settled
  BY DEF RemoveStop, RemoveUnit, RemoveReload, Torn
<1>4. CASE Torn(p)
  <2>1. Id(p) \notin settled' /\ Return(p)
    BY <1>4 DEF Torn, Id
  <2> QED BY <1>1, <1>2, <1>3, <2>1, Ending
<1>5. ASSUME pc'[p] \in {"unit", "reload", "save"}, UNCHANGED <<cmd, value, lock>>, Removing(p, s)'
      PROVE  IInv'
  BY <1>1, <1>2, <1>3, <1>5, Continuing DEF Phase
<1>6. CASE RemoveStop(p) /\ ~Torn(p)
  <2>1. DisableNow(s.id) /\ Goto(p, "unit") /\ UNCHANGED <<cmd, value, lock>>
    BY <1>2, <1>6 DEF RemoveStop
  <2>2. ~enabled'[s.id] /\ running'[s.id] = Stopped /\ pc'[p] = "unit"
    BY <1>2, <2>1 DEF DisableNow, Goto, Typed
  <2>3. Removing(p, s)'
    BY <1>2, <1>3, <2>1, <2>2 DEF Removing
  <2> QED BY <1>5, <2>1, <2>2, <2>3
<1>7. CASE RemoveUnit(p) /\ ~Torn(p)
  <2>1. /\ unitFile' = [unitFile EXCEPT ![s.id] = NoUnit] /\ Goto(p, "reload") /\ pc[p] = "unit"
        /\ UNCHANGED <<cmd, value, lock, systemd>>
    BY <1>2, <1>7 DEF RemoveUnit
  <2>2. unitFile'[s.id] = NoUnit /\ pc'[p] = "reload"
    BY <1>2, <2>1 DEF Goto, Typed
  <2>3. Removing(p, s)'
    BY <1>2, <1>3, <2>1, <2>2 DEF Removing
  <2> QED BY <1>5, <2>1, <2>2, <2>3
<1>8. CASE RemoveReload(p) /\ ~Torn(p)
  <2>1. /\ Goto(p, "save") /\ pc[p] = "reload"
        /\ UNCHANGED <<cmd, value, lock, enabled, running, unitFile>>
    BY <1>2, <1>8 DEF RemoveReload, DaemonReload
  <2>2. pc'[p] = "save"
    BY <1>2, <2>1 DEF Goto, Typed
  <2>3. Removing(p, s)'
    BY <1>2, <1>3, <2>1, <2>2 DEF Removing
  <2> QED BY <1>5, <2>1, <2>2, <2>3
<1> QED BY <1>4, <1>6, <1>7, <1>8

LEMMA RemoveSaveStep ==
  ASSUME IInv, NEW p \in Processes, NEW s \in Service, s = cmd[p].service, RemoveSave(p)
  PROVE  IInv'
<1> USE DEF Same, At, history
<1>1. pc[p] = "save" /\ cmd[p].op = "remove" /\ value[p] = registry
  BY OneAtWork DEF RemoveSave
<1>2. /\ Typed /\ Names /\ Removing(p, s) /\ s.id = Id(p) /\ Id(p) \in Ids
      /\ s \in registry.services /\ Id(p) \notin gone
      /\ registry \in [nextID : 1..(MaxID + 1), services : SUBSET Service]
  BY <1>1, PhaseOf, NotGone DEF IInv, Removing, Id, Typed
<1>3. /\ UNCHANGED <<source, agents, files, unitFile, systemd, gone, stale>>
      /\ faults' \in 0..MaxFaults /\ settled' = settled \ {s.id}
  <2>1. faults' = faults \/ Fails(TRUE)
    BY DEF RemoveSave, Fault
  <2> QED BY <1>2, <2>1, FaultKept DEF RemoveSave, Torn, Typed
<1>4. CASE Torn(p) /\ UNCHANGED registry
  <2>1. /\ Return(p) /\ Id(p) \notin settled' /\ lock' \in {lock, NoProcess}
        /\ DOMAIN pc' = Processes /\ DOMAIN cmd' = Processes /\ DOMAIN value' = Processes
        /\ \A q \in Processes : q # p =>
             pc'[q] = pc[q] /\ cmd'[q] = cmd[q] /\ value'[q] = value[q]
    BY <1>2, <1>3, <1>4 DEF Torn, Return, Goto, Typed
  <2>2. Local(p)
    BY <1>2, <1>3, <1>4, <2>1, SavesAreLocal DEF Typed
  <2> QED BY <1>1, <1>2, <1>3, <1>4, <2>1, <2>2, Ending DEF Saved
<1>5. CASE /\ registry' = [registry EXCEPT !.services = @ \ {s}]
           /\ value' = [value EXCEPT ![p] = registry'] /\ Goto(p, "files")
           /\ UNCHANGED <<cmd, lock>>
  <2>1. /\ pc'[p] = "files" /\ value'[p] = registry'
        /\ \A q \in Processes : q # p => pc'[q] = pc[q] /\ value'[q] = value[q]
        /\ DOMAIN pc' = Processes /\ DOMAIN value' = Processes
        /\ registry'.services = registry.services \ {s} /\ registry'.nextID = registry.nextID
        /\ registry' \in [nextID : 1..(MaxID + 1), services : SUBSET Service]
    BY <1>2, <1>5 DEF Goto, Typed
  <2>2. Local(p)
    BY <1>2, <1>3, <1>5, <2>1, SavesAreLocal DEF Typed
  <2>3. s.id \notin IdsOf(registry'.services) /\ s.id < registry'.nextID
    BY <1>2, <2>1 DEF Names, IdsOf
  <2>4. Removing(p, s)'
    BY <1>1, <1>2, <1>3, <1>5, <2>1, <2>3 DEF Removing, systemd
  <2>5. Names'
    <3>1. settled' \subseteq IdsOf(registry'.services)
      BY <1>2, <1>3, <2>1 DEF Names, IdsOf
    <3>2. IdsOf(registry'.services) \subseteq IdsOf(registry.services)
      BY <2>1 DEF IdsOf
    <3> QED BY <1>2, <1>3, <2>1, <3>1, <3>2 DEF Names, IdsOf
  <2>6. Block'
    BY <1>1, <1>5, <2>1 DEF Block, Saved
  <2> QED BY <1>1, <1>2, <1>3, <1>5, <2>1, <2>2, <2>4, <2>5, <2>6, Assemble DEF Phase, Id
<1> QED BY <1>1, <1>2, <1>4, <1>5 DEF RemoveSave

\* What was removed is as if it had never been there.
LEMMA RemoveFilesStep ==
  ASSUME IInv, NEW p \in Processes, NEW s \in Service, s = cmd[p].service, RemoveFiles(p)
  PROVE  IInv'
<1> USE DEF Same, At, history, systemd
<1>1. pc[p] = "files" /\ cmd[p].op = "remove" /\ value[p] = registry
  BY OneAtWork DEF RemoveFiles
<1>2. /\ Typed /\ Names /\ Removing(p, s) /\ s.id = Id(p) /\ Id(p) \in Ids
      /\ s.id \notin IdsOf(registry.services) /\ s.id < registry.nextID /\ Absent(s.id) /\ Local(p)
      /\ \A t \in registry.services : t.id # s.id
  <2>1. Removing(p, s) /\ s.id = Id(p) /\ Id(p) \in Ids /\ Local(p)
    BY <1>1, PhaseOf, StepsAreLocal DEF Id
  <2> QED BY <1>1, <2>1 DEF IInv, Removing, IdsOf, Absent
<1>3. /\ UNCHANGED <<registry, agents, settled, unitFile, systemd>> /\ Absent(s.id)'
  <2>1. UNCHANGED <<registry, agents, settled, unitFile, systemd>>
    BY DEF RemoveFiles
  <2> QED BY <1>2, <2>1 DEF Absent
<1>4. CASE RemoveAll(s.id) /\ Goto(p, "agents") /\ gone' = gone \cup {s.id} /\ UNCHANGED <<cmd, value, lock, stale>>
  <2>1. binary'[s.id] = 0 /\ pc'[p] = "agents"
    BY <1>2, <1>4 DEF RemoveAll, Goto, Typed
  <2>2. Removing(p, s)' /\ Names' /\ Block'
    <3>1. Removing(p, s)'
      BY <1>1, <1>2, <1>3, <1>4, <2>1 DEF Removing
    <3>2. Names'
      BY <1>2, <1>3, <1>4 DEF Names
    <3>3. Block'
      BY <1>1, <1>4, <2>1 DEF Block, Saved
    <3> QED BY <3>1, <3>2, <3>3
  <2> QED BY <1>1, <1>2, <1>3, <1>4, <2>1, <2>2, Assemble DEF Phase, Id
<1>5. CASE Return(p) /\ stale' = TRUE /\ UNCHANGED <<files, gone>>
  <2>1. pc'[p] = "idle" /\ cmd'[p] = NoCommand /\ lock' = NoProcess
    BY <1>2, <1>5 DEF Return, Goto, Typed
  <2>2. Phase(p)' /\ Names' /\ Block'
    BY <1>2, <1>3, <1>5, <2>1, NamesKept DEF Phase, Block
  <2>3. \A id \in gone' : id = Id(p) => Absent(id)' /\ binary'[id] = 0
    BY <1>3, <1>5, <1>2 DEF files, IInv, Resting
  <2> QED BY <1>1, <1>2, <1>3, <1>5, <2>1, <2>2, <2>3, Assemble
<1> QED BY <1>2, <1>4, <1>5 DEF RemoveFiles

-----------------------------------------------------------------------------
(* edit                                                                    *)

LEMMA EditSteps ==
  ASSUME IInv, NEW p \in Processes, NEW s \in Service, NEW old \in Service,
         s = cmd[p].service, old = cmd[p].old,
         \/ EditUnit(p) \/ EditReload(p) \/ EditRestart(p)
         \/ EditRestoreUnit(p) \/ EditRestoreReload(p) \/ EditRestoreRestart(p)
  PROVE  IInv'
<1> USE DEF history, Same, At, Fault
<1>1. /\ cmd[p].op = "edit"
      /\ pc[p] \in {"unit", "reload", "restart", "restore unit", "restore reload", "restore restart"}
  BY DEF EditUnit, EditReload, EditRestart, EditRestoreUnit, EditRestoreReload, EditRestoreRestart
<1>2. /\ Typed /\ Editing(p, s, old) /\ s.id = Id(p) /\ Id(p) \in Ids /\ Local(p) /\ Saved(p)
  <2>1. Editing(p, s, old) /\ s.id = Id(p) /\ Id(p) \in Ids
    BY <1>1, PhaseOf DEF Id
  <2> QED BY <1>1, <2>1, StepsAreLocal DEF IInv, Saved
<1>3. /\ UNCHANGED <<registry, agents, stale, gone, lock, value, files>>
      /\ settled' = settled \/ settled' = settled \ {s.id}
  <2>1. UNCHANGED <<registry, agents, stale, gone, lock, value, files>>
    BY DEF EditUnit, EditReload, EditRestart, EditRestoreUnit, EditRestoreReload,
      EditRestoreRestart, RestartFails
  <2> QED BY <1>2, <2>1 DEF EditUnit, EditReload, EditRestart, EditRestoreUnit,
        EditRestoreReload, EditRestoreRestart
<1>4. ASSUME pc'[p] \in {"reload", "restart", "restore unit", "restore reload",
                         "restore restart", "registry", "agents"},
             cmd'[p] \in [op : {"edit"}, service : {s}, old : {old}, oldUnit : Texts,
                          runtime : BOOLEAN],
             s.id \in settled' =>
               /\ s.id \in settled /\ enabled'[s.id] = enabled[s.id]
               /\ pc'[p] = "registry" => Matches(s.id, renderUnit(old))'
               /\ pc'[p] = "agents" => Matches(s.id, renderUnit(s))'
               /\ pc'[p] \in {"reload", "restart", "restore unit"} => cmd'[p].oldUnit = renderUnit(old)
               /\ pc'[p] = "reload" => unitFile'[s.id] = renderUnit(s)
               /\ pc'[p] = "restart" => unitFile'[s.id] = renderUnit(s) /\ loaded'[s.id] = renderUnit(s)
               /\ pc'[p] \in {"restore reload", "restore restart"} => unitFile'[s.id] = renderUnit(old)
               /\ pc'[p] = "restore restart" => loaded'[s.id] = renderUnit(old)
      PROVE  IInv'
  <2>1. cmd'[p] \in [op : {"edit"}, service : Service, old : Service, oldUnit : Texts,
                     runtime : BOOLEAN]
        /\ cmd'[p].op = "edit" /\ cmd'[p].service = s /\ cmd'[p].old = old
    BY <1>4
  <2>2. UNCHANGED <<binary, agents, registry, stale>>
    BY <1>3 DEF files
  <2>3. /\ pc'[p] \in {"save", "unit", "reload", "restart", "restore unit", "restore reload",
                       "restore restart", "registry", "agents"}
        /\ old.id = s.id /\ old.port = s.port
        /\ \A t \in registry'.services : t.id # s.id =>
             t.meta.name # s.meta.name /\ t.meta.name # old.meta.name
        /\ pc'[p] # "save" /\ s \in registry'.services
        /\ ~stale' => agents' = agentBlock((registry'.services \ {s}) \cup {old})
    BY <1>1, <1>2, <1>4, <2>2 DEF Editing
  <2>4. s.id \in settled' => enabled'[s.id] /\ binary'[s.id] # 0
    BY <1>2, <1>4, <2>2 DEF Editing
  <2>5. pc'[p] # "unit"
    BY <1>4
  <2>6. Editing(p, s, old)'
    BY <1>4, <2>1, <2>3, <2>4, <2>5 DEF Editing
  <2>7. Phase(p)' /\ Saved(p)'
    BY <2>1, <2>3, <2>6 DEF Phase, Saved
  <2> QED BY <1>1, <1>2, <1>3, <1>4, <2>1, <2>7, Continuing
<1>5. cmd[p] \in [op : {"edit"}, service : {s}, old : {old}, oldUnit : Texts,
                  runtime : BOOLEAN]
  BY <1>2 DEF Editing
<1>6. CASE EditUnit(p)
  <2>1. /\ pc[p] = "unit" /\ UNCHANGED <<systemd, settled>>
    BY <1>6 DEF EditUnit
  <2>2. s.id \in settled => Matches(s.id, renderUnit(old))
    BY <1>2, <2>1 DEF Editing
  <2>3. CASE UNCHANGED <<cmd, unitFile>> /\ Goto(p, "registry")
    <3>1. pc'[p] = "registry"
      BY <1>2, <2>3 DEF Goto, Typed
    <3> QED BY <1>3, <1>4, <1>5, <2>1, <2>2, <2>3, <3>1 DEF Matches, systemd, files
  <2>4. CASE /\ cmd' = [cmd EXCEPT ![p].oldUnit = unitFile[s.id]] /\ Goto(p, "reload")
             /\ unitFile' = [unitFile EXCEPT ![s.id] = renderUnit(s)]
    <3>1. pc'[p] = "reload" /\ unitFile'[s.id] = renderUnit(s) /\ unitFile[s.id] \in Texts
      BY <1>2, <2>4 DEF Goto, Typed
    <3>2. cmd'[p] = [cmd[p] EXCEPT !.oldUnit = unitFile[s.id]]
      BY <1>2, <2>4 DEF Typed
    <3>3. /\ cmd'[p] \in [op : {"edit"}, service : {s}, old : {old}, oldUnit : Texts,
                          runtime : BOOLEAN]
          /\ cmd'[p].oldUnit = unitFile[s.id]
      BY <1>5, <3>1, <3>2
    <3> QED BY <1>4, <2>1, <2>2, <3>1, <3>3 DEF Matches, systemd
  <2> QED BY <1>2, <1>6, <2>3, <2>4 DEF EditUnit
<1>7. CASE EditReload(p)
  <2>1. pc[p] = "reload" /\ UNCHANGED <<cmd, unitFile, enabled, settled>>
    BY <1>7 DEF EditReload, DaemonReload, systemd
  <2>2. s.id \in settled => cmd[p].oldUnit = renderUnit(old) /\ unitFile[s.id] = renderUnit(s)
    BY <1>2, <2>1 DEF Editing
  <2>3. CASE Goto(p, "restore unit")
    <3>1. pc'[p] = "restore unit"
      BY <1>2, <2>3 DEF Goto, Typed
    <3> QED BY <1>4, <1>5, <2>1, <2>2, <3>1
  <2>4. CASE loaded' = unitFile /\ Goto(p, "restart")
    <3>1. pc'[p] = "restart"
      BY <1>2, <2>4 DEF Goto, Typed
    <3> QED BY <1>4, <1>5, <2>1, <2>2, <2>4, <3>1
  <2> QED BY <1>7, <2>3, <2>4 DEF EditReload, DaemonReload
<1>8. CASE EditRestart(p)
  <2>1. pc[p] = "restart" /\ UNCHANGED <<cmd, unitFile, loaded, enabled, settled>>
    BY <1>8 DEF EditRestart, RestartUnit, RestartFails
  <2>2. s.id \in settled =>
          /\ cmd[p].oldUnit = renderUnit(old) /\ unitFile[s.id] = renderUnit(s)
          /\ loaded[s.id] = renderUnit(s) /\ enabled[s.id] /\ binary[s.id] # 0
    BY <1>2, <2>1 DEF Editing
  <2>3. CASE Goto(p, "restore unit")
    <3>1. pc'[p] = "restore unit"
      BY <1>2, <2>3 DEF Goto, Typed
    <3> QED BY <1>4, <1>5, <2>1, <2>2, <3>1
  <2>4. CASE RestartUnit(s.id) /\ Goto(p, "agents")
    <3>1. pc'[p] = "agents" /\ running'[s.id] = Process(s.id)
      BY <1>2, <2>4 DEF Goto, Typed, RestartUnit
    <3>2. s.id \in settled => Matches(s.id, renderUnit(s))'
      BY <1>3, <2>1, <2>2, <3>1 DEF Matches, Process, files
    <3> QED BY <1>4, <1>5, <2>1, <3>1, <3>2
  <2> QED BY <1>2, <1>8, <2>3, <2>4 DEF EditRestart
<1>9. CASE EditRestoreUnit(p)
  <2>1. /\ pc[p] = "restore unit" /\ pc'[p] = "restore reload" /\ UNCHANGED <<cmd, systemd>>
    BY <1>2, <1>9 DEF EditRestoreUnit, Goto, Typed
  <2>2. s.id \in settled' => s.id \in settled /\ unitFile' = [unitFile EXCEPT ![s.id] = cmd[p].oldUnit]
    BY <1>2, <1>9 DEF EditRestoreUnit
  <2>3. s.id \in settled' => unitFile'[s.id] = renderUnit(old)
    BY <1>2, <2>1, <2>2 DEF Editing, Typed
  <2> QED BY <1>4, <1>5, <2>1, <2>2, <2>3 DEF systemd
<1>10. CASE EditRestoreReload(p)
  <2>1. /\ pc[p] = "restore reload" /\ pc'[p] = "restore restart"
        /\ UNCHANGED <<cmd, unitFile, enabled>>
    BY <1>2, <1>10 DEF EditRestoreReload, Goto, Typed, DaemonReload, systemd
  <2>2. s.id \in settled' => s.id \in settled /\ loaded' = unitFile
    BY <1>2, <1>10 DEF EditRestoreReload, DaemonReload
  <2>3. s.id \in settled' => unitFile'[s.id] = renderUnit(old) /\ loaded'[s.id] = renderUnit(old)
    BY <1>2, <2>1, <2>2 DEF Editing
  <2> QED BY <1>4, <1>5, <2>1, <2>2, <2>3
<1>11. CASE EditRestoreRestart(p)
  <2>1. /\ pc[p] = "restore restart" /\ pc'[p] = "registry"
        /\ UNCHANGED <<cmd, unitFile, loaded, enabled>>
    BY <1>2, <1>11 DEF EditRestoreRestart, Goto, Typed, RestartUnit, RestartFails
  <2>2. s.id \in settled' => s.id \in settled /\ running'[s.id] = Process(s.id)
    BY <1>2, <1>11 DEF EditRestoreRestart, RestartUnit, Typed
  <2>3. s.id \in settled' => Matches(s.id, renderUnit(old))'
    BY <1>2, <1>3, <2>1, <2>2 DEF Editing, Matches, Process, files
  <2> QED BY <1>4, <1>5, <2>1, <2>2, <2>3
<1> QED BY <1>6, <1>7, <1>8, <1>9, <1>10, <1>11

\* A service takes the place of one with the same id and port.
LEMMA Replaced ==
  ASSUME Typed, Names, NEW a \in registry.services, NEW b \in Service, a.id = b.id, a.port = b.port,
         \A t \in registry.services : t.id # b.id => t.meta.name # b.meta.name,
         registry' = [registry EXCEPT !.services = (@ \ {a}) \cup {b}],
         settled' \subseteq settled, gone' = gone
  PROVE  /\ Names' /\ b \in registry'.services
         /\ registry' \in [nextID : 1..(MaxID + 1), services : SUBSET Service]
         /\ registry'.services = (registry.services \ {a}) \cup {b}
         /\ (registry'.services \ {b}) \cup {a} = registry.services
         /\ \A t \in registry'.services : t.id # b.id => t \in registry.services
<1>1. /\ registry'.services = (registry.services \ {a}) \cup {b} /\ registry'.nextID = registry.nextID
      /\ registry' \in [nextID : 1..(MaxID + 1), services : SUBSET Service]
  BY DEF Typed
<1>2. \A t \in registry.services : t # a => t.id # b.id /\ t.port # b.port
  BY DEF Names
<1>3. (registry'.services \ {b}) \cup {a} = registry.services
  BY <1>1, <1>2
<1>4. \A t, u \in registry'.services :
        t # u => t.id # u.id /\ t.meta.name # u.meta.name /\ t.port # u.port
  BY <1>1, <1>2 DEF Names
<1>5. IdsOf(registry'.services) = IdsOf(registry.services)
  BY <1>1 DEF IdsOf
<1>6. /\ \A t \in registry'.services : t.id < registry'.nextID
      /\ settled' \subseteq IdsOf(registry'.services)
      /\ gone' \cap IdsOf(registry'.services) = {} /\ \A id \in gone' : id < registry'.nextID
  BY <1>1, <1>5 DEF Names
<1>7. Names'
  BY <1>4, <1>6 DEF Names, IdsOf
<1> QED BY <1>1, <1>2, <1>3, <1>7

LEMMA EditSaveStep ==
  ASSUME IInv, NEW p \in Processes, NEW s \in Service, NEW old \in Service,
         s = cmd[p].service, old = cmd[p].old, EditSave(p)
  PROVE  IInv'
<1> USE DEF Same, At, history
<1>1. pc[p] = "save" /\ cmd[p].op = "edit" /\ value[p] = registry
  BY OneAtWork DEF EditSave
<1>2. /\ Typed /\ Names /\ Editing(p, s, old) /\ s.id = Id(p) /\ Id(p) \in Ids /\ Id(p) \notin gone
      /\ old \in registry.services /\ old.id = s.id /\ old.port = s.port
      /\ \A t \in registry.services : t.id # s.id =>
           t.meta.name # s.meta.name /\ t.meta.name # old.meta.name
      /\ registry \in [nextID : 1..(MaxID + 1), services : SUBSET Service]
      /\ s.id \in settled => Matches(s.id, renderUnit(old))
      /\ ~cmd[p].runtime => s.conf = old.conf
      /\ \A t \in registry.services : t.id = s.id => t = old
  <2>1. Editing(p, s, old) /\ s.id = Id(p) /\ Id(p) \in Ids
    BY <1>1, PhaseOf DEF Id
  <2>2. Typed /\ Names /\ Id(p) \notin gone
    BY <1>1, NotGone DEF IInv
  <2>3. old \in registry.services /\ old.id = s.id
    BY <1>1, <2>1 DEF Editing
  <2> QED BY <1>1, <2>1, <2>2, <2>3, Alone DEF Editing, Typed
<1>3. /\ UNCHANGED <<source, agents, files, unitFile, systemd, gone, stale, settled>>
      /\ faults' \in 0..MaxFaults
  <2>1. faults' = faults \/ Fails(TRUE)
    BY DEF EditSave, Fault
  <2> QED BY <1>2, <2>1, FaultKept DEF EditSave, Clean, Typed
<1>4. ASSUME NEW unit, Matches(s.id, unit) PROVE Matches(s.id, unit)'
  BY <1>3, <1>4 DEF Matches, files, systemd
<1>5. CASE Return(p) /\ UNCHANGED registry
  <2>1. /\ lock' \in {lock, NoProcess}
        /\ DOMAIN pc' = Processes /\ DOMAIN cmd' = Processes /\ DOMAIN value' = Processes
        /\ \A q \in Processes : q # p =>
             pc'[q] = pc[q] /\ cmd'[q] = cmd[q] /\ value'[q] = value[q]
    BY <1>2, <1>5 DEF Return, Goto, Typed
  <2>2. Local(p)
    BY <1>2, <1>3, <1>5, <2>1, SavesAreLocal DEF Typed
  <2>3. ~Saved(p)
    BY <1>1 DEF Saved
  <2>4. s.id \in settled => Matches(s.id, renderUnit(old))'
    BY <1>2, <1>3 DEF Matches, files, systemd
  <2> QED BY <1>1, <1>2, <1>3, <1>5, <2>2, <2>3, <2>4, Ending
<1>6. CASE /\ registry' = [registry EXCEPT !.services = (@ \ {old}) \cup {s}]
           /\ value' = [value EXCEPT ![p] = registry']
           /\ Goto(p, IF runtimeChanged(p) THEN "unit" ELSE "agents")
           /\ UNCHANGED <<cmd, lock>>
  <2>1. /\ pc'[p] \in {"unit", "agents"} /\ value'[p] = registry'
        /\ pc'[p] = "agents" => s.conf = old.conf
        /\ \A q \in Processes : q # p => pc'[q] = pc[q] /\ value'[q] = value[q]
        /\ DOMAIN pc' = Processes /\ DOMAIN value' = Processes
    BY <1>2, <1>6 DEF Goto, Typed, runtimeChanged
  <2>2. /\ Names' /\ s \in registry'.services
        /\ registry' \in [nextID : 1..(MaxID + 1), services : SUBSET Service]
        /\ (registry'.services \ {s}) \cup {old} = registry.services
        /\ \A t \in registry'.services : t.id # s.id => t \in registry.services
    BY <1>2, <1>3, <1>6, Replaced
  <2>3. Local(p)
    BY <1>2, <1>3, <1>6, <2>1, <2>2, SavesAreLocal DEF Typed
  <2>4. ~stale => agents = agentBlock(registry.services)
    <3>1. \A q \in Processes : ~Saved(q)
      BY <1>1, OneAtWork DEF Saved, NoCommand
    <3> QED BY <3>1 DEF IInv, Block
  <2>5. Editing(p, s, old)'
    <3>1. s.id \in settled =>
            /\ Matches(s.id, renderUnit(old))'
            /\ pc'[p] = "agents" => Matches(s.id, renderUnit(s))'
      <4>1. pc'[p] = "agents" => renderUnit(s) = renderUnit(old)
        BY <1>2, <2>1 DEF renderUnit
      <4> QED BY <1>2, <1>3, <4>1 DEF Matches, files, systemd
    <3>2. /\ cmd'[p] \in [op : {"edit"}, service : Service, old : Service, oldUnit : Texts,
                          runtime : BOOLEAN]
          /\ \A t \in registry'.services : t.id # s.id =>
               t.meta.name # s.meta.name /\ t.meta.name # old.meta.name
          /\ ~stale' => agents' = agentBlock((registry'.services \ {s}) \cup {old})
      BY <1>2, <1>3, <1>6, <2>2, <2>4 DEF Editing
    <3>3. s.id \in settled => enabled'[s.id] /\ binary'[s.id] # 0
      BY <3>1 DEF Matches
    <3> QED BY <1>2, <1>3, <2>1, <2>2, <3>1, <3>2, <3>3 DEF Editing
  <2>6. Block'
    BY <1>1, <1>6, <2>1 DEF Block, Saved
  <2> QED BY <1>1, <1>2, <1>3, <1>6, <2>1, <2>2, <2>3, <2>5, <2>6, Assemble DEF Phase, Id
<1> QED BY <1>1, <1>2, <1>5, <1>6 DEF EditSave, Clean

LEMMA EditRestoreRegistryStep ==
  ASSUME IInv, NEW p \in Processes, NEW s \in Service, NEW old \in Service,
         s = cmd[p].service, old = cmd[p].old, EditRestoreRegistry(p)
  PROVE  IInv'
<1> USE DEF Same, At, history
<1>1. pc[p] = "registry" /\ cmd[p].op = "edit" /\ value[p] = registry
  BY OneAtWork DEF EditRestoreRegistry
<1>2. /\ Typed /\ Names /\ s.id = Id(p) /\ Id(p) \in Ids /\ Id(p) \notin gone
      /\ s \in registry.services /\ old.id = s.id /\ old.port = s.port
      /\ \A t \in registry.services : t.id # s.id => t.meta.name # old.meta.name
      /\ s.id \in settled => Matches(s.id, renderUnit(old))
      /\ ~stale => agents = agentBlock((registry.services \ {s}) \cup {old})
  <2>1. Editing(p, s, old) /\ s.id = Id(p) /\ Id(p) \in Ids
    BY <1>1, PhaseOf DEF Id
  <2>2. Typed /\ Names /\ Id(p) \notin gone
    BY <1>1, NotGone DEF IInv
  <2> QED BY <1>1, <2>1, <2>2 DEF Editing
<1>3. /\ UNCHANGED <<source, agents, files, unitFile, systemd, gone>> /\ Return(p)
      /\ faults' \in 0..MaxFaults /\ stale' \in BOOLEAN /\ settled' \subseteq settled
  <2>1. faults' = faults \/ Fails(TRUE)
    BY DEF EditRestoreRegistry, Fault
  <2> QED BY <1>2, <2>1, FaultKept DEF EditRestoreRegistry, Clean, Typed
<1>4. /\ lock' = NoProcess /\ pc'[p] = "idle" /\ cmd'[p] = NoCommand
      /\ DOMAIN pc' = Processes /\ DOMAIN cmd' = Processes /\ DOMAIN value' = Processes
      /\ \A q \in Processes : q # p =>
           pc'[q] = pc[q] /\ cmd'[q] = cmd[q] /\ value'[q] = value[q]
  BY <1>2, <1>3 DEF Return, Goto, Typed
<1>5. CASE UNCHANGED registry /\ stale' = TRUE /\ settled' = settled \ {s.id}
  <2>1. Local(p)
    BY <1>2, <1>3, <1>4, <1>5, SavesAreLocal DEF Typed
  <2> QED BY <1>1, <1>2, <1>3, <1>5, <2>1, Ending
<1>6. CASE /\ registry' = [registry EXCEPT !.services = (@ \ {s}) \cup {old}]
           /\ UNCHANGED <<stale, settled>>
  <2>1. /\ Names' /\ old \in registry'.services
        /\ registry' \in [nextID : 1..(MaxID + 1), services : SUBSET Service]
        /\ registry'.services = (registry.services \ {s}) \cup {old}
        /\ \A t \in registry'.services : t.id # s.id => t \in registry.services
    BY <1>2, <1>3, <1>6, Replaced
  <2>2. Local(p)
    BY <1>2, <1>3, <1>4, <1>6, <2>1, SavesAreLocal DEF Typed
  <2>3. Block'
    BY <1>2, <1>3, <1>6, <2>1 DEF Block
  <2>4. Phase(p)'
    BY <1>4 DEF Phase
  <2>5. ASSUME NEW t \in registry'.services, t.id = Id(p), t.id \in settled'
        PROVE  Matches(t.id, renderUnit(t))'
    <3>1. t = old
      BY <1>2, <2>1, <2>5 DEF Names
    <3> QED BY <1>2, <1>3, <1>6, <2>5, <3>1 DEF Matches, files, systemd
  <2> QED BY <1>1, <1>2, <1>3, <1>4, <1>6, <2>1, <2>2, <2>3, <2>4, <2>5, Assemble
<1> QED BY <1>1, <1>2, <1>5, <1>6 DEF EditRestoreRegistry, Clean

-----------------------------------------------------------------------------
(* The ends and the beginnings of commands.                                *)

LEMMA Returns ==
  ASSUME Typed, NEW p \in Processes, Return(p)
  PROVE  /\ pc'[p] = "idle" /\ cmd'[p] = NoCommand /\ lock' = NoProcess
         /\ DOMAIN pc' = Processes /\ DOMAIN cmd' = Processes /\ DOMAIN value' = Processes
         /\ \A q \in Processes : q # p =>
              pc'[q] = pc[q] /\ cmd'[q] = cmd[q] /\ value'[q] = value[q]
BY DEF Typed, Return, Goto

\* The end of a command that has, or may have, changed what a service runs.
LEMMA Ends ==
  ASSUME IInv, NEW p \in Processes, pc[p] # "idle", cmd[p].op # "agents", Return(p),
         UNCHANGED <<source, registry, files, unitFile, systemd, gone>>,
         faults' \in 0..MaxFaults, stale' \in BOOLEAN, Block',
         settled' \subseteq settled \cup {Id(p)}, settled' \subseteq IdsOf(registry.services),
         Id(p) \in settled' => \A t \in registry.services :
           t.id = Id(p) => Matches(t.id, renderUnit(t))
  PROVE  IInv'
<1>1. Typed /\ Names /\ Id(p) \in Ids /\ Resting
  BY PhaseOf DEF IInv
<1>2. Local(p)
  <2>1. settled' \subseteq Ids /\ registry' \in [nextID : 1..(MaxID + 1), services : SUBSET Service]
    BY <1>1 DEF Typed
  <2> QED BY <1>1, <2>1, Returns, SavesAreLocal
<1>3. Names' /\ Phase(p)'
  BY <1>1, Returns DEF Names, IdsOf, Phase
<1>4. \A id \in gone' : id = Id(p) => Absent(id)' /\ binary'[id] = 0
  BY <1>1 DEF Resting, Absent, files, systemd
<1>5. \A t \in registry'.services :
        t.id = Id(p) /\ t.id \in settled' => Matches(t.id, renderUnit(t))'
  BY DEF Matches, files, systemd
<1> QED BY <1>1, <1>2, <1>3, <1>4, <1>5, Returns, Assemble

\* The end of godo agent, which has no service.
LEMMA ReadsOnly ==
  ASSUME IInv, NEW p \in Processes, pc[p] # "idle", cmd[p].op = "agents", Return(p),
         UNCHANGED <<source, registry, files, unitFile, systemd, settled, gone>>,
         faults' \in 0..MaxFaults, stale' \in BOOLEAN, Block'
  PROVE  IInv'
<1> USE DEF files, systemd
<1>1. Typed /\ Names /\ Resting /\ Holder /\ NoProcess \notin Processes
  BY ServiceRegistryAssumption DEF IInv
<1>2. \A q \in Processes : pc'[q] = "idle" /\ cmd'[q] = NoCommand
  BY <1>1, OneAtWork, Returns
<1>3. Typed' /\ Names'
  BY <1>1, Returns, NamesKept DEF Typed
<1>4. Holder'
  BY <1>1, <1>2, Returns DEF Holder
<1>5. \A q \in Processes : Phase(q)'
  BY <1>2 DEF Phase
<1>6. Resting'
  <2>1. \A id : ~Working(id)
    BY OneAtWork DEF Working
  <2> QED BY <1>1, <2>1 DEF Resting, Matches, Absent
<1> QED BY <1>3, <1>4, <1>5, <1>6 DEF IInv

LEMMA SyncAgentsStep ==
  ASSUME IInv, NEW p \in Processes, syncAgents(p)
  PROVE  IInv'
<1>1. /\ pc[p] = "agents" /\ Return(p) /\ value[p] = registry
      /\ UNCHANGED <<source, registry, files, unitFile, systemd, gone>>
  BY OneAtWork DEF syncAgents
<1>2. faults' \in 0..MaxFaults /\ stale' \in BOOLEAN
  <2>1. Typed /\ (faults' = faults \/ Fails(TRUE))
    BY DEF syncAgents, Fault, IInv
  <2> QED BY <2>1, FaultKept DEF syncAgents, Typed
<1>3. Block'
  BY <1>1 DEF syncAgents, Block
<1>4. CASE cmd[p].op = "agents"
  <2>1. settled' = settled
    BY <1>4 DEF syncAgents
  <2> QED BY <1>1, <1>2, <1>3, <1>4, <2>1, ReadsOnly
<1>5. CASE cmd[p].op # "agents"
  <2>1. Names /\ Id(p) \in Ids /\ settled \subseteq IdsOf(registry.services)
    BY <1>1, <1>5, PhaseOf DEF IInv, Names
  <2>2. CASE cmd[p].op = "add"
    <3>1. /\ Adding(p, cmd[p].service) /\ cmd[p].service \in registry.services
          /\ Id(p) \notin settled
          /\ cmd[p].fresh => Matches(Id(p), renderUnit(cmd[p].service))
      BY <1>1, <2>2, PhaseOf DEF Adding, Id
    <3>2. Id(p) \in IdsOf(registry.services)
      BY <3>1 DEF IdsOf, Id
    <3>3. settled' = IF cmd[p].fresh THEN settled \cup {Id(p)} ELSE settled
      BY <2>2 DEF syncAgents
    <3>4. \A t \in registry.services : t.id = Id(p) => t = cmd[p].service
      BY <2>1, <3>1, Alone DEF Id
    <3>5. Id(p) \in settled' => \A t \in registry.services :
             t.id = Id(p) => Matches(t.id, renderUnit(t))
      BY <3>1, <3>3, <3>4
    <3> QED BY <1>1, <1>2, <1>3, <2>1, <2>2, <3>2, <3>3, <3>5, Ends
  <2>3. CASE cmd[p].op # "add"
    <3>1. settled' = settled
      BY <2>3 DEF syncAgents
    <3>2. Id(p) \in settled => \A t \in registry.services :
             t.id = Id(p) => Matches(t.id, renderUnit(t))
      <4>1. CASE cmd[p].op = "remove"
        <5>1. Id(p) \notin IdsOf(registry.services)
          BY <1>1, <4>1, PhaseOf DEF Removing, Id
        <5> QED BY <2>1, <5>1
      <4>2. CASE cmd[p].op = "edit"
        <5>1. /\ cmd[p].service \in registry.services
              /\ Id(p) \in settled => Matches(Id(p), renderUnit(cmd[p].service))
          BY <1>1, <4>2, PhaseOf DEF Editing, Id
        <5>2. \A t \in registry.services : t.id = Id(p) => t = cmd[p].service
          BY <2>1, <5>1, Alone DEF Id
        <5> QED BY <5>1, <5>2
      <4>3. cmd[p].op \notin {"update", "restart"}
        BY <1>1, PhaseOf DEF Updating, Restarting
      <4> QED BY <1>1, <1>5, <2>3, <4>1, <4>2, <4>3, PhaseOf
    <3> QED BY <1>1, <1>2, <1>3, <1>5, <2>1, <3>1, <3>2, Ends
  <2> QED BY <2>2, <2>3
<1> QED BY <1>4, <1>5

LEMMA KilledStep ==
  ASSUME IInv, NEW p \in Processes, Killed(p)
  PROVE  IInv'
<1>1. /\ pc[p] # "idle" /\ Return(p) /\ stale' = TRUE
      /\ UNCHANGED <<source, registry, files, unitFile, systemd, gone>>
  BY DEF Killed
<1>2. faults' \in 0..MaxFaults
  BY FaultKept DEF Killed, Fault, IInv
<1>3. Block' /\ settled \subseteq IdsOf(registry.services)
  BY <1>1 DEF Block, IInv, Names
<1>4. CASE cmd[p].op = "agents"
  <2>1. settled' = settled
    BY <1>4 DEF Killed
  <2> QED BY <1>1, <1>2, <1>3, <1>4, <2>1, ReadsOnly
<1>5. CASE cmd[p].op # "agents"
  <2>1. settled' = settled \ {Id(p)}
    BY <1>5 DEF Killed
  <2> QED BY <1>1, <1>2, <1>3, <1>5, <2>1, Ends
<1> QED BY <1>4, <1>5

LEMMA NobodyAtWork ==
  ASSUME IInv, lock = NoProcess
  PROVE  /\ \A q \in Processes : pc[q] = "idle" /\ cmd[q] = NoCommand
         /\ \A id : ~Working(id)
         /\ \A s \in registry.services : s.id \in settled => Matches(s.id, renderUnit(s))
         /\ ~stale => agents = agentBlock(registry.services)
<1>1. \A q \in Processes : pc[q] = "idle"
  BY ServiceRegistryAssumption DEF IInv, Holder
<1>2. \A q \in Processes : cmd[q] = NoCommand
  <2> SUFFICES ASSUME NEW q \in Processes PROVE cmd[q] = NoCommand
    OBVIOUS
  <2>1. Phase(q) /\ pc[q] = "idle"
    BY <1>1 DEF IInv
  <2> QED BY <2>1 DEF Phase, Adding, Updating, Restarting, Removing, Editing
<1>3. \A id : ~Working(id)
  BY <1>1 DEF Working
<1>4. \A q \in Processes : ~Saved(q)
  BY <1>1, <1>2 DEF Saved, NoCommand
<1> QED BY <1>1, <1>2, <1>3, <1>4 DEF IInv, Resting, Block

LEMMA Begins ==
  ASSUME IInv, NEW p \in Processes, NEW command, NEW l, l # "idle", Begin(p, command, l)
  PROVE  /\ lock = NoProcess /\ pc'[p] = l /\ cmd'[p] = command
         /\ UNCHANGED <<source, registry, files, unitFile, systemd, agents, history>>
         /\ Phase(p)' => IInv'
<1> USE DEF files, systemd, history
<1>1. /\ lock = NoProcess /\ pc'[p] = l /\ cmd'[p] = command /\ value'[p] = registry
      /\ lock' = p /\ DOMAIN pc' = Processes /\ DOMAIN cmd' = Processes /\ DOMAIN value' = Processes
      /\ \A q \in Processes : q # p => pc'[q] = pc[q] /\ cmd'[q] = cmd[q]
      /\ UNCHANGED <<source, registry, files, unitFile, systemd, agents, history>>
  BY DEF Begin, Goto, IInv, Typed
<1>2. ASSUME Phase(p)' PROVE IInv'
  <2>1. Typed' /\ Names'
    BY <1>1, NamesKept DEF IInv, Typed
  <2>2. \A q \in Processes : q # p => pc'[q] = "idle" /\ cmd'[q] = NoCommand
    BY <1>1, NobodyAtWork
  <2>3. Holder'
    BY <1>1, <2>2 DEF Holder
  <2>4. \A q \in Processes : Phase(q)'
    BY <1>2, <2>2 DEF Phase
  <2>5. Resting' /\ Block'
    <3>1. \A s \in registry.services : s.id \in settled => Matches(s.id, renderUnit(s))'
      BY <1>1, NobodyAtWork DEF Matches
    <3> QED BY <1>1, <3>1, NobodyAtWork DEF IInv, Resting, Absent, Block
  <2> QED BY <2>1, <2>3, <2>4, <2>5 DEF IInv
<1> QED BY <1>1, <1>2

LEMMA Commands ==
  ASSUME IInv, NEW p \in Processes,
         add(p) \/ update(p) \/ restart(p) \/ remove(p) \/ edit(p) \/ syncAgentsAndPrint(p)
  PROVE  IInv'
<1> USE DEF files, systemd, history
<1>1. Names /\ Typed
  BY DEF IInv
<1>2. CASE add(p)
  <2>1. PICK s \in [id : {nextID}, meta : Metas, conf : Confs, port : Ports] :
          /\ \A t \in registry.services : t.meta.name # s.meta.name
          /\ choosePort(s.port)
          /\ Begin(p, [op |-> "add", service |-> s, fresh |-> FALSE], "build")
    BY <1>2 DEF add
  <2>2. s \in Service /\ s.id = registry.nextID
    BY <1>2, <2>1 DEF add, nextID, Service
  <2>3. s.id \notin settled
    <3>1. \A t \in registry.services : t.id # registry.nextID
      BY <1>1 DEF Names, Typed, Service, Ids
    <3> QED BY <1>1, <2>2, <3>1 DEF Names, IdsOf
  <2> DEFINE c == [op |-> "add", service |-> s, fresh |-> FALSE]
  <2>4. /\ pc'[p] = "build" /\ cmd'[p] = c /\ UNCHANGED <<registry, settled, stale, agents>>
        /\ Phase(p)' => IInv'
    BY <2>1, Begins
  <2>5. Adding(p, s)'
    <3>1. \A t \in registry.services : t.port # s.port
      BY <2>1 DEF choosePort
    <3> QED BY <2>1, <2>2, <2>3, <2>4, <3>1 DEF Adding
  <2> QED BY <2>4, <2>5 DEF Phase
<1>3. CASE update(p)
  <2>1. PICK s \in registry.services :
          Begin(p, [op |-> "update", service |-> s, built |-> 0], "build")
    BY <1>3 DEF update
  <2> DEFINE c == [op |-> "update", service |-> s, built |-> 0]
  <2>2. /\ lock = NoProcess /\ pc'[p] = "build" /\ cmd'[p] = c /\ s \in Service
        /\ UNCHANGED <<registry, files, unitFile, systemd, settled, stale, agents>>
        /\ Phase(p)' => IInv'
    BY <1>1, <2>1, Begins DEF Typed
  <2>3. s.id \in settled => Matches(s.id, renderUnit(s))'
    BY <2>2, NobodyAtWork DEF Matches
  <2>4. c \in [op : {"update"}, service : Service, built : Programs]
    BY <2>2, ServiceRegistryAssumption DEF Programs
  <2>5. Updating(p, s)'
    BY <2>2, <2>3, <2>4 DEF Updating, Matches
  <2> QED BY <2>2, <2>5 DEF Phase
<1>4. CASE restart(p)
  <2>1. PICK s \in registry.services : Begin(p, [op |-> "restart", service |-> s], "restart")
    BY <1>4 DEF restart
  <2> DEFINE c == [op |-> "restart", service |-> s]
  <2>2. /\ lock = NoProcess /\ pc'[p] = "restart" /\ cmd'[p] = c /\ s \in Service
        /\ UNCHANGED <<registry, files, unitFile, systemd, settled, stale, agents>>
        /\ Phase(p)' => IInv'
    BY <1>1, <2>1, Begins DEF Typed
  <2>3. s.id \in settled => Matches(s.id, renderUnit(s))'
    BY <2>2, NobodyAtWork DEF Matches
  <2>4. Restarting(p, s)'
    BY <2>2, <2>3 DEF Restarting
  <2> QED BY <2>2, <2>4 DEF Phase
<1>5. CASE remove(p)
  <2>1. PICK s \in registry.services : Begin(p, [op |-> "remove", service |-> s], "stop")
    BY <1>5 DEF remove
  <2> DEFINE c == [op |-> "remove", service |-> s]
  <2>2. /\ pc'[p] = "stop" /\ cmd'[p] = c /\ s \in Service /\ UNCHANGED registry
        /\ Phase(p)' => IInv'
    BY <1>1, <2>1, Begins DEF Typed
  <2>3. Removing(p, s)'
    BY <2>2 DEF Removing
  <2> QED BY <2>2, <2>3 DEF Phase
<1>6. CASE edit(p)
  <2>1. PICK old \in registry.services, meta \in Metas, conf \in Confs, runtime \in BOOLEAN :
          /\ \A t \in registry.services : t.id # old.id => t.meta.name # meta.name
          /\ conf # old.conf => runtime
          /\ Begin(p, [op |-> "edit", service |-> [old EXCEPT !.meta = meta, !.conf = conf],
                       old |-> old, oldUnit |-> NoUnit, runtime |-> runtime], "save")
    BY <1>6 DEF edit
  <2> DEFINE s == [old EXCEPT !.meta = meta, !.conf = conf]
             c == [op |-> "edit", service |-> s, old |-> old, oldUnit |-> NoUnit,
                   runtime |-> runtime]
  <2>2. /\ lock = NoProcess /\ pc'[p] = "save" /\ cmd'[p] = c /\ old \in Service
        /\ UNCHANGED <<registry, files, unitFile, systemd, settled, stale, agents>>
        /\ Phase(p)' => IInv'
    BY <1>1, <2>1, Begins DEF Typed
  <2>3. s \in Service /\ s.id = old.id /\ s.port = old.port /\ s.meta = meta
        /\ s.conf = conf
    BY <2>1, <2>2 DEF Service
  <2>4. old.id \in settled => Matches(old.id, renderUnit(old))'
    BY <2>2, NobodyAtWork DEF Matches
  <2>5. cmd'[p] \in [op : {"edit"}, service : Service, old : Service, oldUnit : Texts,
                     runtime : BOOLEAN]
        /\ cmd'[p].service = s /\ cmd'[p].old = old /\ cmd'[p].runtime = runtime
    BY <2>2, <2>3 DEF Texts
  <2>6. \A t \in registry.services : t.id # old.id => t.meta.name # old.meta.name
    BY <1>1 DEF Names
  <2> HIDE DEF s, c
  <2>7. Editing(p, s, old)'
    BY <2>1, <2>2, <2>3, <2>4, <2>5, <2>6 DEF Editing, Matches
  <2> QED BY <2>2, <2>5, <2>7 DEF Phase
<1>7. CASE syncAgentsAndPrint(p)
  <2>1. pc'[p] = "agents" /\ cmd'[p] = [op |-> "agents"] /\ (Phase(p)' => IInv')
    BY <1>7, Begins DEF syncAgentsAndPrint
  <2> QED BY <2>1 DEF Phase
<1> QED BY <1>2, <1>3, <1>4, <1>5, <1>6, <1>7

\* systemd starts again only what runs, from what it has loaded.
LEMMA RespawnStep ==
  ASSUME IInv, NEW id \in Ids, Respawn(id)
  PROVE  IInv'
<1> USE DEF files, history
<1>1. /\ UNCHANGED <<source, registry, lock, pc, cmd, value, binary, previous, unitFile,
                     loaded, enabled, agents, faults, settled, gone, stale>>
      /\ running' = [running EXCEPT ![id] = Process(id)]
      /\ running[id] # Stopped /\ binary[id] # 0 /\ Typed
  BY DEF Respawn, IInv
<1>2. Typed'
  <2>1. Process(id) \in [version : Programs, unit : Texts]
    BY <1>1 DEF Process, Typed
  <2> QED BY <1>1, <2>1 DEF Typed
<1>3. \A i \in Ids : running[i] = Stopped \/ binary[i] = 0 => running'[i] = running[i]
  BY <1>1 DEF Typed
<1>4. ASSUME NEW i \in Ids, NEW unit, Matches(i, unit) PROVE Matches(i, unit)'
  <2>1. running'[i] = running[i] \/ (i = id /\ running'[i] = Process(i))
    BY <1>1 DEF Typed
  <2> QED BY <1>1, <1>4, <2>1 DEF Matches, Process
<1>5. \A i \in Ids : Absent(i) => Absent(i)'
  BY <1>1, <1>3 DEF Absent
<1>6. ASSUME NEW q \in Processes PROVE Phase(q)'
  <2>1. Phase(q)
    BY DEF IInv
  <2>2. ASSUME NEW s \in Service, Adding(q, s) PROVE Adding(q, s)'
    <3>1. s.id \in Ids
      BY Rendered
    <3> QED BY <1>1, <1>4, <2>2, <3>1 DEF Adding
  <2>3. ASSUME NEW s \in Service, Updating(q, s) PROVE Updating(q, s)'
    <3>1. s.id \in Ids
      BY Rendered
    <3> QED BY <1>1, <1>3, <1>4, <2>3, <3>1 DEF Updating
  <2>4. ASSUME NEW s \in Service, Restarting(q, s) PROVE Restarting(q, s)'
    <3>1. s.id \in Ids
      BY Rendered
    <3> QED BY <1>1, <1>4, <2>4, <3>1 DEF Restarting
  <2>5. ASSUME NEW s \in Service, Removing(q, s) PROVE Removing(q, s)'
    <3>1. s.id \in Ids
      BY Rendered
    <3> QED BY <1>1, <1>3, <2>5, <3>1 DEF Removing
  <2>6. ASSUME NEW s \in Service, NEW old \in Service, Editing(q, s, old) PROVE Editing(q, s, old)'
    <3>1. s.id \in Ids
      BY Rendered
    <3> QED BY <1>1, <1>4, <2>6, <3>1 DEF Editing
  <2>7. CASE Adding(q, cmd[q].service)
    <3>1. cmd[q].service \in Service
      BY <2>7 DEF Adding
    <3> QED BY <1>1, <2>2, <2>7, <3>1 DEF Phase
  <2>8. CASE Updating(q, cmd[q].service)
    <3>1. cmd[q].service \in Service
      BY <2>8 DEF Updating
    <3> QED BY <1>1, <2>3, <2>8, <3>1 DEF Phase
  <2>9. CASE Restarting(q, cmd[q].service)
    <3>1. cmd[q].service \in Service
      BY <2>9 DEF Restarting
    <3> QED BY <1>1, <2>4, <2>9, <3>1 DEF Phase
  <2>10. CASE Removing(q, cmd[q].service)
    <3>1. cmd[q].service \in Service
      BY <2>10 DEF Removing
    <3> QED BY <1>1, <2>5, <2>10, <3>1 DEF Phase
  <2>11. CASE Editing(q, cmd[q].service, cmd[q].old)
    <3>1. cmd[q].service \in Service /\ cmd[q].old \in Service
      BY <2>11 DEF Editing
    <3> QED BY <1>1, <2>6, <2>11, <3>1 DEF Phase
  <2> QED BY <1>1, <2>1, <2>7, <2>8, <2>9, <2>10, <2>11 DEF Phase
<1>7. Holder' /\ Names' /\ Block'
  BY <1>1, NamesKept DEF IInv, Holder, Block, Saved
<1>8. Resting'
  <2>1. \A i : Working(i)' <=> Working(i)
    BY <1>1 DEF Working, Id
  <2>2. \A s \in registry.services : s.id \in Ids
    BY <1>1, Rendered DEF Typed
  <2>3. \A i \in gone : i \in Ids
    BY <1>1 DEF Typed
  <2> QED BY <1>1, <1>4, <1>5, <2>1, <2>2, <2>3 DEF IInv, Resting
<1> QED BY <1>2, <1>6, <1>7, <1>8 DEF IInv

LEMMA SourceStep ==
  ASSUME IInv, ChangeSource \/ UNCHANGED vars
  PROVE  IInv'
<1> USE DEF files, systemd, history
<1>1. /\ UNCHANGED <<registry, lock, pc, cmd, value, binary, previous, unitFile, loaded,
                     enabled, running, agents, faults, settled, gone, stale>>
      /\ Typed /\ source' \in Versions
  <2>1. Typed /\ MaxVersion \in Nat
    BY ServiceRegistryAssumption DEF IInv
  <2> QED BY <2>1 DEF ChangeSource, vars, Typed, Versions
<1>2. Typed'
  BY <1>1 DEF Typed
<1>3. \A q \in Processes : Phase(q)'
  <2> SUFFICES ASSUME NEW q \in Processes PROVE Phase(q)'
    OBVIOUS
  <2>1. \A s : Adding(q, s)' <=> Adding(q, s)
    BY <1>1 DEF Adding, Matches
  <2>2. \A s : Updating(q, s)' <=> Updating(q, s)
    BY <1>1 DEF Updating, Matches
  <2>3. \A s : Restarting(q, s)' <=> Restarting(q, s)
    BY <1>1 DEF Restarting, Matches
  <2>4. \A s : Removing(q, s)' <=> Removing(q, s)
    BY <1>1 DEF Removing
  <2>5. \A s, old : Editing(q, s, old)' <=> Editing(q, s, old)
    BY <1>1 DEF Editing, Matches
  <2> QED BY <1>1, <2>1, <2>2, <2>3, <2>4, <2>5 DEF IInv, Phase
<1>4. Holder' /\ Names' /\ Resting' /\ Block'
  BY <1>1 DEF IInv, Holder, Names, IdsOf, Resting, Block, Saved, Matches, Absent, Working, Id
<1> QED BY <1>2, <1>3, <1>4 DEF IInv

LEMMA Initial == Init => IInv
<1> SUFFICES ASSUME Init PROVE IInv
  OBVIOUS
<1>1. Typed
  <2>1. 1 \in Versions /\ 1 \in 1..(MaxID + 1) /\ 0 \in 0..MaxFaults /\ 0 \in Programs
        /\ NoUnit \in Texts
    BY ServiceRegistryAssumption DEF Versions, Programs, Texts
  <2>2. Stopped \in [version : Programs, unit : Texts]
    BY <2>1 DEF Stopped
  <2> QED BY <2>1, <2>2 DEF Init, Typed
<1>2. Holder /\ Names /\ Resting /\ \A p \in Processes : Phase(p)
  BY ServiceRegistryAssumption DEF Init, Holder, Names, Resting, Phase, IdsOf
<1>3. Block
  BY DEF Init, Block, agentBlock
<1> QED BY <1>1, <1>2, <1>3 DEF IInv

LEMMA Inductive == IInv /\ [Next]_vars => IInv'
<1> SUFFICES ASSUME IInv, [Next]_vars PROVE IInv'
  OBVIOUS
<1>1. ASSUME NEW p \in Processes, Step(p) PROVE IInv'
  <2>1. CASE add(p) \/ update(p) \/ restart(p) \/ remove(p) \/ edit(p) \/ syncAgentsAndPrint(p)
    BY <2>1, Commands
  <2>2. CASE syncAgents(p) \/ Killed(p)
    BY <2>2, SyncAgentsStep, KilledStep
  <2> DEFINE s == cmd[p].service
             old == cmd[p].old
  <2>3. CASE \/ AddBuild(p) \/ AddUnit(p) \/ AddReload(p) \/ AddEnable(p) \/ AddSave(p)
             \/ UndoStop(p) \/ UndoUnit(p) \/ UndoReload(p) \/ UndoFiles(p)
    <3>1. s \in Service
      BY <2>3, PhaseOf DEF AddBuild, AddUnit, AddReload, AddEnable, AddSave, UndoStop, UndoUnit,
        UndoReload, UndoFiles, At
    <3> QED BY <2>3, <3>1, AddSteps, AddSaveStep
  <2>4. CASE \/ UpdateBuild(p) \/ UpdateKeep(p) \/ UpdateSwap(p) \/ UpdateRestart(p)
             \/ UpdateRestore(p) \/ UpdateRestartAgain(p) \/ RestartRestart(p)
    <3>1. s \in Service
      BY <2>4, PhaseOf DEF UpdateBuild, UpdateKeep, UpdateSwap, UpdateRestart, UpdateRestore,
        UpdateRestartAgain, RestartRestart, At
    <3> QED BY <2>4, <3>1, UpdateSteps, RestartStep
  <2>5. CASE \/ RemoveStop(p) \/ RemoveUnit(p) \/ RemoveReload(p) \/ RemoveSave(p) \/ RemoveFiles(p)
    <3>1. s \in Service
      BY <2>5, PhaseOf DEF RemoveStop, RemoveUnit, RemoveReload, RemoveSave, RemoveFiles, At
    <3> QED BY <2>5, <3>1, RemoveSteps, RemoveSaveStep, RemoveFilesStep
  <2>6. CASE \/ EditSave(p) \/ EditUnit(p) \/ EditReload(p) \/ EditRestart(p)
             \/ EditRestoreUnit(p) \/ EditRestoreReload(p) \/ EditRestoreRestart(p)
             \/ EditRestoreRegistry(p)
    <3>1. Editing(p, s, old)
      BY <2>6, PhaseOf DEF EditSave, EditUnit, EditReload, EditRestart, EditRestoreUnit,
        EditRestoreReload, EditRestoreRestart, EditRestoreRegistry, At
    <3>2. s \in Service /\ old \in Service
      BY <3>1 DEF Editing
    <3> QED BY <2>6, <3>2, EditSteps, EditSaveStep, EditRestoreRegistryStep
  <2> QED BY <1>1, <2>1, <2>2, <2>3, <2>4, <2>5, <2>6 DEF Step
<1>2. CASE ChangeSource \/ UNCHANGED vars
  BY <1>2, SourceStep
<1>3. ASSUME NEW id \in Ids, Respawn(id) PROVE IInv'
  BY <1>3, RespawnStep
<1> QED BY <1>1, <1>2, <1>3 DEF Next

\* Which commands touch the program of a service.
LEMMA ProgramStep ==
  ASSUME IInv, Next, NEW id \in Ids, Registered(id), Registered(id)',
         HasProgram(id), ~HasProgram(id)'
  PROVE  binary[id] = 0 /\ \E p \in Processes : At(p, "update", "build") /\ Id(p) = id
<1> USE DEF files
<1>1. ~UNCHANGED files
  BY DEF HasProgram
<1>2. PICK p \in Processes :
        \/ AddBuild(p) \/ AddUnit(p) \/ AddReload(p) \/ UndoFiles(p)
        \/ UpdateBuild(p) \/ UpdateKeep(p) \/ UpdateSwap(p) \/ UpdateRestart(p) \/ UpdateRestore(p)
        \/ RemoveFiles(p)
  <2>1. ~ChangeSource /\ ~\E i \in Ids : Respawn(i)
    BY <1>1 DEF ChangeSource, Respawn
  <2>2. PICK p \in Processes : Step(p)
    BY <2>1 DEF Next
  <2>3. \A command, l : ~Begin(p, command, l)
    BY <1>1 DEF Begin
  <2>4. ~(add(p) \/ update(p) \/ restart(p) \/ remove(p) \/ edit(p) \/ syncAgentsAndPrint(p))
    BY <2>3 DEF add, update, restart, remove, edit, syncAgentsAndPrint
  <2>5. ~(syncAgents(p) \/ Killed(p) \/ AddEnable(p) \/ AddSave(p) \/ UndoStop(p) \/ UndoUnit(p)
          \/ UndoReload(p) \/ UpdateRestartAgain(p) \/ RestartRestart(p))
    BY <1>1 DEF syncAgents, Killed, AddEnable, AddSave, UndoStop, UndoUnit, UndoReload,
      UpdateRestartAgain, RestartRestart
  <2>6. ~(RemoveStop(p) \/ RemoveUnit(p) \/ RemoveReload(p) \/ RemoveSave(p) \/ EditSave(p)
          \/ EditUnit(p) \/ EditReload(p) \/ EditRestart(p) \/ EditRestoreUnit(p)
          \/ EditRestoreReload(p) \/ EditRestoreRestart(p) \/ EditRestoreRegistry(p))
    BY <1>1 DEF RemoveStop, RemoveUnit, RemoveReload, RemoveSave, EditSave, EditUnit, EditReload,
      EditRestart, EditRestoreUnit, EditRestoreReload, EditRestoreRestart, EditRestoreRegistry
  <2> QED BY <2>2, <2>4, <2>5, <2>6 DEF Step
<1>3. pc[p] # "idle" /\ cmd[p].op \in {"add", "update", "remove"}
  BY <1>2, PhaseOf DEF AddBuild, AddUnit, AddReload, UndoFiles, UpdateBuild, UpdateKeep, UpdateSwap,
    UpdateRestart, UpdateRestore, RemoveFiles, At
<1>4. Id(p) = id
  <2>1. Local(p)
    BY <1>2, <1>3, StepsAreLocal
  <2> QED BY <2>1 DEF Local, Elsewhere, HasProgram
<1>5. Typed /\ registry' = registry /\ id \in IdsOf(registry.services)
  BY <1>2 DEF IInv, Registered, IdsOf, AddBuild, AddUnit, AddReload, UndoFiles, UpdateBuild,
    UpdateKeep, UpdateSwap, UpdateRestart, UpdateRestore, RemoveFiles
<1>6. CASE AddBuild(p) \/ AddUnit(p) \/ AddReload(p) \/ UndoFiles(p)
  <2>1. pc[p] # "agents" /\ cmd[p].op = "add"
    BY <1>6, PhaseOf DEF AddBuild, AddUnit, AddReload, UndoFiles, At
  <2>2. id = registry.nextID
    BY <1>3, <1>4, <2>1, PhaseOf DEF Adding, Id
  <2>3. \A t \in registry.services : t.id \in Nat /\ t.id < registry.nextID
    BY <1>5 DEF IInv, Names, Typed, Service, Ids
  <2> QED BY <1>5, <2>2, <2>3 DEF IdsOf, Typed
<1>7. CASE RemoveFiles(p)
  <2>1. id \notin IdsOf(registry.services)
    BY <1>3, <1>4, <1>7, PhaseOf DEF RemoveFiles, At, Removing, Id
  <2> QED BY <1>5, <2>1
<1>8. CASE UpdateBuild(p)
  <2>1. At(p, "update", "build") /\ binary' = binary
    BY <1>8 DEF UpdateBuild, Clean
  <2> QED BY <1>4, <2>1 DEF HasProgram
<1>9. CASE UpdateKeep(p) \/ UpdateSwap(p) \/ UpdateRestart(p) \/ UpdateRestore(p)
  <2>1. Updating(p, cmd[p].service) /\ cmd[p].service.id = id
    BY <1>3, <1>4, <1>9, PhaseOf DEF UpdateKeep, UpdateSwap, UpdateRestart, UpdateRestore, At, Id
  <2>2. CASE UpdateKeep(p)
    <3>1. previous' = [previous EXCEPT ![id] = binary[id]] /\ binary[id] # 0
      BY <1>1, <1>4, <2>2 DEF UpdateKeep
    <3> QED BY <1>5, <3>1 DEF HasProgram, Typed
  <2>3. CASE UpdateSwap(p)
    <3>1. /\ cmd[p].built # 0 /\ previous[id] # 0
          /\ \/ binary' = [binary EXCEPT ![id] = cmd[p].built]
             \/ binary' = [binary EXCEPT ![id] = previous[id]]
      BY <1>1, <1>4, <2>1, <2>3 DEF UpdateSwap, Updating, At, Restored
    <3> QED BY <1>5, <3>1 DEF HasProgram, Typed
  <2>4. CASE UpdateRestart(p)
    <3>1. /\ binary[id] # 0 /\ previous[id] # 0 /\ (binary' = binary \/ previous' = previous)
      BY <1>4, <2>1, <2>4 DEF UpdateRestart, Updating, At
    <3> QED BY <3>1 DEF HasProgram
  <2>5. CASE UpdateRestore(p)
    <3>1. previous[id] # 0 /\ binary' = [binary EXCEPT ![id] = previous[id]]
      BY <1>1, <1>4, <2>1, <2>5 DEF UpdateRestore, Updating, At, Restored
    <3> QED BY <1>5, <3>1 DEF HasProgram, Typed
  <2> QED BY <1>9, <2>2, <2>3, <2>4, <2>5
<1> QED BY <1>2, <1>6, <1>7, <1>8, <1>9

-----------------------------------------------------------------------------
(* Theorems of the registry.                                               *)

\* The inductive invariant of the commands: who holds the lock and what its
\* command knows at each of its places, that the names and ids are taken once,
\* and that what no command is working on runs as it was reported.
THEOREM Invariance == Spec => []IInv
<1>1. IInv /\ [Next]_vars => IInv'
  BY Inductive
<1> QED BY <1>1, Initial, PTL DEF Spec

\* Two services never share an id, a name or a port, and no id is given twice,
\* with any number of terminals, services, faults and kills (docs/cli.md:337-338).
THEOREM IdentitiesHold == Spec => []IdentitiesAreUnique
<1>1. IInv => IdentitiesAreUnique
  BY DEF IInv, Names, IdentitiesAreUnique
<1> QED BY <1>1, Invariance, PTL

\* What the commands reported is so between commands: a settled service runs its
\* managed binary under the unit the registry describes, and of a removed one
\* nothing is left (docs/cli.md:276, 348-349, 387-394).
THEOREM ReportsHold == Spec => []ReportsAreTrue
<1>1. IInv => ReportsAreTrue
  <2> SUFFICES ASSUME IInv PROVE ReportsAreTrue
    OBVIOUS
  <2>1. ASSUME NEW id \in settled, ~Working(id)
        PROVE  LET unit == renderUnit(ServiceOf(registry.services, id)) IN
               /\ Registered(id) /\ enabled[id] /\ binary[id] # 0
               /\ unitFile[id] = unit /\ loaded[id] = unit
               /\ running[id] = [version |-> binary[id], unit |-> unit]
    <3>1. PICK s \in registry.services : s.id = id
      BY <2>1 DEF IInv, Names, IdsOf
    <3>2. ServiceOf(registry.services, id) = s
      BY <3>1 DEF IInv, Names, ServiceOf
    <3>3. Matches(id, renderUnit(s))
      BY <2>1, <3>1 DEF IInv, Resting
    <3> QED BY <3>1, <3>2, <3>3 DEF Matches, Registered
  <2>2. \A id \in gone : /\ unitFile[id] = NoUnit /\ ~enabled[id]
                         /\ running[id] = Stopped /\ binary[id] = 0
    BY DEF IInv, Resting, Absent
  <2> QED BY <2>1, <2>2 DEF ReportsAreTrue
<1> QED BY <1>1, Invariance, PTL

\* AGENTS.md shows the registry between commands, unless one ended between the two
\* (service.go:80-87, 189-195).
THEOREM BlockListsServices == Spec => []AgentsListServices
<1>1. IInv => AgentsListServices
  BY NobodyAtWork DEF AgentsListServices
<1> QED BY <1>1, Invariance, PTL

\* No command takes the last program of a registered service, except the update
\* that starts without the current one (service.go:120-124).
THEOREM ProgramsStay == Spec => ProgramKept
<1> DEFINE Keeps == \A id \in Ids :
             Registered(id) /\ Registered(id)' /\ HasProgram(id) /\ ~HasProgram(id)' =>
               binary[id] = 0 /\ \E p \in Processes : At(p, "update", "build") /\ Id(p) = id
<1>1. IInv /\ [Next]_vars => [Keeps]_vars
  BY ProgramStep
<1>2. Spec => [][Keeps]_vars
  BY <1>1, Invariance, PTL DEF Spec
<1> QED BY <1>2 DEF ProgramKept

\* Every variable keeps its type, and who is idle has no command.
THEOREM TypeCorrect == Spec => []TypeOK
<1>1. IInv => TypeOK
  <2> SUFFICES ASSUME IInv PROVE TypeOK
    OBVIOUS
  <2>1. ASSUME NEW p \in Processes PROVE pc[p] = "idle" <=> cmd[p] = NoCommand
    <3>1. CASE pc[p] = "idle"
      <4>1. Phase(p)
        BY DEF IInv
      <4> QED BY <3>1, <4>1 DEF Phase, Adding, Updating, Restarting, Removing, Editing
    <3>2. CASE pc[p] # "idle"
      <4>1. cmd[p].op \in {"add", "update", "restart", "remove", "edit", "agents"}
        BY <3>2, PhaseOf
      <4>2. cmd[p].op # "none"
        BY <4>1
      <4> QED BY <3>2, <4>2 DEF NoCommand
    <3> QED BY <3>1, <3>2
  <2>2. /\ registry.nextID \in 1..(MaxID + 1) /\ registry.services \subseteq Service
        /\ Typed
    BY DEF IInv, Typed
  <2> QED BY <2>1, <2>2 DEF TypeOK, Typed, Programs
<1> QED BY <1>1, Invariance, PTL

-----------------------------------------------------------------------------
(* The inductive invariant of Run.                                         *)

Report == [index : Services, err : Errors]
States == {"none", "running"} \cup Errors

Queued(queue) == {queue[i].index : i \in DOMAIN queue}

\* The services whose result has not been collected.
Outstanding(state, queue) == {s \in Services : state[s] = "running"} \cup Queued(queue)

\* Each goroutine sends its result once, and the counter counts what is to come.
Accounts(state, queue, count) ==
  /\ state \in [Services -> States] /\ queue \in Seq(Report)
  /\ \A i \in DOMAIN queue : state[queue[i].index] = queue[i].err
  /\ \A i, j \in DOMAIN queue : queue[i].index = queue[j].index => i = j
  /\ count = Cardinality(Outstanding(state, queue))

\* A result that was collected and has to be told is told.
Told(what, state, queue, bad) ==
  \A s \in Services \ Outstanding(state, queue) : state[s] \in bad => <<what, s>> \in errors

RunPhases ==
  /\ at \in {"start", "refused"} => runResults = <<>> /\ \A s \in Services : run[s] = "none"
  /\ at \in {"start", "refused", "wait"} =>
       shutdownResults = <<>> /\ \A s \in Services : shut[s] = "none"
  /\ at \in {"wait", "finish", "returned"} => \A s \in Services : run[s] # "none"
  /\ at \in {"finish", "returned"} => \A s \in Services \ Silent : shut[s] # "none"
  /\ at = "returned" /\ <<"timeout">> \notin errors => remaining = 0 /\ shutdownRemaining = 0

Unanswered == \A s \in busy : s \in Servers /\ shut[s] \in {"none", "running", "deadline"}

RunInv ==
  /\ at \in {"start", "refused", "wait", "finish", "returned"}
  /\ parent \in {"alive", "canceled", "deadline"} /\ timer \in BOOLEAN
  /\ Accounts(run, runResults, remaining) /\ Accounts(shut, shutdownResults, shutdownRemaining)
  /\ Told("run", run, runResults, {"failure"})
  /\ Told("shutdown", shut, shutdownResults, Errors \ {"nil"})
  /\ RunPhases /\ Unanswered

USE LifecycleAssumption

-----------------------------------------------------------------------------
(* A goroutine ends, and its result is collected.                          *)

LEMMA Reports ==
  ASSUME NEW queue \in Seq(Report), NEW i \in DOMAIN queue
  PROVE  queue[i] \in Report /\ queue[i].index \in Services /\ queue[i].err \in Errors
<1>1. queue[i] \in Report
  OBVIOUS
<1> QED BY <1>1 DEF Report

LEMMA OutstandingFinite ==
  ASSUME NEW state, NEW queue, NEW count, Accounts(state, queue, count)
  PROVE  /\ Outstanding(state, queue) \subseteq Services
         /\ IsFiniteSet(Outstanding(state, queue)) /\ count \in Nat
<1>1. Outstanding(state, queue) \subseteq Services
  BY Reports DEF Accounts, Outstanding, Queued
<1> QED BY <1>1, FS_Subset, FS_CardinalityType DEF Accounts

LEMMA Sends ==
  ASSUME NEW state, NEW queue, NEW count, Accounts(state, queue, count),
         NEW s \in Services, state[s] = "running", NEW e \in Errors
  PROVE  LET state2 == [state EXCEPT ![s] = e]
             queue2 == Append(queue, [index |-> s, err |-> e])
         IN  /\ Accounts(state2, queue2, count)
             /\ Outstanding(state2, queue2) = Outstanding(state, queue)
<1> DEFINE x == [index |-> s, err |-> e]
           state2 == [state EXCEPT ![s] = e]
           queue2 == Append(queue, x)
<1>1. /\ queue \in Seq(Report) /\ x \in Report /\ state \in [Services -> States]
      /\ state2 \in [Services -> States]
  BY DEF Accounts, Report, States
<1>2. /\ queue2 \in Seq(Report) /\ DOMAIN queue2 = DOMAIN queue \cup {Len(queue) + 1}
      /\ queue2[Len(queue) + 1] = x /\ \A i \in DOMAIN queue : queue2[i] = queue[i]
      /\ Len(queue) + 1 \notin DOMAIN queue
  BY <1>1
<1>3. s \notin Queued(queue)
  <2>1. \A i \in DOMAIN queue : queue[i].err # "running" /\ state[queue[i].index] = queue[i].err
    BY <1>1, Reports DEF Accounts, Errors
  <2> QED BY <2>1 DEF Queued
<1>4. Queued(queue2) = Queued(queue) \cup {s}
  BY <1>2 DEF Queued
<1>5. {t \in Services : state2[t] = "running"} = {t \in Services : state[t] = "running"} \ {s}
  BY <1>1 DEF Errors
<1>6. Outstanding(state2, queue2) = Outstanding(state, queue)
  BY <1>4, <1>5 DEF Outstanding
<1>7. \A i \in DOMAIN queue2 : state2[queue2[i].index] = queue2[i].err
  <2>1. \A i \in DOMAIN queue : queue[i].index # s /\ queue[i].index \in Services
    BY <1>1, <1>3, Reports DEF Queued
  <2> QED BY <1>1, <1>2, <2>1 DEF Accounts
<1>8. \A i, j \in DOMAIN queue2 : queue2[i].index = queue2[j].index => i = j
  BY <1>2, <1>3 DEF Accounts, Queued
<1> QED BY <1>1, <1>2, <1>6, <1>7, <1>8 DEF Accounts

LEMMA Collects ==
  ASSUME NEW state, NEW queue, NEW count, Accounts(state, queue, count), queue # <<>>
  PROVE  /\ Head(queue) \in Report /\ state[Head(queue).index] = Head(queue).err
         /\ Accounts(state, Tail(queue), count - 1)
         /\ Outstanding(state, Tail(queue)) = Outstanding(state, queue) \ {Head(queue).index}
<1> DEFINE s == Head(queue).index
<1>1. /\ queue \in Seq(Report) /\ Head(queue) = queue[1] /\ 1 \in DOMAIN queue
      /\ Tail(queue) \in Seq(Report) /\ state \in [Services -> States]
  BY DEF Accounts
<1>2. /\ Head(queue) \in Report /\ state[s] = Head(queue).err
      /\ s \in Services /\ state[s] # "running"
  BY <1>1, Reports DEF Accounts, Errors
<1>3. /\ DOMAIN Tail(queue) = {i \in Nat : i + 1 \in DOMAIN queue /\ i # 0}
      /\ \A i \in DOMAIN Tail(queue) : Tail(queue)[i] = queue[i + 1]
  BY <1>1
<1>4. Queued(Tail(queue)) = Queued(queue) \ {s}
  <2>1. ASSUME NEW i \in DOMAIN Tail(queue)
        PROVE  Tail(queue)[i].index \in Queued(queue) \ {s}
    BY <1>1, <1>3 DEF Accounts, Queued
  <2>2. ASSUME NEW i \in DOMAIN queue, queue[i].index # s
        PROVE  queue[i].index \in Queued(Tail(queue))
    <3>1. i # 1 /\ i - 1 \in DOMAIN Tail(queue) /\ Tail(queue)[i - 1] = queue[i]
      BY <1>1, <1>3, <2>2
    <3> QED BY <3>1 DEF Queued
  <2> QED BY <2>1, <2>2 DEF Queued
<1>5. Outstanding(state, Tail(queue)) = Outstanding(state, queue) \ {s}
  BY <1>2, <1>4 DEF Outstanding
<1>6. count - 1 = Cardinality(Outstanding(state, Tail(queue)))
  <2>1. s \in Outstanding(state, queue)
    BY <1>1 DEF Outstanding, Queued
  <2> QED BY <1>5, <2>1, OutstandingFinite, FS_RemoveElement DEF Accounts
<1>7. \A i, j \in DOMAIN Tail(queue) : Tail(queue)[i].index = Tail(queue)[j].index => i = j
  BY <1>1, <1>3 DEF Accounts
<1>8. \A i \in DOMAIN Tail(queue) : state[Tail(queue)[i].index] = Tail(queue)[i].err
  BY <1>1, <1>3 DEF Accounts
<1> QED BY <1>1, <1>2, <1>5, <1>6, <1>7, <1>8 DEF Accounts

LEMMA StartsAll ==
  ASSUME NEW quiet
  PROVE  LET state == [s \in Services |-> IF s \in quiet THEN "none" ELSE "running"] IN
         /\ Accounts(state, <<>>, Cardinality(Services \ quiet))
         /\ Outstanding(state, <<>>) = Services \ quiet
<1> DEFINE state == [s \in Services |-> IF s \in quiet THEN "none" ELSE "running"]
<1>1. Queued(<<>>) = {} /\ <<>> \in Seq(Report) /\ DOMAIN <<>> = {}
  BY DEF Queued
<1>2. {s \in Services : state[s] = "running"} = Services \ quiet
  OBVIOUS
<1> QED BY <1>1, <1>2 DEF Accounts, Outstanding, States

\* What was collected is told, and nothing else becomes collected.
LEMMA CollectsRun ==
  ASSUME RunInv, TakeRunResult, run' = run
  PROVE  Accounts(run, runResults, remaining)' /\ Told("run", run, runResults, {"failure"})'
         /\ errors \subseteq errors'
<1>1. runResults # <<>> /\ Accounts(run, runResults, remaining) /\ parent # "failure"
      /\ Told("run", run, runResults, {"failure"})
  BY DEF TakeRunResult, RunInv
<1>2. Accounts(run, Tail(runResults), remaining - 1) /\ errors \subseteq errors'
  BY <1>1, Collects DEF TakeRunResult
<1>3. Told("run", run, runResults, {"failure"})'
  <2> SUFFICES ASSUME NEW s \in Services \ Outstanding(run, Tail(runResults)), run[s] = "failure"
               PROVE  <<"run", s>> \in errors'
    BY DEF Told, TakeRunResult, Outstanding, Queued
  <2>1. CASE s = Head(runResults).index
    BY <1>1, <2>1, Collects DEF TakeRunResult, expectedStop
  <2>2. CASE s # Head(runResults).index
    BY <1>1, <1>2, <2>2, Collects DEF Told
  <2> QED BY <2>1, <2>2
<1> QED BY <1>2, <1>3 DEF TakeRunResult, Accounts, Outstanding, Queued

LEMMA RunSteps == ASSUME RunInv, Run PROVE RunInv'
<1> USE DEF results
<1>1. CASE Start
  <2>1. Accounts(run, runResults, remaining)' /\ Outstanding(run, runResults)' = Services
    <3>1. Services \ {} = Services
          /\ [s \in Services |-> "running"] = [s \in Services |-> IF s \in {} THEN "none" ELSE "running"]
      OBVIOUS
    <3>2. run' = [s \in Services |-> "running"] /\ runResults' = <<>>
          /\ remaining' = Cardinality(Services)
      BY <1>1 DEF Start, RunInv, RunPhases
    <3>3. Accounts(run', runResults', remaining') /\ Outstanding(run', runResults') = Services
      BY <3>1, <3>2, StartsAll
    <3> QED BY <3>3 DEF Accounts, Outstanding, Queued
  <2>2. Told("run", run, runResults, {"failure"})'
    BY <2>1 DEF Told, Outstanding, Queued
  <2>3. RunPhases' /\ Unanswered'
    BY <1>1 DEF Start, RunInv, RunPhases, Unanswered
  <2> QED BY <1>1, <2>1, <2>2, <2>3 DEF Start, RunInv, Told, Accounts, Outstanding, Queued
<1>2. ASSUME BeginShutdown, at = "wait", run' = run,
             Accounts(run, runResults, remaining)' /\ Told("run", run, runResults, {"failure"})'
      PROVE  RunInv'
  <2>1. /\ Accounts(shut, shutdownResults, shutdownRemaining)'
        /\ Outstanding(shut, shutdownResults)' = Services \ Silent
        /\ \A s \in Services : shut'[s] \in {"none", "running"}
    <3>1. /\ shut' = [s \in Services |-> IF s \in Silent THEN "none" ELSE "running"]
          /\ shutdownResults' = <<>> /\ shutdownRemaining' = Cardinality(Services \ Silent)
      BY <1>2 DEF BeginShutdown, RunInv, RunPhases
    <3>2. /\ Accounts(shut', shutdownResults', shutdownRemaining')
          /\ Outstanding(shut', shutdownResults') = Services \ Silent
      BY <3>1, StartsAll
    <3> QED BY <3>1, <3>2 DEF Accounts, Outstanding, Queued
  <2>2. Told("shutdown", shut, shutdownResults, Errors \ {"nil"})'
    BY <2>1 DEF Told, Outstanding, Queued, Errors
  <2>3. RunPhases' /\ Unanswered'
    BY <1>2, <2>1 DEF BeginShutdown, RunInv, RunPhases, Unanswered
  <2> QED BY <1>2, <2>1, <2>2, <2>3 DEF BeginShutdown, RunInv
<1>3. CASE FirstStop
  BY <1>2, <1>3, CollectsRun DEF FirstStop, BeginShutdown
<1>4. CASE ParentStop
  <2>1. Accounts(run, runResults, remaining)' /\ Told("run", run, runResults, {"failure"})'
    BY <1>4 DEF ParentStop, BeginShutdown, RunInv, Accounts, Told, Outstanding, Queued
  <2> QED BY <1>2, <1>4, <2>1 DEF ParentStop, BeginShutdown
<1>5. CASE CollectRun
  <2>1. Accounts(run, runResults, remaining)' /\ Told("run", run, runResults, {"failure"})'
        /\ errors \subseteq errors'
    BY <1>5, CollectsRun DEF CollectRun
  <2>2. Accounts(shut, shutdownResults, shutdownRemaining)'
        /\ Told("shutdown", shut, shutdownResults, Errors \ {"nil"})'
    BY <1>5, <2>1 DEF CollectRun, RunInv, Accounts, Told, Outstanding, Queued
  <2>3. RunPhases' /\ Unanswered'
    BY <1>5 DEF CollectRun, RunInv, RunPhases, Unanswered
  <2> QED BY <1>5, <2>1, <2>2, <2>3 DEF CollectRun, RunInv
<1>6. CASE CollectShutdown
  <2>1. /\ Accounts(shut, shutdownResults, shutdownRemaining) /\ shutdownResults # <<>>
        /\ Told("shutdown", shut, shutdownResults, Errors \ {"nil"})
    BY <1>6 DEF CollectShutdown, RunInv
  <2>2. Accounts(shut, shutdownResults, shutdownRemaining)' /\ errors \subseteq errors'
    <3>1. /\ shut' = shut /\ shutdownResults' = Tail(shutdownResults)
          /\ shutdownRemaining' = shutdownRemaining - 1 /\ errors \subseteq errors'
      BY <1>6 DEF CollectShutdown
    <3>2. Accounts(shut', shutdownResults', shutdownRemaining')
      BY <2>1, <3>1, Collects
    <3> QED BY <3>1, <3>2 DEF Accounts, Outstanding, Queued
  <2>3. Told("shutdown", shut, shutdownResults, Errors \ {"nil"})'
    <3> SUFFICES ASSUME NEW s \in Services \ Outstanding(shut, Tail(shutdownResults)),
                        shut[s] \in Errors \ {"nil"}
                 PROVE  <<"shutdown", s>> \in errors'
      BY <1>6 DEF Told, CollectShutdown, Outstanding, Queued
    <3>1. CASE s = Head(shutdownResults).index
      BY <1>6, <2>1, <3>1, Collects DEF CollectShutdown
    <3>2. CASE s # Head(shutdownResults).index
      BY <2>1, <2>2, <3>2, Collects DEF Told
    <3> QED BY <3>1, <3>2
  <2>4. Accounts(run, runResults, remaining)' /\ Told("run", run, runResults, {"failure"})'
    BY <1>6, <2>2 DEF CollectShutdown, RunInv, Accounts, Told, Outstanding, Queued
  <2>5. RunPhases' /\ Unanswered'
    BY <1>6 DEF CollectShutdown, RunInv, RunPhases, Unanswered
  <2> QED BY <1>6, <2>2, <2>3, <2>4, <2>5 DEF CollectShutdown, RunInv
<1>7. CASE TimedOut \/ ReturnJoined
  <2>1. UNCHANGED <<parent, timer, run, shut, busy, results>> /\ errors \subseteq errors'
        /\ at = "finish" /\ at' = "returned"
        /\ (<<"timeout">> \notin errors' => remaining = 0 /\ shutdownRemaining = 0)
    BY <1>7 DEF TimedOut, ReturnJoined
  <2>2. RunPhases' /\ Unanswered'
    BY <2>1 DEF RunInv, RunPhases, Unanswered
  <2> QED BY <2>1, <2>2 DEF RunInv, Accounts, Told, Outstanding, Queued
<1> QED BY <1>1, <1>3, <1>4, <1>5, <1>6, <1>7 DEF Run

LEMMA ServiceSteps ==
  ASSUME RunInv,
         \/ Refuse \/ Done \/ Timer \/ UNCHANGED runVars
         \/ \E s \in Services :
              RunReturns(s) \/ Request(s) \/ RequestEnds(s) \/ ShutdownReturns(s)
  PROVE  RunInv'
<1> USE DEF results
<1>1. CASE Refuse \/ Done \/ Timer \/ UNCHANGED runVars \/ \E s \in Services : Request(s) \/ RequestEnds(s)
  <2>1. UNCHANGED <<run, shut, results, errors>>
    BY <1>1 DEF Refuse, Done, Timer, Request, RequestEnds, runVars
  <2>2. RunPhases' /\ Unanswered'
    BY <1>1 DEF Refuse, Done, Timer, Request, RequestEnds, runVars, RunInv, RunPhases, Unanswered
  <2>3. at' \in {"start", "refused", "wait", "finish", "returned"}
        /\ parent' \in {"alive", "canceled", "deadline"} /\ timer' \in BOOLEAN
    BY <1>1 DEF Refuse, Done, Timer, Request, RequestEnds, runVars, RunInv
  <2> QED BY <2>1, <2>2, <2>3 DEF RunInv, Accounts, Told, Outstanding, Queued
<1>2. ASSUME NEW s \in Services, RunReturns(s) PROVE RunInv'
  <2>1. PICK e \in Errors :
          /\ run[s] = "running" /\ run' = [run EXCEPT ![s] = e]
          /\ runResults' = Append(runResults, [index |-> s, err |-> e])
    BY <1>2 DEF RunReturns, Result, Errors
  <2>2. /\ UNCHANGED <<at, parent, timer, shut, busy, shutdownResults, remaining,
                       shutdownRemaining, errors>>
        /\ run \in [Services -> States]
    BY <1>2 DEF RunReturns, RunInv, Accounts
  <2>3. Accounts(run', runResults', remaining)
        /\ Outstanding(run', runResults') = Outstanding(run, runResults)
    BY <2>1, Sends DEF RunInv
  <2>4. Accounts(run, runResults, remaining)' /\ Told("run", run, runResults, {"failure"})'
    <3>1. s \in Outstanding(run, runResults)
      BY <2>1 DEF Outstanding
    <3>2. \A t \in Services \ Outstanding(run', runResults') : run'[t] = run[t]
      BY <2>1, <2>2, <2>3, <3>1
    <3> QED BY <2>2, <2>3, <3>2 DEF RunInv, Told, Accounts, Outstanding, Queued
  <2>5. RunPhases'
    <3>1. at \notin {"start", "refused"}
      BY <2>1 DEF RunInv, RunPhases
    <3> QED BY <2>1, <2>2, <3>1 DEF RunInv, RunPhases, Errors
  <2>6. Unanswered'
    BY <2>2 DEF RunInv, Unanswered
  <2> QED BY <2>2, <2>4, <2>5, <2>6 DEF RunInv, Told, Accounts, Outstanding, Queued
<1>3. ASSUME NEW s \in Services, ShutdownReturns(s) PROVE RunInv'
  <2>1. PICK e \in Errors :
          /\ shut[s] = "running" /\ shut' = [shut EXCEPT ![s] = e]
          /\ shutdownResults' = Append(shutdownResults, [index |-> s, err |-> e])
          /\ s \in Servers => e = "deadline" \/ s \notin busy
    BY <1>3 DEF ShutdownReturns
  <2>2. /\ UNCHANGED <<at, parent, timer, run, busy, runResults, remaining,
                       shutdownRemaining, errors>>
        /\ shut \in [Services -> States]
    BY <1>3 DEF ShutdownReturns, RunInv, Accounts
  <2>3. Accounts(shut', shutdownResults', shutdownRemaining)
        /\ Outstanding(shut', shutdownResults') = Outstanding(shut, shutdownResults)
    BY <2>1, Sends DEF RunInv
  <2>4. Accounts(shut, shutdownResults, shutdownRemaining)'
        /\ Told("shutdown", shut, shutdownResults, Errors \ {"nil"})'
    <3>1. s \in Outstanding(shut, shutdownResults)
      BY <2>1 DEF Outstanding
    <3>2. \A t \in Services \ Outstanding(shut', shutdownResults') : shut'[t] = shut[t]
      BY <2>1, <2>2, <2>3, <3>1
    <3> QED BY <2>2, <2>3, <3>2 DEF RunInv, Told, Accounts, Outstanding, Queued
  <2>5. RunPhases'
    <3>1. at \notin {"start", "refused", "wait"}
      BY <2>1 DEF RunInv, RunPhases
    <3> QED BY <2>1, <2>2, <3>1 DEF RunInv, RunPhases, Errors
  <2>6. Unanswered'
    BY <2>1, <2>2 DEF RunInv, Unanswered
  <2> QED BY <2>2, <2>4, <2>5, <2>6 DEF RunInv, Told, Accounts, Outstanding, Queued
<1> QED BY <1>1, <1>2, <1>3

LEMMA RunInitial == RunInit => RunInv
<1> SUFFICES ASSUME RunInit PROVE RunInv
  OBVIOUS
<1>1. /\ Accounts(run, runResults, remaining) /\ Outstanding(run, runResults) = {}
      /\ Accounts(shut, shutdownResults, shutdownRemaining)
      /\ Outstanding(shut, shutdownResults) = {}
  <2>1. Services \ Services = {}
    OBVIOUS
  <2> QED BY <2>1, StartsAll, FS_EmptySet DEF RunInit
<1>2. /\ Told("run", run, runResults, {"failure"})
      /\ Told("shutdown", shut, shutdownResults, Errors \ {"nil"})
  BY DEF RunInit, Told, Errors
<1> QED BY <1>1, <1>2 DEF RunInit, RunInv, RunPhases, Unanswered

-----------------------------------------------------------------------------
(* Theorems of Run.                                                        *)

\* The inductive invariant of Run: each goroutine's result is on its way, in a
\* channel or told, and the two counters say how many are to come.
THEOREM RunInvariance == RunSpec => []RunInv
<1>1. RunInit => RunInv
  BY RunInitial
<1>2. RunInv /\ [RunNext]_runVars => RunInv'
  BY RunSteps, ServiceSteps DEF RunNext
<1> QED BY <1>1, <1>2, PTL DEF RunSpec

\* The counters stay between zero and the number of services, so that the loop
\* that waits for them to be zero can stop (lifecycle.go:95-103).
THEOREM CountersInRange ==
  RunSpec => [](remaining \in 0..Cardinality(Services) /\ shutdownRemaining \in 0..Cardinality(Services))
<1>1. ASSUME NEW state, NEW queue, NEW count, Accounts(state, queue, count)
      PROVE  count \in 0..Cardinality(Services)
  <2>1. /\ Outstanding(state, queue) \subseteq Services /\ count \in Nat
        /\ count = Cardinality(Outstanding(state, queue))
    BY <1>1, OutstandingFinite DEF Accounts
  <2> QED BY <2>1, FS_Subset, FS_CardinalityType
<1>2. RunInv => remaining \in 0..Cardinality(Services) /\ shutdownRemaining \in 0..Cardinality(Services)
  BY <1>1 DEF RunInv
<1> QED BY <1>2, RunInvariance, PTL

\* Unless it reports a timeout, Run has waited for every service and every Shutdown
\* and tells of every failure, and a request that is still in progress belongs to a
\* server whose Shutdown it reports, for any number of services
\* (lifecycle.go:81-113, 144-149).
THEOREM TellsAll == RunSpec => []ReturnTellsAll
<1>1. RunInv => ReturnTellsAll
  <2> SUFFICES ASSUME RunInv, at = "returned", <<"timeout">> \notin errors
               PROVE  /\ \A s \in busy : <<"shutdown", s>> \in errors
                      /\ \A s \in Services :
                           /\ run[s] \in Errors /\ (s \notin Silent => shut[s] \in Errors)
                           /\ run[s] = "failure" => <<"run", s>> \in errors
                           /\ shut[s] \notin {"none", "nil"} => <<"shutdown", s>> \in errors
    BY DEF ReturnTellsAll
  <2>1. remaining = 0 /\ shutdownRemaining = 0
    BY DEF RunInv, RunPhases
  <2>2. Outstanding(run, runResults) = {} /\ Outstanding(shut, shutdownResults) = {}
    BY <2>1, OutstandingFinite, FS_EmptySet DEF RunInv, Accounts
  <2>3. \A s \in Services : run[s] # "running" /\ shut[s] # "running"
    BY <2>2 DEF Outstanding
  <2>4. \A s \in Services : run[s] \in Errors /\ (s \notin Silent => shut[s] \in Errors)
    BY <2>3 DEF RunInv, RunPhases, Accounts, States
  <2>5. \A s \in Services : /\ run[s] = "failure" => <<"run", s>> \in errors
                            /\ shut[s] \notin {"none", "nil"} => <<"shutdown", s>> \in errors
    BY <2>2, <2>3 DEF RunInv, Told, Accounts, States
  <2>6. \A s \in busy : <<"shutdown", s>> \in errors
    BY <2>3, <2>4, <2>5, LifecycleAssumption DEF RunInv, Unanswered, Errors
  <2> QED BY <2>4, <2>5, <2>6
<1> QED BY <1>1, RunInvariance, PTL
=============================================================================
