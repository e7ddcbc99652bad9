-------------------------- MODULE ServiceRegistry --------------------------
(***************************************************************************)
(* godo service add, update, restart, edit and remove (cli/godo/service.go,*)
(* registry.go, supervisor.go, agent.go): commands of several terminals on *)
(* one registry file, the managed binaries, the unit files, the user's     *)
(* systemd and the block of AGENTS.md.  Every command holds the registry   *)
(* lock from its first read to its end; any of its steps may fail, and it  *)
(* may be killed between two of them.                                      *)
(*                                                                         *)
(* A program is the version it was built from, 0 when the file is absent.  *)
(* A unit is its runtime settings and its port.  Its Description, which no *)
(* process sees, is left out: an edit of the name alone leaves it as it is.*)
(* systemd is external: it runs what it loaded at the last daemon-reload.  *)
(***************************************************************************)
EXTENDS Naturals, FiniteSets

CONSTANTS
  Processes, NoProcess,
  Metas,          \* names, with the --no-agent flag
  Confs, Ports,   \* Confs: working directory, arguments, environment
  NoUnit,
  MaxID, MaxVersion, MaxFaults   \* bounds

ASSUME ServiceRegistryAssumption ==
  /\ \A m \in Metas : m.noAgent \in BOOLEAN
  /\ NoProcess \notin Processes
  /\ NoUnit \notin [conf : Confs, port : Ports]
  /\ MaxID \in Nat \ {0} /\ MaxVersion \in Nat \ {0} /\ MaxFaults \in Nat

VARIABLES
  source,       \* version of the program the targets would be built from now
  registry,     \* services.json
  lock,
  pc, cmd, value,   \* per process: place, command, the registry it loaded
  binary, previous, \* per id: service, service.previous
  unitFile, loaded, enabled, running,   \* per id
  agents,       \* rows of the managed block
  faults,       \* steps that failed or were the last of a killed command
  settled,      \* history: ids whose commands have all reported what they did
  gone,         \* history: ids reported as removed
  stale         \* history: a command ended between the registry and AGENTS.md

files == <<binary, previous>>
systemd == <<loaded, enabled, running>>
history == <<faults, settled, gone, stale>>
vars == <<source, registry, lock, pc, cmd, value, files, unitFile, systemd,
          agents, history>>

-----------------------------------------------------------------------------

Ids == 1..MaxID
Versions == 1..MaxVersion
Service == [id : Ids, meta : Metas, conf : Confs, port : Ports]
renderUnit(service) == [conf |-> service.conf, port |-> service.port]
Stopped == [version |-> 0, unit |-> NoUnit]
NoCommand == [op |-> "none"]

IdsOf(services) == {s.id : s \in services}
Registered(id) == \E s \in registry.services : s.id = id
ServiceOf(services, id) == CHOOSE s \in services : s.id = id

\* What the block shows of the services.
agentBlock(services) ==
  {[id |-> s.id, name |-> s.meta.name, port |-> s.port] :
     s \in {t \in services : ~t.meta.noAgent}}

Init ==
  /\ source = 1
  /\ registry = [nextID |-> 1, services |-> {}]
  /\ lock = NoProcess
  /\ pc = [p \in Processes |-> "idle"]
  /\ cmd = [p \in Processes |-> NoCommand]
  /\ value = [p \in Processes |-> [nextID |-> 1, services |-> {}]]
  /\ binary = [id \in Ids |-> 0] /\ previous = [id \in Ids |-> 0]
  /\ unitFile = [id \in Ids |-> NoUnit] /\ loaded = [id \in Ids |-> NoUnit]
  /\ enabled = [id \in Ids |-> FALSE]
  /\ running = [id \in Ids |-> Stopped]
  /\ agents = {} /\ faults = 0
  /\ settled = {} /\ gone = {} /\ stale = FALSE

Goto(p, l) == pc' = [pc EXCEPT ![p] = l]

\* The command ends and its lock is dropped.
Return(p) ==
  /\ Goto(p, "idle")
  /\ cmd' = [cmd EXCEPT ![p] = NoCommand]
  /\ value' = [value EXCEPT ![p] = [nextID |-> 1, services |-> {}]]
  /\ lock' = NoProcess

\* A step fails by a fault, or because it cannot be done.
Fails(possible) ==
  \/ faults < MaxFaults /\ faults' = faults + 1
  \/ ~possible /\ UNCHANGED faults
Fault == Fails(TRUE)

\* The command ends with things done, left as they were, or restored; or it
\* ends in between.
Clean(p) == Return(p) /\ UNCHANGED <<settled, gone, stale>>
Torn(p) ==
  /\ Return(p)
  /\ settled' = settled \ {cmd[p].service.id}
  /\ UNCHANGED <<gone, stale>>

-----------------------------------------------------------------------------
(* systemctl, as far as the commands use it.                               *)

DaemonReload == loaded' = unitFile /\ UNCHANGED <<enabled, running>>

Process(id) == [version |-> binary[id], unit |-> loaded[id]]

\* An active unit is left as it runs.
EnableNow(id) ==
  /\ loaded[id] # NoUnit
  /\ enabled' = [enabled EXCEPT ![id] = TRUE]
  /\ running' = [running EXCEPT ![id] = IF @ = Stopped THEN Process(id) ELSE @]
  /\ UNCHANGED loaded

\* Only a unit whose file exists can be disabled.
DisableNow(id) ==
  /\ unitFile[id] # NoUnit
  /\ enabled' = [enabled EXCEPT ![id] = FALSE]
  /\ running' = [running EXCEPT ![id] = Stopped]
  /\ UNCHANGED loaded

RestartUnit(id) ==
  /\ loaded[id] # NoUnit
  /\ running' = [running EXCEPT ![id] = Process(id)]
  /\ UNCHANGED <<loaded, enabled>>

\* A failing restart may have stopped the service already.
RestartFails(id) ==
  /\ Fails(loaded[id] # NoUnit)
  /\ running' \in {running, [running EXCEPT ![id] = Stopped]}
  /\ UNCHANGED <<loaded, enabled>>

-----------------------------------------------------------------------------
(* The beginning of every command: lock, load, look at what is there.      *)

\* FAULT: a command reads the registry without keeping the others out.
BeginShared(p, command, l) ==
  /\ pc[p] = "idle" /\ lock' = p
  /\ value' = [value EXCEPT ![p] = registry]
  /\ cmd' = [cmd EXCEPT ![p] = command] /\ Goto(p, l)
  /\ UNCHANGED <<source, registry, files, unitFile, systemd, agents, history>>

Begin(p, command, l) ==
  /\ pc[p] = "idle" /\ lock = NoProcess /\ lock' = p
  /\ value' = [value EXCEPT ![p] = registry]
  /\ cmd' = [cmd EXCEPT ![p] = command] /\ Goto(p, l)
  /\ UNCHANGED <<source, registry, files, unitFile, systemd, agents, history>>

\* Not of the registry's, nor taken by anything that runs.
choosePort(port) ==
  /\ \A s \in registry.services : s.port # port
  /\ \A id \in Ids : running[id].unit \notin [conf : Confs, port : {port}]

\* FAULT: the id after the greatest one registered now.
nextIDOfServices ==
  CHOOSE id \in 1..(MaxID + 1) :
    /\ id = 1 \/ Registered(id - 1)
    /\ \A s \in registry.services : s.id < id

nextID == registry.nextID

add(p) ==
  /\ nextID \in Ids
  /\ \E service \in [id : {nextID}, meta : Metas, conf : Confs, port : Ports] :
       /\ \A s \in registry.services : s.meta.name # service.meta.name
       /\ choosePort(service.port)
       /\ Begin(p, [op |-> "add", service |-> service, fresh |-> FALSE], "build")

update(p) ==
  \E s \in registry.services : Begin(p, [op |-> "update", service |-> s, built |-> 0], "build")

restart(p) ==
  \E s \in registry.services : Begin(p, [op |-> "restart", service |-> s], "restart")

remove(p) ==
  \E s \in registry.services : Begin(p, [op |-> "remove", service |-> s], "stop")

\* Some of the name, the visibility and the runtime settings are replaced; runtime:
\* a flag of the settings was given, which may repeat what is registered.
edit(p) ==
  \E s \in registry.services, meta \in Metas, conf \in Confs, runtime \in BOOLEAN :
    /\ \A t \in registry.services : t.id # s.id => t.meta.name # meta.name
    /\ conf # s.conf => runtime
    /\ Begin(p, [op |-> "edit", service |-> [s EXCEPT !.meta = meta, !.conf = conf],
                 old |-> s, oldUnit |-> NoUnit, runtime |-> runtime], "save")

syncAgentsAndPrint(p) == Begin(p, [op |-> "agents"], "agents")

Id(p) == cmd[p].service.id
At(p, op, l) == pc[p] = l /\ cmd[p].op = op
Same == UNCHANGED <<source, agents>>

-----------------------------------------------------------------------------
(* add                                                                     *)

AddBuild(p) ==
  /\ At(p, "add", "build") /\ Same
  /\ \/ /\ binary' = [binary EXCEPT ![Id(p)] = source] /\ Goto(p, "unit")
        /\ UNCHANGED <<cmd, value, lock, history>>
     \/ Fault /\ Clean(p) /\ UNCHANGED binary
  /\ UNCHANGED <<registry, previous, unitFile, systemd>>

RemoveAll(id) ==
  /\ binary' = [binary EXCEPT ![id] = 0]
  /\ previous' = [previous EXCEPT ![id] = 0]

AddUnit(p) ==
  /\ At(p, "add", "unit") /\ Same
  /\ \/ /\ unitFile' = [unitFile EXCEPT ![Id(p)] = renderUnit(cmd[p].service)]
        /\ Goto(p, "reload") /\ UNCHANGED <<cmd, value, lock, files, history>>
     \/ Fault /\ RemoveAll(Id(p)) /\ Clean(p) /\ UNCHANGED unitFile
  /\ UNCHANGED <<registry, systemd>>

AddReload(p) ==
  /\ At(p, "add", "reload") /\ Same
  /\ \/ /\ DaemonReload /\ Goto(p, "enable")
        /\ UNCHANGED <<cmd, value, lock, files, unitFile, history>>
     \/ /\ Fault /\ unitFile' = [unitFile EXCEPT ![Id(p)] = NoUnit]
        /\ RemoveAll(Id(p)) /\ Clean(p) /\ UNCHANGED systemd
  /\ UNCHANGED registry

\* fresh: the unit was not running already.
AddEnable(p) ==
  /\ At(p, "add", "enable") /\ Same
  /\ \/ /\ EnableNow(Id(p)) /\ Goto(p, "save")
        /\ cmd' = [cmd EXCEPT ![p].fresh = (running[Id(p)] = Stopped)]
        /\ UNCHANGED faults
     \/ /\ Fault /\ running' \in {running, [running EXCEPT ![Id(p)] = Process(Id(p))]}
        /\ Goto(p, "undo stop") /\ UNCHANGED <<cmd, loaded, enabled>>
  /\ UNCHANGED <<registry, value, lock, files, unitFile, settled, gone, stale>>

AddSave(p) ==
  /\ At(p, "add", "save") /\ Same
  /\ \/ /\ registry' = [nextID |-> value[p].nextID + 1,
                        services |-> value[p].services \cup {cmd[p].service}]
        /\ value' = [value EXCEPT ![p] = registry'] /\ Goto(p, "agents")
        /\ UNCHANGED faults
     \/ Fault /\ Goto(p, "undo remove") /\ UNCHANGED <<registry, value>>
  /\ UNCHANGED <<cmd, lock, files, unitFile, systemd, settled, gone, stale>>

\* install goes on when its disable fails; remove gives up, and add then takes
\* the files away all the same.
UndoStop(p) ==
  /\ pc[p] \in {"undo stop", "undo remove"} /\ Same
  /\ \/ DisableNow(Id(p)) /\ Goto(p, "undo unit") /\ UNCHANGED faults
     \/ /\ Fault /\ Goto(p, IF pc[p] = "undo stop" THEN "undo unit" ELSE "undo files")
        /\ UNCHANGED systemd
  /\ UNCHANGED <<registry, cmd, value, lock, files, unitFile, settled, gone, stale>>

UndoUnit(p) ==
  /\ pc[p] = "undo unit" /\ Same /\ Goto(p, "undo reload")
  /\ unitFile' = [unitFile EXCEPT ![Id(p)] = NoUnit]
  /\ enabled' = [enabled EXCEPT ![Id(p)] = FALSE]
  /\ UNCHANGED <<registry, cmd, value, lock, files, loaded, running, history>>

UndoReload(p) ==
  /\ pc[p] = "undo reload" /\ Same /\ Goto(p, "undo files")
  /\ \/ DaemonReload /\ UNCHANGED faults
     \/ Fault /\ UNCHANGED systemd
  /\ UNCHANGED <<registry, cmd, value, lock, files, unitFile, settled, gone, stale>>

UndoFiles(p) ==
  /\ pc[p] = "undo files" /\ Same /\ RemoveAll(Id(p)) /\ Clean(p)
  /\ UNCHANGED <<registry, unitFile, systemd, faults>>

-----------------------------------------------------------------------------
(* update and restart                                                      *)

\* Into a file of its own; then the binary kept by an earlier update goes.
UpdateBuild(p) ==
  /\ At(p, "update", "build") /\ Same
  /\ \/ /\ cmd' = [cmd EXCEPT ![p].built = source] /\ Goto(p, "keep")
        /\ previous' = [previous EXCEPT ![Id(p)] = 0]
        /\ UNCHANGED <<value, lock, history>>
     \/ Fault /\ Clean(p) /\ UNCHANGED previous
  /\ UNCHANGED <<registry, binary, unitFile, systemd>>

UpdateKeep(p) ==
  /\ At(p, "update", "keep") /\ Same
  /\ \/ /\ binary[Id(p)] # 0 /\ Goto(p, "swap")
        /\ previous' = [previous EXCEPT ![Id(p)] = binary[Id(p)]]
        /\ binary' = [binary EXCEPT ![Id(p)] = 0]
        /\ UNCHANGED <<cmd, value, lock, history>>
     \/ Fails(binary[Id(p)] # 0) /\ Clean(p) /\ UNCHANGED files
  /\ UNCHANGED <<registry, unitFile, systemd>>

Restored(p) ==
  /\ binary' = [binary EXCEPT ![Id(p)] = previous[Id(p)]]
  /\ previous' = [previous EXCEPT ![Id(p)] = 0]

UpdateSwap(p) ==
  /\ At(p, "update", "swap") /\ Same
  /\ \/ /\ binary' = [binary EXCEPT ![Id(p)] = cmd[p].built] /\ Goto(p, "restart")
        /\ UNCHANGED <<cmd, value, lock, previous, history>>
     \/ Fault /\ Restored(p) /\ Clean(p)
     \/ Fault /\ Torn(p) /\ UNCHANGED files
  /\ UNCHANGED <<registry, unitFile, systemd>>

\* FAULT: the previous binary is taken away before the restart is known.
UpdateRestartDropped(p) ==
  /\ At(p, "update", "restart") /\ Same
  /\ previous' = [previous EXCEPT ![Id(p)] = 0]
  /\ \/ RestartUnit(Id(p)) /\ Clean(p) /\ UNCHANGED <<binary, faults>>
     \/ /\ RestartFails(Id(p)) /\ Goto(p, "restore")
        /\ binary' = [binary EXCEPT ![Id(p)] = 0]
        /\ UNCHANGED <<cmd, value, lock, settled, gone, stale>>
  /\ UNCHANGED <<registry, unitFile>>

\* Success, or the new binary is taken away.
UpdateRestart(p) ==
  /\ At(p, "update", "restart") /\ Same
  /\ \/ /\ RestartUnit(Id(p)) /\ Clean(p)
        /\ previous' = [previous EXCEPT ![Id(p)] = 0] /\ UNCHANGED <<binary, faults>>
     \/ /\ RestartFails(Id(p)) /\ Goto(p, "restore")
        /\ binary' = [binary EXCEPT ![Id(p)] = 0]
        /\ UNCHANGED <<cmd, value, lock, previous, settled, gone, stale>>
  /\ UNCHANGED <<registry, unitFile>>

UpdateRestore(p) ==
  /\ At(p, "update", "restore") /\ Same
  /\ \/ Restored(p) /\ Goto(p, "restart again") /\ UNCHANGED <<cmd, value, lock, history>>
     \/ Fault /\ Torn(p) /\ UNCHANGED files
  /\ UNCHANGED <<registry, unitFile, systemd>>

UpdateRestartAgain(p) ==
  /\ At(p, "update", "restart again") /\ Same
  /\ \/ RestartUnit(Id(p)) /\ Clean(p) /\ UNCHANGED faults
     \/ RestartFails(Id(p)) /\ Torn(p)
  /\ UNCHANGED <<registry, files, unitFile>>

RestartRestart(p) ==
  /\ At(p, "restart", "restart") /\ Same
  /\ \/ RestartUnit(Id(p)) /\ Clean(p) /\ UNCHANGED faults
     \/ RestartFails(Id(p)) /\ Torn(p)
  /\ UNCHANGED <<registry, files, unitFile>>

-----------------------------------------------------------------------------
(* remove                                                                  *)

RemoveStop(p) ==
  /\ At(p, "remove", "stop") /\ Same
  /\ \/ DisableNow(Id(p)) /\ Goto(p, "unit") /\ UNCHANGED <<cmd, value, lock, history>>
     \/ Fails(unitFile[Id(p)] # NoUnit) /\ Torn(p) /\ UNCHANGED systemd
  /\ UNCHANGED <<registry, files, unitFile>>

RemoveUnit(p) ==
  /\ At(p, "remove", "unit") /\ Same
  /\ \/ /\ unitFile' = [unitFile EXCEPT ![Id(p)] = NoUnit] /\ Goto(p, "reload")
        /\ UNCHANGED <<cmd, value, lock, history>>
     \/ Fault /\ Torn(p) /\ UNCHANGED unitFile
  /\ UNCHANGED <<registry, files, systemd>>

RemoveReload(p) ==
  /\ At(p, "remove", "reload") /\ Same
  /\ \/ DaemonReload /\ Goto(p, "save") /\ UNCHANGED <<cmd, value, lock, history>>
     \/ Fault /\ Torn(p) /\ UNCHANGED systemd
  /\ UNCHANGED <<registry, files, unitFile>>

\* FAULT: the services of before are published.
RemoveSaveLoaded(p) ==
  /\ At(p, "remove", "save") /\ Same
  /\ registry' = [value[p] EXCEPT !.services = @ \ {cmd[p].service}]
  /\ Goto(p, "files") /\ settled' = settled \ {Id(p)}
  /\ UNCHANGED <<value, cmd, lock, faults, gone, stale, files, unitFile, systemd>>

RemoveSave(p) ==
  /\ At(p, "remove", "save") /\ Same
  /\ \/ /\ registry' = [value[p] EXCEPT !.services = @ \ {cmd[p].service}]
        /\ value' = [value EXCEPT ![p] = registry'] /\ Goto(p, "files")
        /\ settled' = settled \ {Id(p)} /\ UNCHANGED <<cmd, lock, faults, gone, stale>>
     \/ Fault /\ Torn(p) /\ UNCHANGED registry
  /\ UNCHANGED <<files, unitFile, systemd>>

RemoveFiles(p) ==
  /\ At(p, "remove", "files") /\ Same
  /\ \/ /\ RemoveAll(Id(p)) /\ Goto(p, "agents")
        /\ gone' = gone \cup {Id(p)} /\ UNCHANGED <<cmd, value, lock, faults, settled, stale>>
     \/ Fault /\ Return(p) /\ stale' = TRUE /\ UNCHANGED <<files, settled, gone>>
  /\ UNCHANGED <<registry, unitFile, systemd>>

-----------------------------------------------------------------------------
(* edit                                                                    *)

runtimeChanged(p) == cmd[p].runtime

EditSave(p) ==
  /\ At(p, "edit", "save") /\ Same
  /\ \/ /\ registry' = [value[p] EXCEPT !.services = (@ \ {cmd[p].old}) \cup {cmd[p].service}]
        /\ value' = [value EXCEPT ![p] = registry']
        /\ Goto(p, IF runtimeChanged(p) THEN "unit" ELSE "agents")
        /\ UNCHANGED <<cmd, lock, history>>
     \/ Fault /\ Clean(p) /\ UNCHANGED registry
  /\ UNCHANGED <<files, unitFile, systemd>>

EditUnit(p) ==
  /\ At(p, "edit", "unit") /\ Same
  /\ \/ /\ unitFile[Id(p)] # NoUnit
        /\ cmd' = [cmd EXCEPT ![p].oldUnit = unitFile[Id(p)]]
        /\ unitFile' = [unitFile EXCEPT ![Id(p)] = renderUnit(cmd[p].service)]
        /\ Goto(p, "reload") /\ UNCHANGED faults
     \/ /\ Fails(unitFile[Id(p)] # NoUnit) /\ Goto(p, "registry")
        /\ UNCHANGED <<cmd, unitFile>>
  /\ UNCHANGED <<registry, value, lock, files, systemd, settled, gone, stale>>

\* FAULT: systemd is not told of the unit's new text.
EditReloadNever(p) ==
  /\ At(p, "edit", "reload") /\ Same /\ Goto(p, "restart")
  /\ UNCHANGED <<registry, cmd, value, lock, files, unitFile, systemd, history>>

EditReload(p) ==
  /\ At(p, "edit", "reload") /\ Same
  /\ \/ DaemonReload /\ Goto(p, "restart") /\ UNCHANGED faults
     \/ Fault /\ Goto(p, "restore unit") /\ UNCHANGED systemd
  /\ UNCHANGED <<registry, cmd, value, lock, files, unitFile, settled, gone, stale>>

EditRestart(p) ==
  /\ At(p, "edit", "restart") /\ Same
  /\ \/ RestartUnit(Id(p)) /\ Goto(p, "agents") /\ UNCHANGED faults
     \/ RestartFails(Id(p)) /\ Goto(p, "restore unit")
  /\ UNCHANGED <<registry, cmd, value, lock, files, unitFile, settled, gone, stale>>

\* The three steps of restore, whose errors are dropped.
EditRestoreUnit(p) ==
  /\ At(p, "edit", "restore unit") /\ Same /\ Goto(p, "restore reload")
  /\ \/ /\ unitFile' = [unitFile EXCEPT ![Id(p)] = cmd[p].oldUnit]
        /\ UNCHANGED <<settled, faults>>
     \/ Fault /\ settled' = settled \ {Id(p)} /\ UNCHANGED unitFile
  /\ UNCHANGED <<registry, cmd, value, lock, files, systemd, gone, stale>>

EditRestoreReload(p) ==
  /\ At(p, "edit", "restore reload") /\ Same /\ Goto(p, "restore restart")
  /\ \/ DaemonReload /\ UNCHANGED <<settled, faults>>
     \/ Fault /\ settled' = settled \ {Id(p)} /\ UNCHANGED systemd
  /\ UNCHANGED <<registry, cmd, value, lock, files, unitFile, gone, stale>>

EditRestoreRestart(p) ==
  /\ At(p, "edit", "restore restart") /\ Same /\ Goto(p, "registry")
  /\ \/ RestartUnit(Id(p)) /\ UNCHANGED <<settled, faults>>
     \/ RestartFails(Id(p)) /\ settled' = settled \ {Id(p)}
  /\ UNCHANGED <<registry, cmd, value, lock, files, unitFile, gone, stale>>

EditRestoreRegistry(p) ==
  /\ At(p, "edit", "registry") /\ Same
  /\ \/ /\ registry' = [value[p] EXCEPT !.services = (@ \ {cmd[p].service}) \cup {cmd[p].old}]
        /\ Clean(p) /\ UNCHANGED faults
     \/ /\ Fault /\ Return(p) /\ settled' = settled \ {Id(p)} /\ stale' = TRUE
        /\ UNCHANGED <<registry, gone>>
  /\ UNCHANGED <<files, unitFile, systemd>>

-----------------------------------------------------------------------------
(* The end of add, edit, remove and godo agent.                            *)

\* A failing syncAgents is reported, after everything else was done.
syncAgents(p) ==
  /\ pc[p] = "agents" /\ Return(p)
  /\ \/ agents' = agentBlock(value[p].services) /\ stale' = FALSE /\ UNCHANGED faults
     \/ Fault /\ stale' = TRUE /\ UNCHANGED agents
  /\ settled' = IF cmd[p].op = "add" /\ cmd[p].fresh THEN settled \cup {Id(p)} ELSE settled
  /\ UNCHANGED <<source, registry, files, unitFile, systemd, gone>>

\* The command is killed.
Killed(p) ==
  /\ Fault
  /\ pc[p] # "idle" /\ Return(p) /\ stale' = TRUE
  /\ settled' = IF cmd[p].op = "agents" THEN settled ELSE settled \ {Id(p)}
  /\ UNCHANGED <<source, registry, files, unitFile, systemd, agents, gone>>

\* The developer changes the program.
ChangeSource ==
  /\ source < MaxVersion /\ source' = source + 1
  /\ UNCHANGED <<registry, lock, pc, cmd, value, files, unitFile, systemd, agents, history>>

\* A service that fails is started again by systemd (Restart=on-failure), which
\* goes on trying while the binary is away.
Respawn(id) ==
  /\ running[id] # Stopped /\ loaded[id] # NoUnit /\ binary[id] # 0
  /\ running' = [running EXCEPT ![id] = Process(id)]
  /\ UNCHANGED <<source, registry, lock, pc, cmd, value, files, unitFile, loaded, enabled,
                 agents, history>>

Step(p) ==
  \/ add(p) \/ update(p) \/ restart(p) \/ remove(p) \/ edit(p) \/ syncAgentsAndPrint(p)
  \/ AddBuild(p) \/ AddUnit(p) \/ AddReload(p) \/ AddEnable(p) \/ AddSave(p)
  \/ UndoStop(p) \/ UndoUnit(p) \/ UndoReload(p) \/ UndoFiles(p)
  \/ UpdateBuild(p) \/ UpdateKeep(p) \/ UpdateSwap(p) \/ UpdateRestart(p)
  \/ UpdateRestore(p) \/ UpdateRestartAgain(p) \/ RestartRestart(p)
  \/ RemoveStop(p) \/ RemoveUnit(p) \/ RemoveReload(p) \/ RemoveSave(p) \/ RemoveFiles(p)
  \/ EditSave(p) \/ EditUnit(p) \/ EditReload(p) \/ EditRestart(p)
  \/ EditRestoreUnit(p) \/ EditRestoreReload(p) \/ EditRestoreRestart(p)
  \/ EditRestoreRegistry(p) \/ syncAgents(p) \/ Killed(p)

Next ==
  \/ \E p \in Processes : Step(p)
  \/ ChangeSource
  \/ \E id \in Ids : Respawn(id)

Spec == Init /\ [][Next]_vars

-----------------------------------------------------------------------------
(* Properties.                                                             *)

TypeOK ==
  /\ source \in Versions
  /\ registry.nextID \in 1..(MaxID + 1) /\ registry.services \subseteq Service
  /\ lock \in Processes \cup {NoProcess}
  /\ \A p \in Processes : pc[p] = "idle" <=> cmd[p] = NoCommand
  /\ binary \in [Ids -> 0..MaxVersion] /\ previous \in [Ids -> 0..MaxVersion]
  /\ enabled \in [Ids -> BOOLEAN]
  /\ faults \in 0..MaxFaults /\ settled \subseteq Ids /\ gone \subseteq Ids
  /\ stale \in BOOLEAN

\* No two services have an id, a name or a port in common, and the id of a
\* removed service is never given again (docs/cli.md:337-338), whatever other
\* commands run, fail or are killed.
IdentitiesAreUnique ==
  /\ \A s, t \in registry.services :
       s # t => s.id # t.id /\ s.meta.name # t.meta.name /\ s.port # t.port
  /\ gone \cap IdsOf(registry.services) = {}

Working(id) == \E p \in Processes : pc[p] # "idle" /\ cmd[p].op # "agents" /\ Id(p) = id

\* Between commands, a service whose commands have all reported what they did
\* runs as it is registered: the unit file, the unit systemd has loaded and
\* the process agree with the registry, and the process runs the managed
\* binary, also after an update or an edit that failed and said it restored the
\* former state (docs/cli.md:276, 348-349, 387-394); of a service
\* that was reported as removed nothing is left.
ReportsAreTrue ==
  /\ \A id \in settled : ~Working(id) =>
       LET unit == renderUnit(ServiceOf(registry.services, id)) IN
       /\ Registered(id) /\ enabled[id] /\ binary[id] # 0
       /\ unitFile[id] = unit /\ loaded[id] = unit
       /\ running[id] = [version |-> binary[id], unit |-> unit]
  /\ \A id \in gone : /\ unitFile[id] = NoUnit /\ ~enabled[id]
                      /\ running[id] = Stopped /\ binary[id] = 0

HasProgram(id) == binary[id] # 0 \/ previous[id] # 0

\* No command takes the last program of a service that stays registered,
\* except an update that starts without the current binary, left so by one
\* that was cut off between its renames (service.go:120-124).
ProgramKept ==
  [][\A id \in Ids :
       Registered(id) /\ Registered(id)' /\ HasProgram(id) /\ ~HasProgram(id)' =>
         binary[id] = 0 /\ \E p \in Processes : At(p, "update", "build") /\ Id(p) = id]_vars

\* Between commands the block of AGENTS.md shows the services of the registry,
\* unless a command ended between the two (service.go:80-87, 189-195).
AgentsListServices ==
  lock = NoProcess /\ ~stale => agents = agentBlock(registry.services)

\* What add reports as started is running (docs/cli.md:276, service.go:89).
AddedServiceRuns ==
  [][\A p \in Processes :
       /\ At(p, "add", "agents") /\ pc'[p] = "idle" /\ faults' = faults
       /\ running[Id(p)] # Stopped
       => running[Id(p)].unit = renderUnit(cmd[p].service)]_vars
=============================================================================
