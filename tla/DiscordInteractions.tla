------------------------ MODULE DiscordInteractions ------------------------
(***************************************************************************)
(* Slash command interactions of the Discord client (channels/discord/     *)
(* commands.go): registration and synchronization of the commands, and for *)
(* every claimed interaction the goroutine that dispatches it, its handler,*)
(* the timer that defers it and the fallback that finishes it, which share *)
(* one response state under e.mu.                                          *)
(*                                                                         *)
(* Discord is external: it takes one initial response while its window is  *)
(* open, edits what is shown without changing who sees it, and may have    *)
(* carried out a request whose response never reached the client.          *)
(* Interactions that are no commands are left out (they are answered with  *)
(* a pong or ignored before any of this).                                  *)
(***************************************************************************)
EXTENDS DiscordCommands, FiniteSets

CONSTANTS
  Interactions,
  Candidates,        \* commands the program may try to register
  Older,             \* definitions an earlier deployment left with Discord
  commandConcurrency,
  MaxFaults          \* bound on HTTP faults

ASSUME DiscordInteractionsAssumption ==
  /\ commandConcurrency \in Nat \ {0}
  /\ MaxFaults \in Nat

VARIABLES
  commands,    \* c.commands
  started, cancelled,   \* Run was called; its context is done
  remote,      \* the definitions Discord has
  sync,        \* the synchronization in progress
  phase, command,    \* per interaction: its goroutine, its command
  response,    \* e.response
  request,     \* the request of the holder of e.mu
  timer,       \* of automatic deferral
  slots,       \* taken of c.commandSlots
  shown,       \* what Discord shows for the interaction
  faults,
  late,        \* history: the window closed with nothing shown
  faulty,      \* history: a request failed or its response was lost
  reported     \* history: the Reply that was reported as sent

registration == <<commands, started, cancelled, remote, sync>>
event == <<phase, command, response, request, timer, slots>>
history == <<late, faulty, reported>>
vars == <<registration, event, shown, faults, history>>

-----------------------------------------------------------------------------

Nothing == [kind |-> "nothing", private |-> FALSE]
NoRequest == [by |-> "nobody"]

Init ==
  /\ commands = {} /\ started = FALSE /\ cancelled = FALSE
  /\ remote = Older
  /\ sync = [at |-> "never", desired |-> {}]
  /\ phase = [i \in Interactions |-> "none"]
  /\ command = [i \in Interactions |-> None]
  /\ response = [i \in Interactions |-> "initial"]
  /\ request = [i \in Interactions |-> NoRequest]
  /\ timer = [i \in Interactions |-> "off"]
  /\ slots = 0
  /\ shown = [i \in Interactions |-> Nothing]
  /\ faults = 0
  /\ late = {} /\ faulty = {}
  /\ reported = [i \in Interactions |-> None]

-----------------------------------------------------------------------------
(* Registration and synchronization.                                       *)

Command(c) ==
  /\ ~started /\ validateCommand(normalizeCommand(c))
  /\ \A d \in commands : d.name # c.name
  /\ commands' = commands \cup {normalizeCommand(c)}
  /\ UNCHANGED <<started, cancelled, remote, sync, event, shown, faults, history>>

Run ==
  /\ ~started /\ started' = TRUE
  /\ UNCHANGED <<commands, cancelled, remote, sync, event, shown, faults, history>>

\* The caller's context ends, or Run returns.
Cancel ==
  /\ started /\ ~cancelled /\ cancelled' = TRUE
  /\ UNCHANGED <<commands, started, remote, sync, event, shown, faults, history>>

\* The definitions are taken before Discord is asked for its own.  (Bound: a
\* program begins one synchronization, before it runs, as docs/discord.md:163-191
\* has it.)
syncCommands ==
  /\ sync.at = "never" /\ ~started
  /\ sync' = [at |-> "get", desired |-> commandDefinitions(commands)]
  /\ UNCHANGED <<commands, started, cancelled, remote, event, shown, faults, history>>

SyncGet ==
  /\ sync.at = "get"
  /\ sync' = [sync EXCEPT !.at =
       IF {normalizeCommand(c) : c \in remote} = sync.desired THEN "done" ELSE "put"]
  /\ UNCHANGED <<commands, started, cancelled, remote, event, shown, faults, history>>

SyncPut ==
  /\ sync.at = "put"
  /\ remote' = sync.desired /\ sync' = [sync EXCEPT !.at = "done"]
  /\ UNCHANGED <<commands, started, cancelled, event, shown, faults, history>>

\* Either request fails; a PUT may have been carried out.
SyncFails ==
  /\ sync.at \in {"get", "put"} /\ faults < MaxFaults /\ faults' = faults + 1
  /\ remote' \in {remote} \cup {d \in {sync.desired} : sync.at = "put"}
  /\ sync' = [sync EXCEPT !.at = "failed"]
  /\ UNCHANGED <<commands, started, cancelled, event, shown, history>>

-----------------------------------------------------------------------------
(* Requests.  Whoever holds e.mu has at most one, and holds it until then. *)

Unlocked(i) == request[i] = NoRequest
Reply(by, private) ==
  [by |-> by, op |-> "callback", kind |-> by, private |-> private]

accepts(i) ==
  IF request[i].op = "callback" THEN shown[i] = Nothing /\ i \notin late
  ELSE shown[i] # Nothing

\* An edit leaves the visibility; a followup is a message of its own.
Apply(i) ==
  shown' = [shown EXCEPT ![i] =
    CASE request[i].op = "callback" -> [kind |-> request[i].kind, private |-> request[i].private]
      [] request[i].op = "patch"    -> [kind |-> request[i].kind, private |-> @.private]
      [] OTHER                      -> @]

\* What the holder of e.mu does with the result.
Continue(i, ok) ==
  LET by == request[i].by IN
  /\ request' = [request EXCEPT ![i] = NoRequest]
  /\ response' = [response EXCEPT ![i] =
       IF ~ok THEN @ ELSE IF by = "deferral" THEN "deferred" ELSE "replied"]
  /\ timer' = [timer EXCEPT ![i] = IF by = "deferral" THEN "off" ELSE @]
  /\ phase' = [phase EXCEPT ![i] = IF by \in {"refusal", "fallback"} THEN "ended" ELSE @]
  /\ slots' = IF by = "fallback" THEN slots - 1 ELSE slots
  /\ reported' = [reported EXCEPT ![i] =
       IF ok /\ by = "answer" THEN request[i].kind ELSE @]
  /\ UNCHANGED command

Succeeds(i) ==
  /\ ~Unlocked(i) /\ accepts(i) /\ Apply(i) /\ Continue(i, TRUE)
  /\ UNCHANGED <<registration, faults, late, faulty>>

Refused(i) ==
  /\ ~Unlocked(i) /\ ~accepts(i) /\ Continue(i, FALSE)
  /\ UNCHANGED <<registration, shown, faults, late, faulty>>

\* The request fails, before or after Discord has carried it out: a fault, or
\* the end of the context that the handler and the refusal pass on.
RequestFails(i) ==
  /\ ~Unlocked(i)
  /\ \/ faults < MaxFaults /\ faults' = faults + 1
     \/ /\ cancelled /\ request[i].by \in {"answer", "followup", "refusal"}
        /\ UNCHANGED faults
  /\ (accepts(i) /\ Apply(i)) \/ UNCHANGED shown
  /\ Continue(i, FALSE)
  /\ faulty' = faulty \cup {i}
  /\ UNCHANGED <<registration, late>>

\* Discord's window for the initial response closes.
Expire(i) ==
  /\ phase[i] \notin {"none", "ended"} /\ shown[i] = Nothing /\ late' = late \cup {i}
  /\ i \notin late
  /\ UNCHANGED <<registration, event, shown, faults, faulty, reported>>

-----------------------------------------------------------------------------
(* dispatchInteractionAt, in a goroutine of its own.                       *)

\* Discord offers what it was told last, by this client or an older one.
Interaction(i) ==
  /\ started /\ ~cancelled /\ phase[i] = "none"
  /\ \E c \in remote : command' = [command EXCEPT ![i] = c.name]
  /\ phase' = [phase EXCEPT ![i] = "dispatch"]
  /\ UNCHANGED <<registration, response, request, timer, slots, shown, faults, history>>

registered(i) == {c \in commands : c.name = command[i]}
ephemeral(i) == \E c \in registered(i) : c.ephemeral

Refuse(i) ==
  /\ phase' = [phase EXCEPT ![i] = "refuse"]
  /\ request' = [request EXCEPT ![i] = Reply("refusal", TRUE)]
  /\ UNCHANGED <<registration, command, response, timer, slots, shown, faults, history>>

\* The access policy says no, or nothing in time; the command is not known to
\* this program; every slot is taken.
Denied(i) == phase[i] = "dispatch" /\ Refuse(i)
Unavailable(i) == phase[i] = "dispatch" /\ registered(i) = {} /\ Refuse(i)
Busy(i) ==
  phase[i] = "dispatch" /\ registered(i) # {} /\ slots = commandConcurrency /\ Refuse(i)

Accepted(i) ==
  /\ phase[i] = "dispatch" /\ registered(i) # {} /\ slots < commandConcurrency
  /\ slots' = slots + 1
  /\ phase' = [phase EXCEPT ![i] = "handler"]
  /\ timer' = [timer EXCEPT ![i] = "armed"]
  /\ UNCHANGED <<registration, command, response, request, shown, faults, history>>

-----------------------------------------------------------------------------
(* The handler.                                                            *)

Calling(i) == phase[i] = "handler" /\ Unlocked(i)

\* FAULT: the visibility of the deferred response is not looked at.
CallReplyAnyway(i, private) ==
  /\ Calling(i) /\ response[i] # "replied"
  /\ request' = [request EXCEPT ![i] =
       IF response[i] = "deferred" THEN [Reply("answer", private) EXCEPT !.op = "patch"]
       ELSE Reply("answer", private)]
  /\ UNCHANGED <<registration, phase, command, response, timer, slots, shown, faults, history>>

CallReply(i, private) ==
  /\ Calling(i) /\ response[i] # "replied"
  /\ response[i] = "deferred" => private = ephemeral(i)
  /\ request' = [request EXCEPT ![i] =
       IF response[i] = "deferred" THEN [Reply("answer", private) EXCEPT !.op = "patch"]
       ELSE Reply("answer", private)]
  /\ UNCHANGED <<registration, phase, command, response, timer, slots, shown, faults, history>>

Followup(i) ==
  /\ Calling(i) /\ response[i] = "replied"
  /\ request' = [request EXCEPT ![i] = [by |-> "followup", op |-> "followup"]]
  /\ UNCHANGED <<registration, phase, command, response, timer, slots, shown, faults, history>>

\* It returns, with or without an error, or panics; a call it made has returned.
HandlerReturns(i) ==
  /\ phase[i] = "handler" /\ (Unlocked(i) \/ request[i].by = "deferral")
  /\ phase' = [phase EXCEPT ![i] = "finish"]
  /\ UNCHANGED <<registration, command, response, request, timer, slots, shown, faults, history>>

\* FAULT: a reply is not taken into account.
finishAlways(i) ==
  /\ phase[i] = "finish" /\ Unlocked(i)
  /\ request' = [request EXCEPT ![i] =
       IF response[i] = "initial" THEN Reply("fallback", TRUE)
       ELSE [Reply("fallback", TRUE) EXCEPT !.op = "patch"]]
  /\ phase' = [phase EXCEPT ![i] = "finishing"]
  /\ UNCHANGED <<registration, command, response, timer, slots, shown, faults, history>>

\* Nothing is to be done after a reply.
finish(i) ==
  /\ phase[i] = "finish" /\ Unlocked(i) /\ response[i] # "replied"
  /\ request' = [request EXCEPT ![i] =
       IF response[i] = "initial" THEN Reply("fallback", TRUE)
       ELSE [Reply("fallback", TRUE) EXCEPT !.op = "patch"]]
  /\ phase' = [phase EXCEPT ![i] = "finishing"]
  /\ UNCHANGED <<registration, command, response, timer, slots, shown, faults, history>>

\* FAULT: a deferred response is taken for a reply.
FinishedDeferred(i) ==
  /\ phase[i] = "finish" /\ Unlocked(i) /\ response[i] # "initial"
  /\ phase' = [phase EXCEPT ![i] = "ended"]
  /\ slots' = slots - 1
  /\ UNCHANGED <<registration, command, response, request, timer, shown, faults, history>>

\* FAULT: the slot is only given back after a fallback.
FinishedWithSlot(i) ==
  /\ phase[i] = "finish" /\ Unlocked(i) /\ response[i] = "replied"
  /\ phase' = [phase EXCEPT ![i] = "ended"]
  /\ UNCHANGED <<registration, command, response, request, timer, slots, shown, faults, history>>

FinishedAlready(i) ==
  /\ phase[i] = "finish" /\ Unlocked(i) /\ response[i] = "replied"
  /\ phase' = [phase EXCEPT ![i] = "ended"]
  /\ slots' = slots - 1
  /\ UNCHANGED <<registration, command, response, request, timer, shown, faults, history>>

-----------------------------------------------------------------------------
(* Automatic deferral.                                                     *)

\* The select may take the timer although done is closed or ctx is over.
TimerFires(i) ==
  /\ timer[i] = "armed" /\ timer' = [timer EXCEPT ![i] = "fired"]
  /\ UNCHANGED <<registration, phase, command, response, request, slots, shown, faults, history>>

TimerStops(i) ==
  /\ timer[i] = "armed" /\ (cancelled \/ phase[i] \in {"finish", "finishing", "ended"})
  /\ timer' = [timer EXCEPT ![i] = "off"]
  /\ UNCHANGED <<registration, phase, command, response, request, slots, shown, faults, history>>

deferResponse(i) ==
  /\ timer[i] = "fired" /\ Unlocked(i)
  /\ IF response[i] = "initial"
     THEN request' = [request EXCEPT ![i] = Reply("deferral", ephemeral(i))] /\ UNCHANGED timer
     ELSE timer' = [timer EXCEPT ![i] = "off"] /\ UNCHANGED request
  /\ UNCHANGED <<registration, phase, command, response, slots, shown, faults, history>>

-----------------------------------------------------------------------------

Dispatching(i) == Denied(i) \/ Unavailable(i) \/ Busy(i) \/ Accepted(i)
Responding(i) == Succeeds(i) \/ Refused(i) \/ RequestFails(i)
Finishing(i) == finish(i) \/ FinishedAlready(i)

Next ==
  \/ \E c \in Candidates : Command(c)
  \/ Run \/ Cancel \/ syncCommands \/ SyncGet \/ SyncPut \/ SyncFails
  \/ \E i \in Interactions :
       \/ Interaction(i) \/ Dispatching(i) \/ Responding(i) \/ Expire(i)
       \/ \E private \in BOOLEAN : CallReply(i, private)
       \/ Followup(i) \/ HandlerReturns(i) \/ Finishing(i)
       \/ TimerFires(i) \/ TimerStops(i) \/ deferResponse(i)

\* Goroutines run, requests end (5 seconds, or the HTTP client's 30), and
\* handlers return after some calls.
Fairness ==
  \A i \in Interactions :
    /\ WF_vars(Dispatching(i)) /\ WF_vars(Responding(i))
    /\ SF_vars(HandlerReturns(i)) /\ WF_vars(Finishing(i))
    /\ WF_vars(TimerFires(i) \/ TimerStops(i)) /\ WF_vars(deferResponse(i))

Spec == Init /\ [][Next]_vars
FairSpec == Spec /\ Fairness

-----------------------------------------------------------------------------
(* Properties.                                                             *)

Kinds == {"nothing", "deferral", "answer", "fallback", "refusal"}

TypeOK ==
  /\ \A c \in commands : validateCommand(c)
  /\ phase \in [Interactions ->
       {"none", "dispatch", "refuse", "handler", "finish", "finishing", "ended"}]
  /\ response \in [Interactions -> {"initial", "deferred", "replied"}]
  /\ timer \in [Interactions -> {"off", "armed", "fired"}]
  /\ slots \in 0..commandConcurrency /\ faults \in 0..MaxFaults
  /\ shown \in [Interactions -> [kind : Kinds, private : BOOLEAN]]
  /\ late \subseteq Interactions /\ faulty \subseteq Interactions

\* A Reply that was reported as sent stays what Discord shows: no deferral and
\* no fallback that was on its way takes its place (commands.go:217-296).
ReportedReplyStays ==
  \A i \in Interactions : reported[i] # None => shown[i].kind = "answer"

\* An interaction the client is done with has an answer, a fallback or a
\* refusal, never nothing and never an eternal "thinking", unless a request
\* failed or Discord's window was missed (docs/discord.md:200-206).
EndedIsAnswered ==
  \A i \in Interactions :
    phase[i] = "ended" /\ i \notin late \cup faulty =>
      shown[i].kind \in {"answer", "fallback", "refusal"}

\* What a handler sends as private is not shown to others, whatever deferral
\* it meets, and what it sends as public is not hidden (docs/discord.md:203).
VisibilityKept ==
  [][\A i \in Interactions :
       shown'[i].kind = "answer" /\ shown[i].kind # "answer" =>
         shown'[i].private = request[i].private]_vars

\* Every interaction that arrives ends, and a bot that is busy does not stay so:
\* handlers that fail, race the deferral or were cancelled give their slot back
\* (commands.go:460-509).
EveryInteractionEnds ==
  /\ \A i \in Interactions : phase[i] = "dispatch" ~> phase[i] = "ended"
  /\ slots = commandConcurrency ~> slots < commandConcurrency
=============================================================================
