----------------------------- MODULE Lifecycle -----------------------------
(***************************************************************************)
(* lifecycle.Run (core/lifecycle/lifecycle.go): it runs services, waits    *)
(* for the first that stops or for its parent context, shuts all of them   *)
(* down under a deadline and joins their errors.                           *)
(*                                                                         *)
(* An error is what errors.Is can tell of it: "nil", "canceled" and        *)
(* "deadline" (of a context), or "failure".  Go's select takes any case    *)
(* that is ready.                                                          *)
(***************************************************************************)
EXTENDS Naturals, Sequences, FiniteSets

CONSTANTS
  Services,
  Servers,   \* made by HTTPServer
  Silent     \* with a nil Shutdown

ASSUME LifecycleAssumption ==
  /\ IsFiniteSet(Services)
  /\ Servers \subseteq Services /\ Silent \subseteq Services \ Servers

VARIABLES
  at,          \* "start", "refused", "wait", "finish" or "returned"
  parent,      \* "alive", or its Err(): "canceled" or "deadline"
  timer,       \* the deadline of shutdownContext has passed
  run, shut,   \* per service, of the two goroutines: "none", "running", or the error
  busy,        \* the servers with a request in progress that was not hijacked
  runResults, shutdownResults, remaining, shutdownRemaining,
  errors       \* what Run joins: <<"run" or "shutdown", service>>, and "timeout"

results == <<runResults, shutdownResults, remaining, shutdownRemaining>>
runVars == <<at, parent, timer, run, shut, busy, results, errors>>

RunInit ==
  /\ at = "start" /\ parent = "alive" /\ timer = FALSE
  /\ run = [s \in Services |-> "none"] /\ shut = [s \in Services |-> "none"]
  /\ busy = {}
  /\ runResults = <<>> /\ shutdownResults = <<>>
  /\ remaining = 0 /\ shutdownRemaining = 0
  /\ errors = {}

Errors == {"nil", "canceled", "deadline", "failure"}

\* The run context ends with the parent, and with the first result.
cancelled == parent # "alive" \/ at \in {"finish", "returned"}

-----------------------------------------------------------------------------
(* The services.                                                           *)

\* A server's Run returns what ListenAndServe does, and nil for ErrServerClosed,
\* as soon as its Shutdown has begun; it does not look at the context.
Result(s) ==
  IF s \in Servers
  THEN {"failure"} \cup {e \in {"nil"} : shut[s] # "none"}
  ELSE {"nil", "failure", "deadline"} \cup {e \in {"canceled"} : cancelled}

RunReturns(s) ==
  /\ run[s] = "running"
  /\ \E e \in Result(s) :
       /\ run' = [run EXCEPT ![s] = e]
       /\ runResults' = Append(runResults, [index |-> s, err |-> e])
  /\ UNCHANGED <<at, parent, timer, shut, busy, shutdownResults, remaining, shutdownRemaining, errors>>

Request(s) ==
  /\ s \in Servers \ busy /\ run[s] # "none" /\ shut[s] \in {"none", "running"}
  /\ busy' = busy \cup {s}
  /\ UNCHANGED <<at, parent, timer, run, shut, results, errors>>

RequestEnds(s) ==
  /\ s \in busy /\ busy' = busy \ {s}
  /\ UNCHANGED <<at, parent, timer, run, shut, results, errors>>

\* server.Shutdown waits for the requests until the deadline; server.Close then cuts
\* their connections and does not wait for their handlers.
ShutdownReturns(s) ==
  /\ shut[s] = "running"
  /\ \E e \in Errors :
       /\ e = "deadline" => timer
       /\ s \in Servers => e = "deadline" \/ (e \in {"nil", "failure"} /\ s \notin busy)
       /\ shut' = [shut EXCEPT ![s] = e]
       /\ shutdownResults' = Append(shutdownResults, [index |-> s, err |-> e])
  /\ UNCHANGED <<at, parent, timer, run, busy, runResults, remaining, shutdownRemaining, errors>>

Done ==
  /\ parent = "alive" /\ parent' \in {"canceled", "deadline"}
  /\ UNCHANGED <<at, timer, run, shut, busy, results, errors>>

Timer ==
  /\ at \in {"finish", "returned"} /\ ~timer /\ timer' = TRUE
  /\ UNCHANGED <<at, parent, run, shut, busy, results, errors>>

-----------------------------------------------------------------------------
(* Run.                                                                    *)

\* A service without a name or Run, two with the same name, no service at all,
\* no parent or no timeout.
Refuse ==
  /\ at = "start" /\ at' = "refused"
  /\ UNCHANGED <<parent, timer, run, shut, busy, results, errors>>

Start ==
  /\ at = "start" /\ at' = "wait"
  /\ run' = [s \in Services |-> "running"]
  /\ remaining' = Cardinality(Services)
  /\ UNCHANGED <<parent, timer, shut, busy, runResults, shutdownResults, shutdownRemaining, errors>>

expectedStop(err) == err \in {"nil", "canceled"} \/ err = parent

TakeRunResult ==
  /\ runResults # <<>> /\ runResults' = Tail(runResults)
  /\ remaining' = remaining - 1
  /\ LET result == Head(runResults) IN
     errors' = IF expectedStop(result.err) THEN errors
               ELSE errors \cup {<<"run", result.index>>}

\* Every Shutdown is called, also of the services that have stopped.
BeginShutdown ==
  /\ at' = "finish"
  /\ shut' = [s \in Services |-> IF s \in Silent THEN "none" ELSE "running"]
  /\ shutdownRemaining' = Cardinality(Services \ Silent)
  /\ UNCHANGED <<parent, timer, run, busy, shutdownResults>>

FirstStop == at = "wait" /\ TakeRunResult /\ BeginShutdown

ParentStop ==
  /\ at = "wait" /\ parent # "alive" /\ BeginShutdown
  /\ UNCHANGED <<runResults, remaining, errors>>

CollectRun ==
  /\ at = "finish" /\ TakeRunResult
  /\ UNCHANGED <<at, parent, timer, run, shut, busy, shutdownResults, shutdownRemaining>>

CollectShutdown ==
  /\ at = "finish" /\ shutdownResults # <<>>
  /\ shutdownResults' = Tail(shutdownResults)
  /\ shutdownRemaining' = shutdownRemaining - 1
  /\ LET result == Head(shutdownResults) IN
     errors' = IF result.err = "nil" THEN errors
               ELSE errors \cup {<<"shutdown", result.index>>}
  /\ UNCHANGED <<at, parent, timer, run, shut, busy, runResults, remaining>>

\* FAULT: the deadline is left to the Shutdown functions.
TimedOutByService ==
  /\ at = "finish" /\ timer /\ remaining = 0
  /\ errors' = errors \cup {<<"timeout">>} /\ at' = "returned"
  /\ UNCHANGED <<parent, timer, run, shut, busy, results>>

\* Results that are there already may be left in their channels.
TimedOut ==
  /\ at = "finish" /\ timer /\ remaining + shutdownRemaining > 0
  /\ errors' = errors \cup {<<"timeout">>} /\ at' = "returned"
  /\ UNCHANGED <<parent, timer, run, shut, busy, results>>

\* FAULT: the Shutdown functions are not waited for.
ReturnStopped ==
  /\ at = "finish" /\ remaining = 0 /\ at' = "returned"
  /\ UNCHANGED <<parent, timer, run, shut, busy, results, errors>>

ReturnJoined ==
  /\ at = "finish" /\ remaining = 0 /\ shutdownRemaining = 0 /\ at' = "returned"
  /\ UNCHANGED <<parent, timer, run, shut, busy, results, errors>>

Run ==
  Start \/ FirstStop \/ ParentStop \/ CollectRun \/ CollectShutdown \/ TimedOut \/ ReturnJoined

RunNext ==
  \/ Run \/ Refuse \/ Done \/ Timer
  \/ \E s \in Services :
       RunReturns(s) \/ Request(s) \/ RequestEnds(s) \/ ShutdownReturns(s)

RunSpec == RunInit /\ [][RunNext]_runVars

\* Run is scheduled and its timer fires.  The services need not do anything.
FairRunSpec == RunSpec /\ WF_runVars(Run) /\ WF_runVars(Timer)

-----------------------------------------------------------------------------
(* Properties.                                                             *)

RunTypeOK ==
  /\ at \in {"start", "refused", "wait", "finish", "returned"}
  /\ parent \in {"alive", "canceled", "deadline"} /\ timer \in BOOLEAN
  /\ run \in [Services -> {"none", "running"} \cup Errors]
  /\ shut \in [Services -> {"none", "running"} \cup Errors]
  /\ busy \subseteq Servers
  /\ remaining \in 0..Cardinality(Services)
  /\ shutdownRemaining \in 0..Cardinality(Services)

\* Unless Run reports a timeout, it returns when every service has stopped and every
\* Shutdown has returned, and it reports every Shutdown that failed and every service
\* that stopped for a reason that is not a context's.  A request that is in progress
\* then belongs to a server whose Shutdown it reports: a return without an error has
\* left no request behind (lifecycle.go:81-113, 144-149).
ReturnTellsAll ==
  at = "returned" /\ <<"timeout">> \notin errors =>
    /\ \A s \in busy : <<"shutdown", s>> \in errors
    /\ \A s \in Services :
         /\ run[s] \in Errors /\ (s \notin Silent => shut[s] \in Errors)
         /\ run[s] = "failure" => <<"run", s>> \in errors
         /\ shut[s] \notin {"none", "nil"} => <<"shutdown", s>> \in errors

\* Once a service has stopped or the parent has ended, Run returns, whatever the
\* other services and the Shutdown functions do (lifecycle.go:62-77, 98-111).
RunEnds ==
  (at # "refused" /\ (parent # "alive" \/ runResults # <<>>)) ~> (at \in {"returned", "refused"})
=============================================================================
