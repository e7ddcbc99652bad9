---------------------------- MODULE DiscordLimits ----------------------------
(***************************************************************************)
(* The REST rate limiter of the Discord client (channels/discord/limits.go)*)
(* and the request loop around it (rest.go, requestWithAuth).              *)
(*                                                                         *)
(* A bucket object is named by the route that created it: a route creates  *)
(* one at most.  Ids stands for an X-RateLimit-Bucket value together with  *)
(* the route's major part, the key of limiter.buckets.  A critical section *)
(* of limiter.mu is one action.  Discord answers as it likes.  A deadline  *)
(* is the time left until it: Tick brings all of them nearer.              *)
(***************************************************************************)
EXTENDS Integers, FiniteSets

CONSTANTS
  Requests, Routes, Ids,
  Nil,         \* the nil bucket, or a missing X-RateLimit-Bucket
  Durations,    \* values of X-RateLimit-Reset-After and retry_after
  MaxRetries    \* bound: 429 answers to one request

ASSUME LimitsAssumption ==
  /\ Nil \notin Routes \cup Ids
  /\ Durations \subseteq Nat \ {0}
  /\ MaxRetries \in Nat

VARIABLES
  pc, route, held, seen, answer, retryAt, retries,  \* per request
  routes,       \* limiter.routes: route -> bucket
  buckets,      \* limiter.buckets: id -> bucket
  permit,       \* permit channels: bucket -> taken
  reset,        \* bucket -> reset
  global,       \* limiter.global
  learned,      \* history: route -> the id Discord last named for it
  exhausted,    \* history: route -> latest deadline of a remaining = 0 answer
  limitedUntil  \* history: route -> latest deadline of a 429 for the route

limiter == <<routes, buckets, permit, reset, global>>
announced == <<learned, exhausted, limitedUntil>>
locals == <<held, seen, answer, retryAt, retries>>
limiterVars == <<pc, route, locals, limiter, announced>>

-----------------------------------------------------------------------------

\* What one answer says: its bucket id, a Reset-After that comes with
\* remaining = 0 (0: it does not), and for a 429 its retry delay and scope.
Answers == [kind : {"ok"}, id : Ids \cup {Nil}, resetAfter : Durations \cup {0}]
      \cup [kind : {"limited"}, id : Ids \cup {Nil}, resetAfter : Durations \cup {0},
            retry : Durations, global : BOOLEAN]
      \cup [kind : {"invalid"}, id : {Nil}, resetAfter : {0}]
NoAnswer == [kind |-> "none"]
NoDeadlines == [reset |-> 0, global |-> 0]

Locations == {"lock", "global", "permit", "recheck", "limits", "sent",
              "observed", "retry", "done"}

LimiterInit ==
  /\ pc = [q \in Requests |-> "lock"]
  /\ route \in [Requests -> Routes]
  /\ held = [q \in Requests |-> Nil]
  /\ seen = [q \in Requests |-> NoDeadlines]
  /\ answer = [q \in Requests |-> NoAnswer]
  /\ retryAt = [q \in Requests |-> 0] /\ retries = [q \in Requests |-> 0]
  /\ routes = [r \in Routes |-> Nil] /\ buckets = [i \in Ids |-> Nil]
  /\ permit = [r \in Routes |-> FALSE] /\ reset = [r \in Routes |-> 0]
  /\ global = 0
  /\ learned = [r \in Routes |-> Nil]
  /\ exhausted = [r \in Routes |-> 0] /\ limitedUntil = [r \in Routes |-> 0]

Later(a, b) == IF a > b THEN a ELSE b
Goto(q, l) == pc' = [pc EXCEPT ![q] = l]

-----------------------------------------------------------------------------
(* rateLimiter.lock.                                                       *)

Lookup(q) ==
  LET bucket == IF routes[route[q]] = Nil THEN route[q] ELSE routes[route[q]]
  IN  /\ pc[q] = "lock" /\ Goto(q, "global")
      /\ routes' = [routes EXCEPT ![route[q]] = bucket]
      /\ held' = [held EXCEPT ![q] = bucket]
      /\ seen' = [seen EXCEPT ![q].global = global]
      /\ UNCHANGED <<route, answer, retryAt, retries, buckets, permit,
                     reset, global, announced>>

WaitGlobal(q) ==
  /\ pc[q] = "global" /\ seen[q].global = 0
  /\ Goto(q, "permit")
  /\ UNCHANGED <<route, locals, limiter, announced>>

TakePermit(q) ==
  /\ pc[q] = "permit" /\ ~permit[held[q]]
  /\ permit' = [permit EXCEPT ![held[q]] = TRUE]
  /\ Goto(q, "recheck")
  /\ UNCHANGED <<route, locals, routes, buckets, reset, global, announced>>

Release(q) == permit' = [permit EXCEPT ![held[q]] = FALSE]

Unlock(q) ==
  /\ Release(q)
  /\ held' = [held EXCEPT ![q] = Nil]

\* The call returns and its locals end with it.
Return(q) ==
  /\ Goto(q, "done")
  /\ held' = [held EXCEPT ![q] = Nil] /\ seen' = [seen EXCEPT ![q] = NoDeadlines]
  /\ answer' = [answer EXCEPT ![q] = NoAnswer]
  /\ retryAt' = [retryAt EXCEPT ![q] = 0] /\ retries' = [retries EXCEPT ![q] = 0]

\* FAULT: a permit is good although the route has moved to another bucket.
RecheckTrusts(q) ==
  /\ pc[q] = "recheck" /\ Goto(q, "limits")
  /\ seen' = [seen EXCEPT ![q] = [reset |-> reset[held[q]], global |-> global]]
  /\ UNCHANGED <<route, held, answer, retryAt, retries, limiter, announced>>

\* With the permit: the route may have been given another bucket meanwhile;
\* the deadlines are read here and waited for later.
Recheck(q) ==
  /\ pc[q] = "recheck"
  /\ \/ /\ routes[route[q]] # held[q]
        /\ Unlock(q) /\ Goto(q, "lock") /\ UNCHANGED seen
     \/ /\ routes[route[q]] = held[q]
        /\ seen' = [seen EXCEPT ![q] = [reset |-> reset[held[q]], global |-> global]]
        /\ Goto(q, "limits") /\ UNCHANGED <<permit, held>>
  /\ UNCHANGED <<route, answer, retryAt, retries, routes, buckets,
                 reset, global, announced>>

\* Both waits are over and the request goes out.
Send(q) ==
  /\ pc[q] = "limits" /\ seen[q].reset = 0 /\ seen[q].global = 0
  /\ Goto(q, "sent")
  /\ UNCHANGED <<route, locals, limiter, announced>>

\* The context ends in one of the waits of lock, or of the retry.
GiveUp(q) ==
  /\ \/ pc[q] \in {"global", "permit", "retry"} /\ UNCHANGED permit
     \/ pc[q] = "limits" /\ Release(q)
  /\ Return(q)
  /\ UNCHANGED <<route, routes, buckets, reset, global, announced>>

-----------------------------------------------------------------------------
(* requestWithAuth: send, observe, limited.                                *)

\* FAULT: a failed send returns without giving the permit back.
SendFailsKeepsPermit(q) ==
  /\ pc[q] = "sent" /\ Return(q)
  /\ UNCHANGED <<route, limiter, announced>>

SendFails(q) ==
  /\ pc[q] = "sent" /\ Release(q) /\ Return(q)
  /\ UNCHANGED <<route, routes, buckets, reset, global, announced>>

\* The bucket an answer to q belongs to, by its id.
Target(q, a) ==
  IF a.id = Nil \/ buckets[a.id] = Nil THEN held[q] ELSE buckets[a.id]

\* FAULT: only the bucket the request went through learns the deadline.
ExhaustHeld(q, a) ==
  reset' = [reset EXCEPT ![held[q]] = Later(@, a.resetAfter)]

\* FAULT: the announced time is added to the deadline that is there.
ExhaustAdds(q, a) ==
  reset' = [b \in Routes |-> IF b \in {held[q], Target(q, a)}
                               THEN reset[b] + a.resetAfter ELSE reset[b]]

Exhaust(q, a) ==
  reset' = [b \in Routes |-> IF b \in {held[q], Target(q, a)}
                               THEN Later(reset[b], a.resetAfter) ELSE reset[b]]

\* FAULT: the first route to name an id is moved to the bucket of a later one.
RegisterAlways(q, a) ==
  /\ buckets' = IF a.id = Nil THEN buckets ELSE [buckets EXCEPT ![a.id] = held[q]]
  /\ UNCHANGED routes

\* The first bucket to be given an id keeps it, and later routes move to it.
Register(q, a) ==
  \/ /\ a.id = Nil
     /\ UNCHANGED <<buckets, routes>>
  \/ /\ a.id # Nil /\ buckets[a.id] = Nil
     /\ buckets' = [buckets EXCEPT ![a.id] = held[q]]
     /\ UNCHANGED routes
  \/ /\ a.id # Nil /\ buckets[a.id] # Nil
     /\ routes' = [routes EXCEPT ![route[q]] = buckets[a.id]]
     /\ UNCHANGED buckets

\* What is left of an answer once its headers have been noted.
Handled(a) == [a EXCEPT !.id = Nil, !.resetAfter = 0]

observe(q) ==
  /\ pc[q] = "sent"
  /\ \E a \in Answers :
       /\ a.kind = "limited" => retries[q] < MaxRetries
       /\ answer' = [answer EXCEPT ![q] = Handled(a)]
       /\ Register(q, a)
       /\ learned' = IF a.id = Nil THEN learned ELSE [learned EXCEPT ![route[q]] = a.id]
       /\ IF a.resetAfter = 0 THEN UNCHANGED <<reset, exhausted>>
          ELSE /\ Exhaust(q, a)
               /\ exhausted' = [exhausted EXCEPT ![route[q]] = Later(@, a.resetAfter)]
  /\ Goto(q, "observed")
  /\ UNCHANGED <<route, held, seen, retryAt, retries, permit, global, limitedUntil>>

\* Success, an API error, or a 429 that makes no sense.
Finish(q) ==
  /\ pc[q] = "observed" /\ answer[q].kind # "limited"
  /\ Release(q) /\ Return(q)
  /\ UNCHANGED <<route, routes, buckets, reset, global, announced>>

\* A 429: the limit is noted on the bucket the request went through, then the
\* request waits for its turn to try again.
limited(q) ==
  /\ pc[q] = "observed" /\ answer[q].kind = "limited"
  /\ LET deadline == answer[q].retry
     IN  /\ \/ /\ answer[q].global
               /\ global' = Later(global, deadline)
               /\ UNCHANGED <<reset, limitedUntil>>
            \/ /\ ~answer[q].global
               /\ reset' = [reset EXCEPT ![held[q]] = Later(@, deadline)]
               /\ limitedUntil' = [limitedUntil EXCEPT ![route[q]] = Later(@, deadline)]
               /\ UNCHANGED global
         /\ retryAt' = [retryAt EXCEPT ![q] = deadline]
  /\ retries' = [retries EXCEPT ![q] = @ + 1]
  /\ answer' = [answer EXCEPT ![q] = NoAnswer]
  /\ Unlock(q) /\ Goto(q, "retry")
  /\ UNCHANGED <<route, seen, routes, buckets, learned, exhausted>>

Retry(q) ==
  /\ pc[q] = "retry" /\ retryAt[q] = 0
  /\ Goto(q, "lock")
  /\ UNCHANGED <<route, locals, limiter, announced>>

Nearer(n) == IF n = 0 THEN 0 ELSE n - 1

Tick ==
  /\ seen' = [q \in Requests |-> [reset |-> Nearer(seen[q].reset),
                                  global |-> Nearer(seen[q].global)]]
  /\ retryAt' = [q \in Requests |-> Nearer(retryAt[q])]
  /\ reset' = [b \in Routes |-> Nearer(reset[b])]
  /\ global' = Nearer(global)
  /\ exhausted' = [r \in Routes |-> Nearer(exhausted[r])]
  /\ limitedUntil' = [r \in Routes |-> Nearer(limitedUntil[r])]
  /\ UNCHANGED <<pc, route, held, answer, retries, routes, buckets, permit, learned>>

Step(q) ==
  \/ Lookup(q) \/ WaitGlobal(q) \/ TakePermit(q) \/ Recheck(q) \/ Send(q)
  \/ SendFails(q) \/ observe(q) \/ Finish(q) \/ limited(q) \/ Retry(q) \/ GiveUp(q)

LimiterNext == Tick \/ \E q \in Requests : Step(q)

LimiterSpec == LimiterInit /\ [][LimiterNext]_limiterVars

\* The scheduler runs what can run, time passes, and Discord answers or the
\* connection fails; no context need end.
LimiterFairness ==
  /\ WF_limiterVars(Tick)
  /\ \A q \in Requests :
       /\ WF_limiterVars(Lookup(q) \/ WaitGlobal(q) \/ Recheck(q) \/ Send(q) \/ SendFails(q)
                         \/ observe(q) \/ Finish(q) \/ limited(q) \/ Retry(q))
       /\ WF_limiterVars(TakePermit(q))

LimiterFairSpec == LimiterSpec /\ LimiterFairness

-----------------------------------------------------------------------------
(* Properties.                                                             *)

Deadline == {0} \cup UNION {0..d : d \in Durations}

LimiterTypeOK ==
  /\ pc \in [Requests -> Locations]
  /\ route \in [Requests -> Routes]
  /\ held \in [Requests -> Routes \cup {Nil}]
  /\ seen \in [Requests -> [reset : Deadline, global : Deadline]]
  /\ answer \in [Requests -> {Handled(a) : a \in Answers} \cup {NoAnswer}]
  /\ retryAt \in [Requests -> Deadline] /\ retries \in [Requests -> 0..MaxRetries]
  /\ routes \in [Routes -> Routes \cup {Nil}]
  /\ buckets \in [Ids -> Routes \cup {Nil}]
  /\ permit \in [Routes -> BOOLEAN] /\ reset \in [Routes -> Deadline]
  /\ global \in Deadline
  /\ learned \in [Routes -> Ids \cup {Nil}]
  /\ exhausted \in [Routes -> Deadline] /\ limitedUntil \in [Routes -> Deadline]

Holding(q) == pc[q] \in {"recheck", "limits", "sent", "observed"}

\* Every permit that is taken is held by exactly one request, and every way
\* out of a request gives it back: a lost permit stops its routes for good.
PermitsBalanced ==
  \A b \in Routes :
    Cardinality({q \in Requests : Holding(q) /\ held[q] = b}) = IF permit[b] THEN 1 ELSE 0

\* Two requests of one route are never at Discord at the same time, also not
\* while the route moves from one bucket to another (lock lines 62-73).
OneInFlightPerRoute ==
  \A p, q \in Requests :
    pc[p] = "sent" /\ pc[q] = "sent" /\ route[p] = route[q] => p = q

\* Routes that Discord counts together go through one bucket: what a route
\* last learned of its id is where it looks for its bucket (lines 89-104).
SharedBucketsConverge ==
  \A r \in Routes : learned[r] # Nil => routes[r] = buckets[learned[r]]

\* A request does not go out before the reset of an exhausted bucket that
\* Discord announced to its own route, through whichever bucket object the
\* route went then and goes now (lines 66-79 and 105-117).
ExhaustedRouteWaits ==
  [][\A q \in Requests :
       pc[q] = "limits" /\ pc'[q] = "sent" => exhausted[route[q]] = 0]_limiterVars

\* A request does not go out while a 429 forbids its route (docs/discord.md:
\* 214, the client learns per-route limits from headers and 429 bodies).
LimitedRouteWaits ==
  [][\A q \in Requests :
       pc[q] = "limits" /\ pc'[q] = "sent" => limitedUntil[route[q]] = 0]_limiterVars

\* Every request comes to an end if Discord limits it only so often.
EveryRequestEnds == \A q \in Requests : <>(pc[q] = "done")
=============================================================================
