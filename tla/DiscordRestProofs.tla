------------------------- MODULE DiscordRestProofs -------------------------
(***************************************************************************)
(* What goes over the REST API of Discord: the limiter that every request  *)
(* passes, for any requests, routes, bucket ids, deadlines and number of   *)
(* retries (DiscordLimits), and the responses to interactions, for any     *)
(* interactions, commands, slots and failing requests                      *)
(* (DiscordInteractions).                                                  *)
(***************************************************************************)
EXTENDS DiscordLimits, DiscordInteractions, FiniteSetTheorems, TLAPS

-----------------------------------------------------------------------------
(* The inductive invariant of the limiter.                                 *)

\* A request on its way knows its bucket, and what holds a permit holds it
\* alone.
Permits ==
  /\ \A q \in Requests :
       pc[q] \in {"global", "permit"} \/ Holding(q) => held[q] \in Routes
  /\ \A q \in Requests : Holding(q) => permit[held[q]]
  /\ \A b \in Routes : permit[b] => \E q \in Requests : Holding(q) /\ held[q] = b
  /\ \A p, q \in Requests : Holding(p) /\ Holding(q) /\ held[p] = held[q] => p = q

\* From the second look at the map to the answer, the route keeps the bucket
\* whose permit the request holds.
Routed == \A q \in Requests : pc[q] \in {"limits", "sent"} => routes[route[q]] = held[q]

\* What a route has learned is where it goes.
Learned == \A r \in Routes :
  learned[r] # Nil => routes[r] # Nil /\ routes[r] = buckets[learned[r]]

\* A deadline announced to a route stands on its bucket, and a request that
\* waits with the permit waits for it.
Waited ==
  /\ \A r \in Routes : exhausted[r] # 0 => routes[r] # Nil /\ exhausted[r] <= reset[routes[r]]
  /\ \A q \in Requests : pc[q] = "limits" => exhausted[route[q]] <= seen[q].reset
  /\ \A q \in Requests : pc[q] = "sent" => exhausted[route[q]] = 0

\* A 429 that is noted leaves a retry.
Retriable == \A q \in Requests :
  pc[q] = "observed" /\ answer[q].kind = "limited" => retries[q] < MaxRetries

LimiterInv == LimiterTypeOK /\ Permits /\ Routed /\ Learned /\ Waited /\ Retriable

USE LimitsAssumption
-----------------------------------------------------------------------------
(* Deadlines.                                                              *)

LEMMA Deadlines ==
  /\ Deadline \subseteq Nat /\ 0 \in Deadline /\ Durations \subseteq Deadline
  /\ \A m, n \in Deadline : Later(m, n) \in Deadline /\ Later(m, n) >= m /\ Later(m, n) >= n
  /\ \A n \in Deadline : Nearer(n) \in Deadline /\ (n # 0 => Nearer(n) = n - 1)
  /\ Nearer(0) = 0
<1>1. Deadline \subseteq Nat /\ 0 \in Deadline /\ Durations \subseteq Deadline
  BY DEF Deadline
<1>2. \A m, n \in Deadline : Later(m, n) \in Deadline /\ Later(m, n) >= m /\ Later(m, n) >= n
  BY <1>1 DEF Later
<1>3. \A n \in Deadline : Nearer(n) \in Deadline
  BY <1>1 DEF Nearer, Deadline
<1> QED BY <1>1, <1>2, <1>3 DEF Nearer

\* Less time on both sides keeps their order.
LEMMA NearerOrder == \A m, n \in Deadline : m <= n => Nearer(m) <= Nearer(n)
BY Deadlines DEF Nearer

Answered == {Handled(a) : a \in Answers}

LEMMA Retries == \A x \in Answered : x.kind = "limited" => x.retry \in Deadline
<1> SUFFICES ASSUME NEW a \in Answers, Handled(a).kind = "limited"
             PROVE  Handled(a).retry \in Deadline
  BY DEF Answered
<1>1. CASE a \in [kind : {"limited"}, id : Ids \cup {Nil}, resetAfter : Durations \cup {0},
                  retry : Durations, global : BOOLEAN]
  BY <1>1, Deadlines DEF Handled
<1>2. CASE a.kind # "limited"
  BY <1>2 DEF Handled, Answers
<1> QED BY <1>1, <1>2 DEF Answers

LEMMA Resets == \A a \in Answers : a.resetAfter \in Deadline /\ a.id \in Ids \cup {Nil}
BY Deadlines DEF Answers

-----------------------------------------------------------------------------
LEMMA LimiterInitial == LimiterInit => LimiterInv
BY Deadlines DEF LimiterInit, LimiterInv, LimiterTypeOK, Permits, Routed, Learned, Waited,
  Retriable, Holding, Locations, NoDeadlines

\* The call returns or retries and its permit is free again.
LEMMA Releases ==
  ASSUME LimiterInv, NEW q \in Requests,
         pc' = [pc EXCEPT ![q] = pc'[q]], held' = [held EXCEPT ![q] = Nil],
         ~Holding(q)', pc'[q] \notin {"global", "permit"},
         \/ Holding(q) /\ permit' = [permit EXCEPT ![held[q]] = FALSE]
         \/ ~Holding(q) /\ permit' = permit
  PROVE  Permits'
<1>1. \A p \in Requests \ {q} : pc'[p] = pc[p] /\ held'[p] = held[p] /\ (Holding(p)' <=> Holding(p))
  BY DEF LimiterInv, LimiterTypeOK, Holding
<1>2. \A p \in Requests : pc'[p] \in {"global", "permit"} \/ Holding(p)' => held'[p] \in Routes
  BY <1>1 DEF LimiterInv, Permits
<1>3. \A p \in Requests : Holding(p)' => p # q /\ Holding(p) /\ held'[p] = held[p]
  BY <1>1
<1>4. \A b \in Routes : permit'[b] <=> permit[b] /\ ~(Holding(q) /\ held[q] = b)
  BY DEF LimiterInv, LimiterTypeOK, Permits
<1>5. \A p \in Requests : Holding(p)' => permit'[held'[p]]
  BY <1>1, <1>2, <1>3, <1>4 DEF LimiterInv, Permits
<1>6. \A b \in Routes : permit'[b] => \E p \in Requests : Holding(p)' /\ held'[p] = b
  BY <1>1, <1>4 DEF LimiterInv, Permits
<1>7. \A p, r \in Requests : Holding(p)' /\ Holding(r)' /\ held'[p] = held'[r] => p = r
  BY <1>3 DEF LimiterInv, Permits
<1> QED BY <1>2, <1>5, <1>6, <1>7 DEF Permits

\* A step that moves one request to a place without a permit, and leaves the
\* limiter alone but for the permit it held.
LEMMA Leaving ==
  ASSUME LimiterInv, NEW q \in Requests, NEW l \in {"lock", "retry", "done"},
         Goto(q, l), held' = [held EXCEPT ![q] = Nil],
         UNCHANGED <<routes, buckets, learned, exhausted, route>>,
         \A b \in Routes : reset'[b] >= reset[b],
         \A p \in Requests \ {q} : seen'[p] = seen[p] /\ answer'[p] = answer[p]
                                   /\ retries'[p] = retries[p],
         \/ Holding(q) /\ permit' = [permit EXCEPT ![held[q]] = FALSE]
         \/ ~Holding(q) /\ permit' = permit,
         reset' \in [Routes -> Deadline]
  PROVE  Permits' /\ Routed' /\ Learned' /\ Waited' /\ Retriable'
<1>1. pc'[q] = l /\ \A p \in Requests \ {q} : pc'[p] = pc[p] /\ held'[p] = held[p]
  BY DEF Goto, LimiterInv, LimiterTypeOK
<1>2. Permits'
  BY <1>1, Releases DEF Goto, Holding
<1>3. Routed' /\ Learned' /\ Retriable'
  BY <1>1 DEF LimiterInv, Routed, Learned, Retriable
<1>4. Waited'
  <2>1. ASSUME NEW r \in Routes, exhausted[r] # 0
        PROVE  routes[r] # Nil /\ exhausted[r] <= reset'[routes[r]]
    <3>1. routes[r] \in Routes /\ exhausted[r] <= reset[routes[r]]
      BY <2>1 DEF LimiterInv, LimiterTypeOK, Waited
    <3>2. exhausted[r] \in Nat /\ reset[routes[r]] \in Nat /\ reset'[routes[r]] \in Nat
      BY <3>1, Deadlines DEF LimiterInv, LimiterTypeOK
    <3> QED BY <3>1, <3>2
  <2>2. \A p \in Requests : pc'[p] = "limits" => exhausted'[route'[p]] <= seen'[p].reset
    BY <1>1 DEF LimiterInv, Waited
  <2>3. \A p \in Requests : pc'[p] = "sent" => exhausted'[route'[p]] = 0
    BY <1>1 DEF LimiterInv, Waited
  <2> QED BY <2>1, <2>2, <2>3 DEF Waited
<1> QED BY <1>2, <1>3, <1>4

LEMMA SameResets == ASSUME LimiterTypeOK, reset' = reset
                    PROVE reset' \in [Routes -> Deadline] /\ \A b \in Routes : reset'[b] >= reset[b]
<1>1. reset \in [Routes -> Deadline]
  BY DEF LimiterTypeOK
<1>2. \A b \in Routes : reset[b] \in Nat
  BY <1>1, Deadlines
<1> QED BY <1>1, <1>2

\* The ways back to the caller.
LEMMA Returns ==
  ASSUME LimiterInv, NEW q \in Requests, GiveUp(q) \/ SendFails(q) \/ Finish(q)
  PROVE  LimiterInv'
<1>1. /\ Goto(q, "done") /\ held' = [held EXCEPT ![q] = Nil]
      /\ UNCHANGED <<routes, buckets, learned, exhausted, route>> /\ reset' = reset
      /\ \/ Holding(q) /\ permit' = [permit EXCEPT ![held[q]] = FALSE]
         \/ ~Holding(q) /\ permit' = permit
  BY DEF GiveUp, SendFails, Finish, Return, Release, Holding, announced
<1>2. \A p \in Requests \ {q} : seen'[p] = seen[p] /\ answer'[p] = answer[p]
                                   /\ retries'[p] = retries[p]
  BY DEF GiveUp, SendFails, Finish, Return, LimiterInv, LimiterTypeOK
<1>3. LimiterTypeOK'
  <2>1. /\ seen' = [seen EXCEPT ![q] = NoDeadlines] /\ answer' = [answer EXCEPT ![q] = NoAnswer]
        /\ retryAt' = [retryAt EXCEPT ![q] = 0] /\ retries' = [retries EXCEPT ![q] = 0]
        /\ UNCHANGED <<global, limitedUntil>>
    BY DEF GiveUp, SendFails, Finish, Return, announced
  <2>2. NoDeadlines \in [reset : Deadline, global : Deadline]
    BY Deadlines DEF NoDeadlines
  <2>3. permit' \in [Routes -> BOOLEAN]
    BY <1>1 DEF LimiterInv, LimiterTypeOK
  <2> QED BY <1>1, <2>1, <2>2, <2>3, Deadlines DEF LimiterInv, LimiterTypeOK, Goto, Locations
<1>4. LimiterTypeOK
  BY DEF LimiterInv
<1> QED BY <1>1, <1>2, <1>3, <1>4, Leaving, SameResets DEF LimiterInv

-----------------------------------------------------------------------------
(* The steps of lock.                                                      *)

LEMMA LookupKeeps == ASSUME LimiterInv, NEW q \in Requests, Lookup(q) PROVE LimiterInv'
<1> DEFINE b == IF routes[route[q]] = Nil THEN route[q] ELSE routes[route[q]]
<1>1. /\ b \in Routes /\ pc' = [pc EXCEPT ![q] = "global"]
      /\ routes' = [routes EXCEPT ![route[q]] = b] /\ held' = [held EXCEPT ![q] = b]
      /\ seen' = [seen EXCEPT ![q].global = global] /\ pc[q] = "lock"
      /\ UNCHANGED <<route, answer, retryAt, retries, buckets, permit, reset, global>>
      /\ UNCHANGED announced
  BY DEF Lookup, Goto, LimiterInv, LimiterTypeOK
<1>2. LimiterTypeOK'
  BY <1>1 DEF LimiterInv, LimiterTypeOK, Locations, announced
<1>3. \A p \in Requests \ {q} : pc'[p] = pc[p] /\ held'[p] = held[p] /\ seen'[p] = seen[p]
  BY <1>1 DEF LimiterInv, LimiterTypeOK
<1>4. pc'[q] = "global" /\ held'[q] = b
  BY <1>1 DEF LimiterInv, LimiterTypeOK
<1>5. Permits'
  <2>1. \A p \in Requests : Holding(p)' <=> Holding(p)
    BY <1>1, <1>3, <1>4 DEF Holding
  <2>2. \A p \in Requests : Holding(p) => held'[p] = held[p]
    BY <1>1, <1>3 DEF Holding
  <2> QED BY <1>1, <1>3, <1>4, <2>1, <2>2 DEF LimiterInv, Permits
<1>6. \A r \in Routes : routes[r] # Nil => routes'[r] = routes[r]
  BY <1>1 DEF LimiterInv, LimiterTypeOK
<1>7. Routed'
  BY <1>1, <1>3, <1>4, <1>6 DEF LimiterInv, LimiterTypeOK, Permits, Routed, Holding
<1>8. Learned'
  BY <1>1, <1>6 DEF LimiterInv, Learned, announced
<1>9. Waited'
  BY <1>1, <1>3, <1>4, <1>6 DEF LimiterInv, Waited, announced
<1>10. Retriable'
  BY <1>1, <1>3, <1>4 DEF LimiterInv, Retriable
<1> QED BY <1>2, <1>5, <1>7, <1>8, <1>9, <1>10 DEF LimiterInv

LEMMA PermitKeeps == ASSUME LimiterInv, NEW q \in Requests, TakePermit(q) PROVE LimiterInv'
<1>1. /\ pc[q] = "permit" /\ ~permit[held[q]] /\ held[q] \in Routes
      /\ pc' = [pc EXCEPT ![q] = "recheck"] /\ permit' = [permit EXCEPT ![held[q]] = TRUE]
      /\ UNCHANGED <<route, held, seen, answer, retryAt, retries, routes, buckets, reset, global>>
      /\ UNCHANGED announced
  BY DEF TakePermit, Goto, LimiterInv, Permits, locals
<1>2. LimiterTypeOK'
  BY <1>1 DEF LimiterInv, LimiterTypeOK, Locations, announced
<1>3. pc'[q] = "recheck" /\ \A p \in Requests \ {q} : pc'[p] = pc[p]
  BY <1>1 DEF LimiterInv, LimiterTypeOK
<1>4. \A p \in Requests : Holding(p)' <=> Holding(p) \/ p = q
  BY <1>1, <1>3 DEF Holding
<1>5. \A p \in Requests : Holding(p) => held[p] # held[q]
  BY <1>1 DEF LimiterInv, Permits
<1>6. \A b \in Routes : permit'[b] <=> permit[b] \/ b = held[q]
  BY <1>1 DEF LimiterInv, LimiterTypeOK
<1>7. Permits'
  <2>1. \A p \in Requests : Holding(p)' => held'[p] \in Routes /\ permit'[held'[p]]
    BY <1>1, <1>4, <1>6 DEF LimiterInv, Permits
  <2>2. \A b \in Routes : permit'[b] => \E p \in Requests : Holding(p)' /\ held'[p] = b
    BY <1>1, <1>4, <1>6 DEF LimiterInv, Permits
  <2>3. \A p, r \in Requests : Holding(p)' /\ Holding(r)' /\ held'[p] = held'[r] => p = r
    BY <1>1, <1>4, <1>5 DEF LimiterInv, Permits
  <2>4. \A p \in Requests : pc'[p] \in {"global", "permit"} => held'[p] \in Routes
    BY <1>1, <1>3 DEF LimiterInv, Permits
  <2> QED BY <2>1, <2>2, <2>3, <2>4 DEF Permits
<1>8. Routed' /\ Learned' /\ Waited' /\ Retriable'
  BY <1>1, <1>3 DEF LimiterInv, Routed, Learned, Waited, Retriable, announced
<1> QED BY <1>2, <1>7, <1>8 DEF LimiterInv

\* The second look at the map: the permit goes back, or the request keeps it
\* and reads the deadlines.
LEMMA RecheckKeeps == ASSUME LimiterInv, NEW q \in Requests, Recheck(q) PROVE LimiterInv'
<1>1. /\ pc[q] = "recheck" /\ Holding(q) /\ held[q] \in Routes
      /\ UNCHANGED <<route, answer, retryAt, retries, routes, buckets, reset, global>>
      /\ UNCHANGED announced
  BY DEF Recheck, Holding, LimiterInv, Permits
<1>2. CASE routes[route[q]] # held[q]
  <2>1. /\ Goto(q, "lock") /\ held' = [held EXCEPT ![q] = Nil]
        /\ permit' = [permit EXCEPT ![held[q]] = FALSE] /\ seen' = seen
    BY <1>2 DEF Recheck, Unlock, Release
  <2>2. LimiterTypeOK'
    BY <1>1, <2>1 DEF LimiterInv, LimiterTypeOK, Goto, Locations, announced
  <2>3. LimiterTypeOK /\ learned' = learned /\ exhausted' = exhausted
    BY <1>1 DEF LimiterInv, announced
  <2> QED BY <1>1, <2>1, <2>2, <2>3, Leaving, SameResets DEF LimiterInv
<1>3. CASE routes[route[q]] = held[q]
  <2>1. /\ pc' = [pc EXCEPT ![q] = "limits"] /\ held' = held /\ permit' = permit
        /\ seen' = [seen EXCEPT ![q] = [reset |-> reset[held[q]], global |-> global]]
    BY <1>3 DEF Recheck, Goto
  <2>2. LimiterTypeOK'
    <3>1. [reset |-> reset[held[q]], global |-> global] \in [reset : Deadline, global : Deadline]
      BY <1>1 DEF LimiterInv, LimiterTypeOK
    <3> QED BY <1>1, <2>1, <3>1 DEF LimiterInv, LimiterTypeOK, Locations, announced
  <2>3. /\ pc'[q] = "limits" /\ seen'[q].reset = reset[held[q]]
        /\ \A p \in Requests \ {q} : pc'[p] = pc[p] /\ seen'[p] = seen[p]
    BY <2>1 DEF LimiterInv, LimiterTypeOK
  <2>4. \A p \in Requests : Holding(p)' <=> Holding(p)
    BY <1>1, <2>3 DEF Holding
  <2>5. Permits'
    BY <1>1, <2>1, <2>3, <2>4 DEF LimiterInv, Permits
  <2>6. Routed' /\ Learned' /\ Retriable'
    BY <1>1, <1>3, <2>1, <2>3 DEF LimiterInv, Routed, Learned, Retriable, announced
  <2>7. exhausted[route[q]] <= reset[held[q]]
    <3>1. exhausted[route[q]] \in Nat /\ reset[held[q]] \in Nat /\ route[q] \in Routes
      BY <1>1, Deadlines DEF LimiterInv, LimiterTypeOK
    <3> QED BY <3>1, <1>3 DEF LimiterInv, Waited
  <2>8. Waited'
    <3>1. exhausted' = exhausted
      BY <1>1 DEF announced
    <3> QED BY <1>1, <2>1, <2>3, <2>7, <3>1 DEF LimiterInv, Waited
  <2> QED BY <2>2, <2>5, <2>6, <2>8 DEF LimiterInv
<1> QED BY <1>2, <1>3

\* A step of q that only moves it on, its permit included if it has one.
LEMMA Moves ==
  ASSUME LimiterInv, NEW q \in Requests, NEW l \in Locations, Goto(q, l),
         UNCHANGED <<route, locals, limiter, announced>>,
         \/ pc[q] = "global" /\ l = "permit"
         \/ pc[q] = "limits" /\ l = "sent" /\ seen[q].reset = 0
         \/ pc[q] = "retry" /\ l = "lock"
  PROVE  LimiterInv'
<1>1. pc'[q] = l /\ \A p \in Requests \ {q} : pc'[p] = pc[p]
  BY DEF Goto, LimiterInv, LimiterTypeOK
<1>2. LimiterTypeOK'
  BY DEF LimiterInv, LimiterTypeOK, Goto, locals, limiter, announced
<1>3. \A p \in Requests : Holding(p)' <=> Holding(p)
  BY <1>1 DEF Holding
<1>4. Permits'
  BY <1>1, <1>3 DEF LimiterInv, Permits, locals, limiter
<1>5. Routed' /\ Learned' /\ Retriable'
  BY <1>1 DEF LimiterInv, Routed, Learned, Retriable, locals, limiter, announced
<1>6. l = "sent" => exhausted[route[q]] = 0
  <2>1. exhausted[route[q]] \in Nat
    BY Deadlines DEF LimiterInv, LimiterTypeOK
  <2>2. l = "sent" => exhausted[route[q]] <= 0
    BY DEF LimiterInv, Waited
  <2> QED BY <2>1, <2>2
<1>7. Waited'
  BY <1>1, <1>6 DEF LimiterInv, Waited, locals, limiter, announced
<1> QED BY <1>2, <1>4, <1>5, <1>7 DEF LimiterInv

LEMMA MovesOn ==
  ASSUME LimiterInv, NEW q \in Requests, WaitGlobal(q) \/ Send(q) \/ Retry(q)
  PROVE  LimiterInv'
BY Moves DEF WaitGlobal, Send, Retry, Locations

-----------------------------------------------------------------------------
(* The answers.                                                            *)

LEMMA LimitedKeeps == ASSUME LimiterInv, NEW q \in Requests, limited(q) PROVE LimiterInv'
<1> DEFINE deadline == answer[q].retry
<1>1. /\ pc[q] = "observed" /\ answer[q].kind = "limited" /\ Holding(q) /\ held[q] \in Routes
      /\ Goto(q, "retry") /\ held' = [held EXCEPT ![q] = Nil]
      /\ permit' = [permit EXCEPT ![held[q]] = FALSE]
      /\ retryAt' = [retryAt EXCEPT ![q] = deadline]
      /\ retries' = [retries EXCEPT ![q] = @ + 1]
      /\ answer' = [answer EXCEPT ![q] = NoAnswer]
      /\ UNCHANGED <<route, seen, routes, buckets, learned, exhausted>>
  BY DEF limited, Unlock, Release, Holding, LimiterInv, Permits
<1>2. deadline \in Deadline
  <2>1. answer[q] \in Answered \cup {NoAnswer}
    BY DEF LimiterInv, LimiterTypeOK, Answered
  <2> QED BY <1>1, <2>1, Retries DEF NoAnswer
<1>3. /\ reset' \in [Routes -> Deadline] /\ global' \in Deadline
      /\ limitedUntil' \in [Routes -> Deadline]
      /\ \A b \in Routes : reset'[b] >= reset[b]
  <2>1. /\ reset \in [Routes -> Deadline] /\ global \in Deadline
        /\ limitedUntil \in [Routes -> Deadline] /\ route[q] \in Routes
    BY DEF LimiterInv, LimiterTypeOK
  <2>2. \A b \in Routes : reset[b] \in Nat
    BY <2>1, Deadlines
  <2>3. CASE answer[q].global
    <3>1. reset' = reset /\ limitedUntil' = limitedUntil /\ global' = Later(global, deadline)
      BY <2>3 DEF limited
    <3>2. Later(global, deadline) \in Deadline
      BY <1>2, <2>1, Deadlines
    <3> QED BY <2>1, <2>2, <3>1, <3>2
  <2>4. CASE ~answer[q].global
    <3>1. /\ reset' = [reset EXCEPT ![held[q]] = Later(@, deadline)] /\ global' = global
          /\ limitedUntil' = [limitedUntil EXCEPT ![route[q]] = Later(@, deadline)]
      BY <2>4 DEF limited
    <3>2. /\ Later(reset[held[q]], deadline) \in Deadline
          /\ Later(reset[held[q]], deadline) >= reset[held[q]]
          /\ Later(limitedUntil[route[q]], deadline) \in Deadline
      BY <1>1, <1>2, <2>1, Deadlines
    <3> QED BY <1>1, <2>1, <2>2, <3>1, <3>2
  <2> QED BY <2>3, <2>4
<1>4. LimiterTypeOK'
  <2>1. retries[q] < MaxRetries /\ retries[q] \in Nat
    BY <1>1 DEF LimiterInv, Retriable, LimiterTypeOK
  <2>2. retries' \in [Requests -> 0..MaxRetries]
    BY <1>1, <2>1 DEF LimiterInv, LimiterTypeOK
  <2>3. retryAt' \in [Requests -> Deadline]
    BY <1>1, <1>2 DEF LimiterInv, LimiterTypeOK
  <2>4. /\ permit' \in [Routes -> BOOLEAN] /\ held' \in [Requests -> Routes \cup {Nil}]
        /\ pc' \in [Requests -> Locations]
    BY <1>1 DEF LimiterInv, LimiterTypeOK, Goto, Locations
  <2>5. answer' \in [Requests -> {Handled(a) : a \in Answers} \cup {NoAnswer}]
    BY <1>1 DEF LimiterInv, LimiterTypeOK
  <2> QED BY <1>1, <1>3, <2>2, <2>3, <2>4, <2>5 DEF LimiterInv, LimiterTypeOK
<1>5. \A p \in Requests \ {q} : seen'[p] = seen[p] /\ answer'[p] = answer[p]
                                   /\ retries'[p] = retries[p]
  BY <1>1 DEF LimiterInv, LimiterTypeOK
<1> QED BY <1>1, <1>3, <1>4, <1>5, Leaving DEF LimiterInv

\* What an answer moves: the route may get another bucket, and deadlines only
\* grow on the buckets it names.
LEMMA Registered ==
  ASSUME LimiterInv, NEW q \in Requests, pc[q] = "sent", NEW a \in Answers, Register(q, a)
  PROVE  /\ held[q] \in Routes /\ Target(q, a) \in Routes
         /\ routes' \in [Routes -> Routes \cup {Nil}] /\ buckets' \in [Ids -> Routes \cup {Nil}]
         /\ routes'[route[q]] \in {held[q], Target(q, a)}
         /\ \A r \in Routes \ {route[q]} : routes'[r] = routes[r]
         /\ \A i \in Ids : buckets[i] # Nil => buckets'[i] = buckets[i]
         /\ a.id # Nil => routes'[route[q]] = buckets'[a.id]
<1>1. held[q] \in Routes /\ routes[route[q]] = held[q] /\ route[q] \in Routes
  BY DEF LimiterInv, Permits, Routed, Holding, LimiterTypeOK
<1>2. a.id # Nil => a.id \in Ids
  BY Resets
<1>3. Target(q, a) \in Routes
  BY <1>1, <1>2 DEF Target, LimiterInv, LimiterTypeOK
<1>4. CASE a.id = Nil
  BY <1>1, <1>3, <1>4 DEF Register, Target, LimiterInv, LimiterTypeOK
<1>5. CASE a.id # Nil /\ buckets[a.id] = Nil
  BY <1>1, <1>2, <1>3, <1>5 DEF Register, Target, LimiterInv, LimiterTypeOK
<1>6. CASE a.id # Nil /\ buckets[a.id] # Nil
  <2>1. /\ routes' = [routes EXCEPT ![route[q]] = buckets[a.id]] /\ buckets' = buckets
        /\ Target(q, a) = buckets[a.id]
    BY <1>6 DEF Register, Target
  <2> QED BY <1>1, <1>2, <1>3, <1>6, <2>1 DEF LimiterInv, LimiterTypeOK
<1> QED BY <1>4, <1>5, <1>6

\* The deadline of an exhausted bucket is noted where the route goes next.
LEMMA Exhausted ==
  ASSUME LimiterInv, NEW q \in Requests, NEW a \in Answers, held[q] \in Routes,
         Target(q, a) \in Routes, Exhaust(q, a)
  PROVE  /\ reset' \in [Routes -> Deadline]
         /\ \A b \in Routes : reset'[b] >= reset[b]
         /\ \A b \in {held[q], Target(q, a)} : reset'[b] >= a.resetAfter
<1>1. reset \in [Routes -> Deadline] /\ a.resetAfter \in Deadline
  BY Resets DEF LimiterInv, LimiterTypeOK
<1>2. \A b \in Routes : reset[b] \in Nat
  BY <1>1, Deadlines
<1>3. \A b \in Routes : reset'[b] = IF b \in {held[q], Target(q, a)}
                                      THEN Later(reset[b], a.resetAfter) ELSE reset[b]
  BY DEF Exhaust
<1>4. \A b \in Routes : /\ Later(reset[b], a.resetAfter) \in Deadline
                        /\ Later(reset[b], a.resetAfter) >= reset[b]
                        /\ Later(reset[b], a.resetAfter) >= a.resetAfter
  BY <1>1, Deadlines
<1>5. \A b \in Routes : reset'[b] \in Deadline /\ reset'[b] >= reset[b]
  BY <1>1, <1>2, <1>3, <1>4
<1>6. \A b \in {held[q], Target(q, a)} : reset'[b] >= a.resetAfter
  BY <1>3, <1>4
<1> QED BY <1>5, <1>6 DEF Exhaust

LEMMA ObserveKeeps == ASSUME LimiterInv, NEW q \in Requests, observe(q) PROVE LimiterInv'
<1>1. PICK a \in Answers :
        /\ a.kind = "limited" => retries[q] < MaxRetries
        /\ answer' = [answer EXCEPT ![q] = Handled(a)]
        /\ Register(q, a)
        /\ learned' = IF a.id = Nil THEN learned ELSE [learned EXCEPT ![route[q]] = a.id]
        /\ IF a.resetAfter = 0 THEN UNCHANGED <<reset, exhausted>>
           ELSE /\ Exhaust(q, a)
                /\ exhausted' = [exhausted EXCEPT ![route[q]] = Later(@, a.resetAfter)]
  BY DEF observe
<1>2. /\ pc[q] = "sent" /\ pc' = [pc EXCEPT ![q] = "observed"]
      /\ UNCHANGED <<route, held, seen, retryAt, retries, permit, global, limitedUntil>>
  BY DEF observe, Goto
<1>3. /\ held[q] \in Routes /\ Target(q, a) \in Routes
      /\ routes' \in [Routes -> Routes \cup {Nil}] /\ buckets' \in [Ids -> Routes \cup {Nil}]
      /\ routes'[route[q]] \in {held[q], Target(q, a)}
      /\ \A r \in Routes \ {route[q]} : routes'[r] = routes[r]
      /\ \A i \in Ids : buckets[i] # Nil => buckets'[i] = buckets[i]
      /\ a.id # Nil => routes'[route[q]] = buckets'[a.id]
  BY <1>1, <1>2, Registered
<1>4. /\ a.resetAfter \in Deadline /\ a.resetAfter \in Nat /\ a.id \in Ids \cup {Nil}
      /\ route[q] \in Routes /\ exhausted[route[q]] = 0
      /\ \A b \in Routes : reset[b] \in Nat
  BY <1>2, Deadlines, Resets DEF LimiterInv, LimiterTypeOK, Waited
<1>5. /\ reset' \in [Routes -> Deadline] /\ exhausted' \in [Routes -> Deadline]
      /\ \A b \in Routes : reset'[b] >= reset[b] /\ reset'[b] \in Nat
      /\ exhausted'[route[q]] <= reset'[routes'[route[q]]]
      /\ \A r \in Routes \ {route[q]} : exhausted'[r] = exhausted[r]
  <2>1. CASE a.resetAfter = 0
    BY <1>1, <1>3, <1>4, <2>1, Deadlines DEF LimiterInv, LimiterTypeOK
  <2>2. CASE a.resetAfter # 0
    <3>1. /\ Exhaust(q, a) /\ exhausted' = [exhausted EXCEPT ![route[q]] = Later(@, a.resetAfter)]
      BY <1>1, <2>2
    <3>2. Later(0, a.resetAfter) = a.resetAfter
      BY <1>4 DEF Later
    <3>3. /\ reset' \in [Routes -> Deadline]
          /\ \A b \in Routes : reset'[b] >= reset[b]
          /\ \A b \in {held[q], Target(q, a)} : reset'[b] >= a.resetAfter
      BY <1>3, <3>1, Exhausted
    <3>4. /\ exhausted' \in [Routes -> Deadline] /\ exhausted'[route[q]] = a.resetAfter
          /\ \A r \in Routes \ {route[q]} : exhausted'[r] = exhausted[r]
      BY <1>4, <3>1, <3>2 DEF LimiterInv, LimiterTypeOK
    <3>5. \A b \in Routes : reset'[b] \in Nat
      BY <3>3, Deadlines
    <3> QED BY <1>3, <3>3, <3>4, <3>5
  <2> QED BY <2>1, <2>2
<1>6. LimiterTypeOK'
  <2>1. learned' \in [Routes -> Ids \cup {Nil}] /\ pc' \in [Requests -> Locations]
    BY <1>1, <1>2, <1>4 DEF LimiterInv, LimiterTypeOK, Locations
  <2>2. answer' \in [Requests -> {Handled(x) : x \in Answers} \cup {NoAnswer}]
    BY <1>1 DEF LimiterInv, LimiterTypeOK
  <2> QED BY <1>2, <1>3, <1>5, <2>1, <2>2 DEF LimiterInv, LimiterTypeOK
<1>7. pc'[q] = "observed" /\ \A p \in Requests \ {q} : pc'[p] = pc[p]
  BY <1>2 DEF LimiterInv, LimiterTypeOK
<1>8. \A p \in Requests : Holding(p)' <=> Holding(p)
  BY <1>2, <1>7 DEF Holding
<1>9. Permits'
  BY <1>2, <1>7, <1>8 DEF LimiterInv, Permits
<1>10. \A p \in Requests : pc'[p] \in {"limits", "sent"} => p # q /\ route[p] # route[q]
  BY <1>2, <1>7 DEF LimiterInv, Permits, Routed, Holding
<1>11. Routed'
  BY <1>2, <1>3, <1>7, <1>10 DEF LimiterInv, Routed, LimiterTypeOK
<1>12. Learned'
  <2>1. ASSUME NEW r \in Routes \ {route[q]}, learned'[r] # Nil
        PROVE  routes'[r] # Nil /\ routes'[r] = buckets'[learned'[r]]
    <3>1. learned'[r] = learned[r]
      BY <1>1, <1>4 DEF LimiterInv, LimiterTypeOK
    <3>2. learned[r] \in Ids /\ routes[r] # Nil /\ routes[r] = buckets[learned[r]]
      BY <2>1, <3>1 DEF LimiterInv, LimiterTypeOK, Learned
    <3> QED BY <1>3, <3>1, <3>2
  <2>2. learned'[route[q]] # Nil =>
          routes'[route[q]] # Nil /\ routes'[route[q]] = buckets'[learned'[route[q]]]
    <3>1. CASE a.id # Nil
      BY <1>1, <1>3, <1>4, <3>1 DEF LimiterInv, LimiterTypeOK
    <3>2. CASE a.id = Nil
      <4>1. routes' = routes /\ buckets' = buckets /\ learned' = learned
        BY <1>1, <3>2 DEF Register
      <4> QED BY <1>4, <4>1 DEF LimiterInv, Learned
    <3> QED BY <3>1, <3>2
  <2> QED BY <1>4, <2>1, <2>2 DEF Learned
<1>13. Waited'
  <2>1. ASSUME NEW r \in Routes \ {route[q]}, exhausted'[r] # 0
        PROVE  routes'[r] # Nil /\ exhausted'[r] <= reset'[routes'[r]]
    <3>1. /\ exhausted'[r] = exhausted[r] /\ routes'[r] = routes[r]
          /\ routes[r] \in Routes /\ exhausted[r] <= reset[routes[r]]
      BY <1>3, <1>5, <2>1 DEF LimiterInv, LimiterTypeOK, Waited
    <3>2. exhausted[r] \in Nat
      BY Deadlines DEF LimiterInv, LimiterTypeOK
    <3> QED BY <1>4, <1>5, <3>1, <3>2
  <2>2. routes'[route[q]] # Nil /\ exhausted'[route[q]] <= reset'[routes'[route[q]]]
    BY <1>3, <1>5
  <2>3. \A p \in Requests : pc'[p] \in {"limits", "sent"} =>
          pc'[p] = pc[p] /\ exhausted'[route'[p]] = exhausted[route[p]] /\ seen'[p] = seen[p]
    BY <1>2, <1>5, <1>7, <1>10 DEF LimiterInv, LimiterTypeOK
  <2> QED BY <2>1, <2>2, <2>3 DEF LimiterInv, Waited
<1>14. Retriable'
  <2>1. answer'[q] = Handled(a) /\ \A p \in Requests \ {q} : answer'[p] = answer[p]
    BY <1>1 DEF LimiterInv, LimiterTypeOK
  <2>2. Handled(a).kind = a.kind
    BY DEF Handled, Answers
  <2> QED BY <1>1, <1>2, <1>7, <2>1, <2>2 DEF LimiterInv, Retriable
<1> QED BY <1>6, <1>9, <1>11, <1>12, <1>13, <1>14 DEF LimiterInv

\* Time brings all deadlines nearer alike.
LEMMA TickKeeps == ASSUME LimiterInv, Tick PROVE LimiterInv'
<1>1. /\ UNCHANGED <<pc, route, held, answer, retries, routes, buckets, permit, learned>>
      /\ \A q \in Requests : seen'[q].reset = Nearer(seen[q].reset)
      /\ \A r \in Routes : reset'[r] = Nearer(reset[r]) /\ exhausted'[r] = Nearer(exhausted[r])
  BY DEF Tick
<1>2. LimiterTypeOK'
  <2>1. /\ seen' \in [Requests -> [reset : Deadline, global : Deadline]]
        /\ retryAt' \in [Requests -> Deadline]
    BY Deadlines DEF Tick, LimiterInv, LimiterTypeOK
  <2>2. /\ reset' \in [Routes -> Deadline] /\ global' \in Deadline
        /\ exhausted' \in [Routes -> Deadline] /\ limitedUntil' \in [Routes -> Deadline]
    BY Deadlines DEF Tick, LimiterInv, LimiterTypeOK
  <2> QED BY <1>1, <2>1, <2>2 DEF LimiterInv, LimiterTypeOK
<1>3. Permits' /\ Routed' /\ Learned' /\ Retriable'
  BY <1>1 DEF LimiterInv, Permits, Routed, Learned, Retriable, Holding
<1>4. Waited'
  <2>1. ASSUME NEW r \in Routes, exhausted'[r] # 0
        PROVE  routes'[r] # Nil /\ exhausted'[r] <= reset'[routes'[r]]
    <3>1. exhausted[r] \in Deadline /\ exhausted[r] # 0
      BY <1>1, <2>1, Deadlines DEF LimiterInv, LimiterTypeOK
    <3>2. routes[r] \in Routes /\ reset[routes[r]] \in Deadline /\ exhausted[r] <= reset[routes[r]]
      BY <3>1 DEF LimiterInv, LimiterTypeOK, Waited
    <3> QED BY <1>1, <3>1, <3>2, NearerOrder
  <2>2. ASSUME NEW q \in Requests, pc'[q] = "limits"
        PROVE  exhausted'[route'[q]] <= seen'[q].reset
    <3>1. exhausted[route[q]] <= seen[q].reset /\ route[q] \in Routes
      BY <1>1, <2>2 DEF LimiterInv, LimiterTypeOK, Waited
    <3>2. exhausted[route[q]] \in Deadline /\ seen[q].reset \in Deadline
      BY <3>1 DEF LimiterInv, LimiterTypeOK
    <3> QED BY <1>1, <3>1, <3>2, NearerOrder
  <2>3. ASSUME NEW q \in Requests, pc'[q] = "sent"
        PROVE  exhausted'[route'[q]] = 0
    <3>1. exhausted[route[q]] = 0 /\ route[q] \in Routes
      BY <1>1, <2>3 DEF LimiterInv, LimiterTypeOK, Waited
    <3> QED BY <1>1, <3>1, Deadlines
  <2> QED BY <2>1, <2>2, <2>3 DEF Waited
<1> QED BY <1>2, <1>3, <1>4 DEF LimiterInv

LEMMA LimiterInductive == LimiterInv /\ [LimiterNext]_limiterVars => LimiterInv'
<1> SUFFICES ASSUME LimiterInv, [LimiterNext]_limiterVars PROVE LimiterInv'
  OBVIOUS
<1>1. CASE Tick
  BY <1>1, TickKeeps
<1>2. ASSUME NEW q \in Requests, Step(q) PROVE LimiterInv'
  BY <1>2, LookupKeeps, MovesOn, PermitKeeps, RecheckKeeps, Returns, ObserveKeeps, LimitedKeeps
     DEF Step
<1>3. CASE UNCHANGED limiterVars
  BY <1>3 DEF limiterVars, locals, limiter, announced, LimiterInv, LimiterTypeOK, Permits,
    Routed, Learned, Waited, Retriable, Holding
<1> QED BY <1>1, <1>2, <1>3 DEF LimiterNext

-----------------------------------------------------------------------------
(* Theorems.                                                               *)

\* The inductive invariant of the limiter.
THEOREM LimiterInvariance == LimiterSpec => []LimiterInv
<1>1. LimiterInit => LimiterInv
  BY LimiterInitial
<1>2. LimiterInv /\ [LimiterNext]_limiterVars => LimiterInv'
  BY LimiterInductive
<1> QED BY <1>1, <1>2, PTL DEF LimiterSpec

\* Every variable keeps its type; retries stay within MaxRetries.
THEOREM TypeCorrect == LimiterSpec => []LimiterTypeOK
BY LimiterInvariance, PTL DEF LimiterInv

\* Each bucket's permit is held by exactly one request or free, for any number
\* of requests and routes (limits.go:21-32 and every return of its callers).
THEOREM PermitsAreBalanced == LimiterSpec => []PermitsBalanced
<1>1. LimiterInv => PermitsBalanced
  <2> SUFFICES ASSUME LimiterInv, NEW b \in Routes
               PROVE  Cardinality({q \in Requests : Holding(q) /\ held[q] = b})
                        = IF permit[b] THEN 1 ELSE 0
    BY DEF PermitsBalanced
  <2>1. CASE permit[b]
    <3>1. PICK q \in Requests : Holding(q) /\ held[q] = b
      BY <2>1 DEF LimiterInv, Permits
    <3>2. {p \in Requests : Holding(p) /\ held[p] = b} = {q}
      BY <3>1 DEF LimiterInv, Permits
    <3> QED BY <2>1, <3>2, FS_Singleton
  <2>2. CASE ~permit[b]
    <3>1. {p \in Requests : Holding(p) /\ held[p] = b} = {}
      BY <2>2 DEF LimiterInv, Permits
    <3> QED BY <2>2, <3>1, FS_EmptySet
  <2> QED BY <2>1, <2>2
<1> QED BY <1>1, LimiterInvariance, PTL

\* Two requests of one route are never at Discord at the same time, while any
\* number of routes moves between any number of buckets (limits.go:62-73).
THEOREM OneAtATime == LimiterSpec => []OneInFlightPerRoute
<1>1. LimiterInv => OneInFlightPerRoute
  BY DEF LimiterInv, Permits, Routed, Holding, OneInFlightPerRoute
<1> QED BY <1>1, LimiterInvariance, PTL

\* A route goes through the bucket of the id it last learned (limits.go:89-104).
THEOREM BucketsConverge == LimiterSpec => []SharedBucketsConverge
<1>1. LimiterInv => SharedBucketsConverge
  BY DEF LimiterInv, Learned, SharedBucketsConverge
<1> QED BY <1>1, LimiterInvariance, PTL

\* No request goes out before the reset Discord announced to its route
\* (limits.go:66-79 and 105-117).
THEOREM ExhaustedRoutesWait == LimiterSpec => ExhaustedRouteWaits
<1>1. LimiterInv /\ [LimiterNext]_limiterVars =>
        \A q \in Requests : pc[q] = "limits" /\ pc'[q] = "sent" => exhausted[route[q]] = 0
  <2> SUFFICES ASSUME LimiterInv, [LimiterNext]_limiterVars, NEW q \in Requests,
                      pc[q] = "limits", pc'[q] = "sent"
               PROVE  exhausted[route[q]] = 0
    OBVIOUS
  <2>1. exhausted[route[q]] \in Nat /\ exhausted[route[q]] <= seen[q].reset
    BY Deadlines DEF LimiterInv, LimiterTypeOK, Waited
  <2>2. seen[q].reset = 0
    <3>1. ~Tick /\ ~UNCHANGED limiterVars
      BY DEF Tick, limiterVars
    <3>2. PICK p \in Requests : Step(p)
      BY <3>1 DEF LimiterNext
    <3>3. p = q
      BY <3>2 DEF Step, Lookup, WaitGlobal, TakePermit, Recheck, Send, SendFails, observe,
        Finish, limited, Retry, GiveUp, Goto, Return, LimiterInv, LimiterTypeOK
    <3> QED BY <3>2, <3>3 DEF Step, Lookup, WaitGlobal, TakePermit, Recheck, Send, SendFails,
          observe, Finish, limited, Retry, GiveUp, Goto, Return, LimiterInv, LimiterTypeOK
  <2> QED BY <2>1, <2>2
<1> QED BY <1>1, LimiterInvariance, PTL DEF LimiterSpec, ExhaustedRouteWaits

HIDE LimitsAssumption

-----------------------------------------------------------------------------
(* The inductive invariant of the responses.                               *)

Holders == {"deferral", "answer", "fallback", "refusal"}
Responses == [by : Holders, op : {"callback", "patch"}, kind : Holders, private : BOOLEAN]
RequestsMade == {NoRequest, [by |-> "followup", op |-> "followup"]} \cup Responses

Typed ==
  /\ phase \in [Interactions ->
       {"none", "dispatch", "refuse", "handler", "finish", "finishing", "ended"}]
  /\ command = [i \in Interactions |-> command[i]]
  /\ response \in [Interactions -> {"initial", "deferred", "replied"}]
  /\ timer \in [Interactions -> {"off", "armed", "fired"}]
  /\ request \in [Interactions -> RequestsMade]
  /\ shown \in [Interactions ->
       [kind : {"nothing", "deferral", "answer", "fallback", "refusal"}, private : BOOLEAN]]
  /\ reported \in [Interactions -> {None, "answer"}]

\* What a request sends is its holder's, and its holder is where it has to be.
Requesting(i) ==
  /\ request[i].by = "fallback" <=> phase[i] = "finishing"
  /\ request[i].by = "refusal" <=> phase[i] = "refuse"
  /\ request[i] \in Responses =>
       /\ request[i].kind = request[i].by /\ response[i] # "replied"
       /\ request[i].by = "deferral" => response[i] = "initial"
       /\ request[i].op = "patch" <=> response[i] = "deferred"

\* Nothing is under way for an interaction before its handler is called.
Quiet(i) ==
  /\ phase[i] \in {"none", "dispatch"} => request[i] = NoRequest
  /\ phase[i] \in {"none", "dispatch", "refuse"} => response[i] = "initial" /\ timer[i] = "off"
  /\ phase[i] # "none" => started

\* What was reported is shown, and the client knows it.
Told(i) == reported[i] # None => response[i] = "replied" /\ shown[i].kind = "answer"

\* A deferral is as visible as its command says, and so is what is edited into it.
Deferred(r) == r.by = "deferral" \/ (r.by = "answer" /\ r.op = "patch")
Visible(i) ==
  /\ response[i] = "deferred" => shown[i].private = ephemeral(i)
  /\ request[i] \in Responses /\ Deferred(request[i]) => request[i].private = ephemeral(i)

\* Slots that are taken are those of handlers that are not done.
Working == {i \in Interactions : phase[i] \in {"handler", "finish", "finishing"}}
Counted ==
  IsFiniteSet(Working) /\ slots = Cardinality(Working) /\ slots <= commandConcurrency

At(i) == Requesting(i) /\ Quiet(i) /\ Told(i) /\ Visible(i)

IInv == Typed /\ (\A i \in Interactions : At(i)) /\ Counted

USE DiscordInteractionsAssumption

-----------------------------------------------------------------------------
(* Lemmas.                                                                 *)

LEMMA RequestKinds ==
  /\ NoRequest \notin Responses /\ NoRequest.by = "nobody" /\ NoRequest \in RequestsMade
  /\ [by |-> "followup", op |-> "followup"] \notin Responses
  /\ [by |-> "followup", op |-> "followup"] \in RequestsMade
  /\ \A r \in RequestsMade : r.by \in Holders => r \in Responses
  /\ \A r \in RequestsMade : r \in Responses => r.by \in Holders
  /\ \A r \in RequestsMade :
       r = NoRequest \/ r \in Responses \/ (r.by = "followup" /\ r.op = "followup")
  /\ \A h \in Holders, private \in BOOLEAN :
       /\ Reply(h, private) \in Responses /\ Reply(h, private).by = h
       /\ Reply(h, private).kind = h /\ Reply(h, private).op = "callback"
       /\ Reply(h, private).private = private
       /\ [Reply(h, private) EXCEPT !.op = "patch"] \in Responses
       /\ [Reply(h, private) EXCEPT !.op = "patch"].by = h
       /\ [Reply(h, private) EXCEPT !.op = "patch"].kind = h
       /\ [Reply(h, private) EXCEPT !.op = "patch"].op = "patch"
       /\ [Reply(h, private) EXCEPT !.op = "patch"].private = private
BY DEF NoRequest, Responses, RequestsMade, Holders, Reply

LEMMA EphemeralIsBoolean == \A i : ephemeral(i) \in BOOLEAN
BY DEF ephemeral

\* What is left alone keeps its part of the invariant.
LEMMA Others ==
  ASSUME NEW j \in Interactions, At(j), UNCHANGED commands, started => started',
         phase'[j] = phase[j], command'[j] = command[j], response'[j] = response[j],
         timer'[j] = timer[j], request'[j] = request[j], shown'[j] = shown[j],
         reported'[j] = reported[j]
  PROVE  At(j)'
BY DEF At, Requesting, Quiet, Told, Visible, Deferred, ephemeral, registered

LEMMA SameWork ==
  ASSUME IInv, slots' = slots,
         \A i \in Interactions : phase'[i] \in {"handler", "finish", "finishing"}
                                 <=> phase[i] \in {"handler", "finish", "finishing"}
  PROVE  Counted'
<1>1. Working' = Working
  BY DEF Working
<1> QED BY <1>1 DEF IInv, Counted

LEMMA EndsWork ==
  ASSUME IInv, NEW i \in Interactions, phase[i] \in {"handler", "finish", "finishing"},
         phase' = [phase EXCEPT ![i] = "ended"], slots' = slots - 1
  PROVE  Counted'
<1>1. Working' = Working \ {i} /\ i \in Working
  BY DEF IInv, Typed, Working
<1>2. IsFiniteSet(Working') /\ Cardinality(Working') = Cardinality(Working) - 1
      /\ Cardinality(Working) \in Nat
  BY <1>1, FS_RemoveElement, FS_CardinalityType DEF IInv, Counted
<1> QED BY <1>2 DEF IInv, Counted

-----------------------------------------------------------------------------
(* The steps of one interaction.                                           *)

LEMMA RegistrationSteps ==
  ASSUME IInv, \/ \E c \in Candidates : Command(c)
               \/ Run \/ Cancel \/ syncCommands \/ SyncGet \/ SyncPut \/ SyncFails
               \/ UNCHANGED vars
  PROVE  IInv'
<1>1. UNCHANGED <<event, shown, reported>> /\ (started => started' /\ commands' = commands)
  BY DEF Command, Run, Cancel, syncCommands, SyncGet, SyncPut, SyncFails, vars, registration,
    history
<1>2. Typed' /\ Counted'
  BY <1>1 DEF IInv, Typed, Counted, Working, event
<1>3. ASSUME NEW i \in Interactions PROVE At(i)'
  <2>1. At(i)
    BY DEF IInv
  <2>2. CASE phase[i] = "none"
    <3>1. request[i] = NoRequest /\ response[i] = "initial"
      BY <2>1, <2>2 DEF At, Quiet
    <3> QED BY <1>1, <2>1, <2>2, <3>1, RequestKinds DEF event, At, Requesting, Quiet, Told, Visible
  <2>3. CASE phase[i] # "none"
    <3>1. started
      BY <2>1, <2>3 DEF At, Quiet
    <3> QED BY <1>1, <2>1, <3>1, Others DEF event
  <2> QED BY <2>2, <2>3
<1> QED BY <1>2, <1>3 DEF IInv

LEMMA OneStep ==
  ASSUME IInv, NEW i \in Interactions, UNCHANGED registration, Typed', At(i)', Counted',
         \A j \in Interactions \ {i} :
           /\ phase'[j] = phase[j] /\ command'[j] = command[j] /\ response'[j] = response[j]
           /\ timer'[j] = timer[j] /\ request'[j] = request[j] /\ shown'[j] = shown[j]
           /\ reported'[j] = reported[j]
  PROVE  IInv'
<1>1. \A j \in Interactions \ {i} : At(j)'
  BY Others DEF IInv, registration
<1> QED BY <1>1 DEF IInv

LEMMA DispatchSteps ==
  ASSUME IInv, NEW i \in Interactions, Interaction(i) \/ Dispatching(i)
  PROVE  IInv'
<1> USE DEF event, history, Denied, Unavailable, Busy, Refuse
<1>1. Typed /\ At(i) /\ Counted
  BY DEF IInv
<1>2. CASE Interaction(i)
  <2>1. Typed'
    BY <1>1, <1>2 DEF Interaction, Typed
  <2>2. At(i)'
    <3>1. request'[i] = NoRequest /\ response'[i] = "initial" /\ timer'[i] = "off"
          /\ phase'[i] = "dispatch" /\ started' /\ reported'[i] = reported[i] /\ shown' = shown
          /\ response[i] = "initial"
      BY <1>1, <1>2 DEF Interaction, Typed, At, Quiet, registration
    <3> QED BY <1>1, <3>1, RequestKinds DEF At, Requesting, Quiet, Told, Visible
  <2>3. Counted'
    <3>1. \A j \in Interactions : phase'[j] \in {"handler", "finish", "finishing"}
                                    <=> phase[j] \in {"handler", "finish", "finishing"}
      BY <1>1, <1>2 DEF Interaction, Typed
    <3> QED BY <1>2, <3>1, SameWork DEF Interaction
  <2> QED BY <1>1, <1>2, <2>1, <2>2, <2>3, OneStep DEF Interaction, Typed
<1>3. CASE Denied(i) \/ Unavailable(i) \/ Busy(i)
  <2>1. Reply("refusal", TRUE) \in Responses /\ Reply("refusal", TRUE).by = "refusal"
        /\ Reply("refusal", TRUE).kind = "refusal" /\ Reply("refusal", TRUE).op = "callback"
    BY RequestKinds DEF Holders
  <2>0. /\ phase' = [phase EXCEPT ![i] = "refuse"] /\ phase[i] = "dispatch"
        /\ request' = [request EXCEPT ![i] = Reply("refusal", TRUE)]
        /\ UNCHANGED <<registration, command, response, timer, slots, shown, reported>>
    BY <1>3
  <2>2. Typed'
    BY <1>1, <2>0, <2>1 DEF Typed, RequestsMade
  <2>3. At(i)'
    <3>1. request'[i] = Reply("refusal", TRUE) /\ response'[i] = "initial" /\ timer'[i] = "off"
          /\ phase'[i] = "refuse" /\ started' /\ reported'[i] = reported[i] /\ shown' = shown
          /\ response[i] = "initial"
      BY <1>1, <2>0 DEF Typed, At, Quiet, registration
    <3> QED BY <1>1, <2>1, <3>1 DEF At, Requesting, Quiet, Told, Visible, Deferred
  <2>4. Counted'
    <3>1. \A j \in Interactions : phase'[j] \in {"handler", "finish", "finishing"}
                                    <=> phase[j] \in {"handler", "finish", "finishing"}
      BY <1>1, <2>0 DEF Typed
    <3> QED BY <2>0, <3>1, SameWork
  <2> QED BY <1>1, <2>0, <2>2, <2>3, <2>4, OneStep DEF Typed
<1>4. CASE Accepted(i)
  <2>1. Typed'
    BY <1>1, <1>4 DEF Accepted, Typed
  <2>2. At(i)'
    <3>1. request'[i] = NoRequest /\ response'[i] = "initial" /\ timer'[i] = "armed"
          /\ phase'[i] = "handler" /\ started' /\ reported'[i] = reported[i] /\ shown' = shown
          /\ response[i] = "initial"
      BY <1>1, <1>4 DEF Accepted, Typed, At, Quiet, registration
    <3> QED BY <1>1, <3>1, RequestKinds DEF At, Requesting, Quiet, Told, Visible
  <2>3. Counted'
    <3>1. Working' = Working \cup {i} /\ i \notin Working
      BY <1>1, <1>4 DEF Accepted, Typed, Working
    <3>2. IsFiniteSet(Working') /\ Cardinality(Working') = Cardinality(Working) + 1
      BY <1>1, <3>1, FS_AddElement DEF Counted
    <3>3. slots' = slots + 1 /\ slots < commandConcurrency /\ slots \in Nat
      BY <1>1, <1>4, FS_CardinalityType DEF Accepted, Counted
    <3> QED BY <1>1, <3>2, <3>3 DEF Counted
  <2> QED BY <1>1, <1>4, <2>1, <2>2, <2>3, OneStep DEF Accepted, Typed
<1> QED BY <1>2, <1>3, <1>4 DEF Dispatching

\* The calls of the handler, the timer and the fallback: each sets at most a
\* request of its own, when there is none.
LEMMA CallSteps ==
  ASSUME IInv, NEW i \in Interactions,
         \/ \E private \in BOOLEAN : CallReply(i, private)
         \/ Followup(i) \/ finish(i) \/ deferResponse(i)
  PROVE  IInv'
<1> USE DEF event, history, Calling, Unlocked
<1>1. Typed /\ At(i) /\ Counted
  BY DEF IInv
<1>2. CASE \E private \in BOOLEAN : CallReply(i, private)
  <2>1. PICK private \in BOOLEAN : CallReply(i, private)
    BY <1>2
  <2> DEFINE r == IF response[i] = "deferred" THEN [Reply("answer", private) EXCEPT !.op = "patch"]
                  ELSE Reply("answer", private)
  <2>2. /\ r \in Responses /\ r.by = "answer" /\ r.kind = "answer" /\ r.private = private
        /\ r.op = "patch" <=> response[i] = "deferred"
    BY RequestKinds DEF Holders
  <2>3. /\ request' = [request EXCEPT ![i] = r] /\ phase[i] = "handler"
        /\ response[i] # "replied" /\ (response[i] = "deferred" => private = ephemeral(i))
        /\ UNCHANGED <<registration, phase, command, response, timer, slots, shown, reported>>
    BY <2>1 DEF CallReply
  <2> HIDE DEF r
  <2>4. Typed'
    BY <1>1, <2>2, <2>3 DEF Typed, RequestsMade
  <2>5. request'[i] = r /\ ephemeral(i)' = ephemeral(i)
    BY <1>1, <2>3 DEF Typed, ephemeral, registered, registration
  <2>6. At(i)'
    BY <1>1, <2>2, <2>3, <2>5 DEF At, Requesting, Quiet, Told, Visible, Deferred, registration
  <2> QED BY <1>1, <2>3, <2>4, <2>6, OneStep, SameWork DEF Typed
<1>3. CASE Followup(i)
  <2>1. /\ request' = [request EXCEPT ![i] = [by |-> "followup", op |-> "followup"]]
        /\ phase[i] = "handler"
        /\ UNCHANGED <<registration, phase, command, response, timer, slots, shown, reported>>
    BY <1>3 DEF Followup
  <2>2. Typed' /\ request'[i] = [by |-> "followup", op |-> "followup"]
    BY <1>1, <2>1, RequestKinds DEF Typed
  <2>3. ephemeral(i)' = ephemeral(i)
    BY <2>1 DEF ephemeral, registered, registration
  <2>4. At(i)'
    BY <1>1, <2>1, <2>2, <2>3, RequestKinds DEF At, Requesting, Quiet, Told, Visible, registration
  <2> QED BY <1>1, <2>1, <2>2, <2>4, OneStep, SameWork DEF Typed
<1>4. CASE finish(i)
  <2> DEFINE r == IF response[i] = "initial" THEN Reply("fallback", TRUE)
                  ELSE [Reply("fallback", TRUE) EXCEPT !.op = "patch"]
  <2>1. /\ r \in Responses /\ r.by = "fallback" /\ r.kind = "fallback"
        /\ r.op = "patch" <=> response[i] # "initial"
    BY RequestKinds DEF Holders
  <2>2. /\ request' = [request EXCEPT ![i] = r] /\ phase' = [phase EXCEPT ![i] = "finishing"]
        /\ phase[i] = "finish" /\ response[i] # "replied"
        /\ UNCHANGED <<registration, command, response, timer, slots, shown, reported>>
    BY <1>4 DEF finish
  <2> HIDE DEF r
  <2>3. Typed'
    BY <1>1, <2>1, <2>2 DEF Typed, RequestsMade
  <2>4. request'[i] = r /\ phase'[i] = "finishing" /\ ephemeral(i)' = ephemeral(i)
        /\ response[i] \in {"initial", "deferred"}
    BY <1>1, <2>2 DEF Typed, ephemeral, registered, registration
  <2>5. At(i)'
    BY <1>1, <2>1, <2>2, <2>4 DEF At, Requesting, Quiet, Told, Visible, Deferred, registration
  <2>6. \A j \in Interactions : phase'[j] \in {"handler", "finish", "finishing"}
                                  <=> phase[j] \in {"handler", "finish", "finishing"}
    BY <1>1, <2>2 DEF Typed
  <2> QED BY <1>1, <2>2, <2>3, <2>5, <2>6, OneStep, SameWork DEF Typed
<1>5. CASE deferResponse(i) /\ response[i] = "initial"
  <2> DEFINE r == Reply("deferral", ephemeral(i))
  <2>1. /\ r \in Responses /\ r.by = "deferral" /\ r.kind = "deferral" /\ r.op = "callback"
        /\ r.private = ephemeral(i)
    <3>1. CASE ephemeral(i)
      <4>1. r = Reply("deferral", TRUE) /\ ephemeral(i) = TRUE
        BY <3>1, EphemeralIsBoolean, Zenon
      <4> HIDE DEF r
      <4> QED BY <4>1, RequestKinds DEF Holders
    <3>2. CASE ~ephemeral(i)
      <4>1. r = Reply("deferral", FALSE) /\ ephemeral(i) = FALSE
        BY <3>2, EphemeralIsBoolean, Zenon
      <4> HIDE DEF r
      <4> QED BY <4>1, RequestKinds DEF Holders
    <3> QED BY <3>1, <3>2
  <2>2. /\ request' = [request EXCEPT ![i] = r] /\ request[i] = NoRequest /\ timer[i] = "fired"
        /\ UNCHANGED <<registration, phase, command, response, timer, slots, shown, reported>>
    BY <1>5 DEF deferResponse
  <2> HIDE DEF r
  <2>3. Typed'
    BY <1>1, <2>1, <2>2 DEF Typed, RequestsMade
  <2>4. request'[i] = r /\ ephemeral(i)' = ephemeral(i)
    BY <1>1, <2>2 DEF Typed, ephemeral, registered, registration
  <2>5. At(i)'
    BY <1>1, <1>5, <2>1, <2>2, <2>4, RequestKinds
    DEF At, Requesting, Quiet, Told, Visible, Deferred, registration
  <2> QED BY <1>1, <2>2, <2>3, <2>5, OneStep, SameWork DEF Typed
<1>6. CASE deferResponse(i) /\ response[i] # "initial"
  <2>1. /\ timer' = [timer EXCEPT ![i] = "off"]
        /\ UNCHANGED <<registration, phase, command, response, request, slots, shown, reported>>
    BY <1>6 DEF deferResponse
  <2>2. Typed' /\ timer'[i] = "off" /\ ephemeral(i)' = ephemeral(i)
    BY <1>1, <2>1 DEF Typed, ephemeral, registered, registration
  <2>3. At(i)'
    BY <1>1, <2>1, <2>2 DEF At, Requesting, Quiet, Told, Visible, Deferred, registration
  <2> QED BY <1>1, <2>1, <2>2, <2>3, OneStep, SameWork DEF Typed
<1> QED BY <1>2, <1>3, <1>4, <1>5, <1>6

\* Steps that start no request and end none.
LEMMA OtherSteps ==
  ASSUME IInv, NEW i \in Interactions,
         \/ HandlerReturns(i) \/ FinishedAlready(i) \/ TimerFires(i) \/ TimerStops(i) \/ Expire(i)
  PROVE  IInv'
<1> USE DEF event, history
<1>1. Typed /\ At(i) /\ Counted
  BY DEF IInv
<1>2. /\ UNCHANGED <<registration, command, response, request, shown, reported>>
      /\ ephemeral(i)' = ephemeral(i)
  BY DEF HandlerReturns, FinishedAlready, TimerFires, TimerStops, Expire, ephemeral, registered,
    registration
<1>3. Typed'
  BY <1>1, <1>2 DEF Typed, HandlerReturns, FinishedAlready, TimerFires, TimerStops, Expire
<1>4. /\ phase'[i] = phase[i]
         \/ (phase[i] = "handler" /\ phase'[i] = "finish")
         \/ (phase[i] = "finish" /\ phase'[i] = "ended")
      /\ phase[i] \in {"none", "dispatch", "refuse"} => timer'[i] = timer[i]
      /\ \A j \in Interactions \ {i} : phase'[j] = phase[j] /\ timer'[j] = timer[j]
  BY <1>1 DEF Typed, At, Quiet, HandlerReturns, FinishedAlready, TimerFires, TimerStops, Expire
<1>5. At(i)'
  BY <1>1, <1>2, <1>4 DEF At, Requesting, Quiet, Told, Visible, registration
<1>6. Counted'
  <2>1. CASE FinishedAlready(i)
    BY <2>1, EndsWork DEF FinishedAlready
  <2>2. CASE ~FinishedAlready(i)
    <3>1. phase'[i] # "ended" \/ phase' = phase
      BY <1>1, <2>2 DEF Typed, HandlerReturns, TimerFires, TimerStops, Expire
    <3>2. slots' = slots
      BY <2>2 DEF HandlerReturns, TimerFires, TimerStops, Expire
    <3> QED BY <1>4, <3>1, <3>2, SameWork
  <2> QED BY <2>1, <2>2
<1> QED BY <1>1, <1>2, <1>3, <1>4, <1>5, <1>6, OneStep

\* The end of a request, with what Discord made of it.
LEMMA ResponseSteps ==
  ASSUME IInv, NEW i \in Interactions, Responding(i)
  PROVE  IInv'
<1> USE DEF history, Unlocked
<1> DEFINE by == request[i].by
<1>1. Typed /\ At(i) /\ Counted
  BY DEF IInv
<1>2. PICK ok \in BOOLEAN :
        /\ request[i] # NoRequest /\ Continue(i, ok) /\ UNCHANGED registration
        /\ (ok => accepts(i) /\ Apply(i))
        /\ (~ok => (accepts(i) /\ Apply(i)) \/ UNCHANGED shown)
  BY DEF Responding, Succeeds, Refused, RequestFails
<1>3. /\ request' = [request EXCEPT ![i] = NoRequest]
      /\ response' = [response EXCEPT ![i] =
           IF ~ok THEN @ ELSE IF by = "deferral" THEN "deferred" ELSE "replied"]
      /\ timer' = [timer EXCEPT ![i] = IF by = "deferral" THEN "off" ELSE @]
      /\ phase' = [phase EXCEPT ![i] = IF by \in {"refusal", "fallback"} THEN "ended" ELSE @]
      /\ slots' = IF by = "fallback" THEN slots - 1 ELSE slots
      /\ reported' = [reported EXCEPT ![i] = IF ok /\ by = "answer" THEN request[i].kind ELSE @]
      /\ command' = command
  BY <1>2 DEF Continue
<1>4. ephemeral(i)' = ephemeral(i) /\ started' = started
  BY <1>2, <1>3 DEF ephemeral, registered, registration
<1>5. request[i] \in Responses \/ (by = "followup" /\ request[i].op = "followup"
                                    /\ request[i] \notin Responses)
  BY <1>1, <1>2, RequestKinds DEF Typed, Holders
<1>6. /\ \A j \in Interactions \ {i} : shown'[j] = shown[j]
      /\ \/ shown'[i] = shown[i]
         \/ /\ request[i] \in Responses /\ request[i].op = "callback"
            /\ shown[i] = Nothing
            /\ shown'[i] = [kind |-> request[i].kind, private |-> request[i].private]
         \/ /\ request[i] \in Responses /\ request[i].op = "patch"
            /\ shown'[i] = [kind |-> request[i].kind, private |-> shown[i].private]
      /\ ok /\ request[i] \in Responses => shown'[i].kind = request[i].kind
      /\ shown' \in [Interactions ->
           [kind : {"nothing", "deferral", "answer", "fallback", "refusal"}, private : BOOLEAN]]
  <2>1. CASE UNCHANGED shown /\ ~ok
    BY <1>1, <2>1 DEF Typed
  <2>2. CASE accepts(i) /\ Apply(i)
    <3>1. CASE request[i] \in Responses /\ request[i].op = "callback"
      BY <1>1, <2>2, <3>1 DEF Typed, Apply, accepts, Responses, Holders
    <3>2. CASE request[i] \in Responses /\ request[i].op = "patch"
      BY <1>1, <2>2, <3>2 DEF Typed, Apply, Responses, Holders
    <3>3. CASE request[i] \notin Responses
      BY <1>1, <1>5, <2>2, <3>3 DEF Typed, Apply
    <3> QED BY <3>1, <3>2, <3>3 DEF Responses
  <2> QED BY <1>2, <2>1, <2>2
<1>7. /\ request'[i] = NoRequest
      /\ response'[i] = IF ~ok THEN response[i] ELSE IF by = "deferral" THEN "deferred" ELSE "replied"
      /\ timer'[i] \in {timer[i], "off"}
      /\ phase'[i] = IF by \in {"refusal", "fallback"} THEN "ended" ELSE phase[i]
      /\ reported'[i] = IF ok /\ by = "answer" THEN request[i].kind ELSE reported[i]
  BY <1>1, <1>3 DEF Typed
<1>8. request[i] \in Responses => request[i].kind = by /\ response[i] # "replied" /\ by \in Holders
  BY <1>1, RequestKinds DEF At, Requesting, Typed
<1>9. Typed'
  <2>1. reported' \in [Interactions -> {None, "answer"}]
    BY <1>1, <1>3, <1>5, <1>8 DEF Typed
  <2> QED BY <1>1, <1>3, <1>6, <2>1, RequestKinds DEF Typed
<1>10. At(i)'
  <2>1. Requesting(i)'
    BY <1>1, <1>7, RequestKinds DEF At, Requesting
  <2>2. Quiet(i)'
    BY <1>1, <1>2, <1>4, <1>7, RequestKinds DEF At, Quiet, Requesting, Typed
  <2>3. Told(i)'
    <3>1. CASE request[i] \in Responses
      BY <1>1, <1>6, <1>7, <1>8, <3>1 DEF At, Told
    <3>2. CASE request[i] \notin Responses
      BY <1>1, <1>5, <1>6, <1>7, <3>2 DEF At, Told
    <3> QED BY <3>1, <3>2
  <2>4. Visible(i)'
    <3>1. response'[i] = "deferred" => shown'[i].private = ephemeral(i)
      <4>1. CASE ok /\ by = "deferral"
        <5>1. request[i] \in Responses /\ request[i].private = ephemeral(i)
          BY <1>1, <1>5, <4>1 DEF At, Visible, Deferred
        <5>2. request[i].op = "callback"
          BY <1>1, <4>1, <5>1 DEF At, Requesting, Responses
        <5>3. shown'[i].private = request[i].private
          BY <1>2, <1>6, <4>1, <5>1, <5>2 DEF Apply, Typed
        <5> QED BY <5>1, <5>3
      <4>2. CASE ~ok /\ response[i] = "deferred"
        <5>1. request[i] \in Responses => request[i].op = "patch"
          BY <1>1, <4>2 DEF At, Requesting
        <5>2. shown'[i].private = shown[i].private
          BY <1>6, <5>1
        <5> QED BY <1>1, <4>2, <5>2 DEF At, Visible
      <4> QED BY <1>7, <4>1, <4>2
    <3> QED BY <1>4, <1>7, <3>1, RequestKinds DEF Visible
  <2> QED BY <2>1, <2>2, <2>3, <2>4 DEF At
<1>11. Counted'
  <2>1. CASE by = "fallback"
    <3>1. phase[i] = "finishing"
      BY <1>1, <2>1 DEF At, Requesting
    <3> QED BY <1>3, <2>1, <3>1, EndsWork
  <2>2. CASE by # "fallback"
    <3>1. \A j \in Interactions : phase'[j] \in {"handler", "finish", "finishing"}
                                    <=> phase[j] \in {"handler", "finish", "finishing"}
      BY <1>1, <1>3, <2>2 DEF At, Requesting, Typed
    <3> QED BY <1>3, <2>2, <3>1, SameWork
  <2> QED BY <2>1, <2>2
<1> QED BY <1>1, <1>2, <1>3, <1>6, <1>9, <1>10, <1>11, OneStep DEF Typed

LEMMA Initial == Init => IInv
<1> SUFFICES ASSUME Init PROVE IInv
  OBVIOUS
<1>1. Typed
  BY RequestKinds DEF Init, Typed, Nothing
<1>2. ASSUME NEW i \in Interactions PROVE At(i)
  BY RequestKinds DEF Init, At, Requesting, Quiet, Told, Visible
<1>3. Counted
  <2>1. Working = {}
    BY DEF Init, Working
  <2> QED BY <2>1, FS_EmptySet DEF Init, Counted
<1> QED BY <1>1, <1>2, <1>3 DEF IInv

LEMMA Inductive == IInv /\ [Next]_vars => IInv'
<1> SUFFICES ASSUME IInv, [Next]_vars PROVE IInv'
  OBVIOUS
<1>1. ASSUME NEW i \in Interactions,
             \/ Interaction(i) \/ Dispatching(i) \/ Responding(i) \/ Expire(i)
             \/ \E private \in BOOLEAN : CallReply(i, private)
             \/ Followup(i) \/ HandlerReturns(i) \/ Finishing(i)
             \/ TimerFires(i) \/ TimerStops(i) \/ deferResponse(i)
      PROVE  IInv'
  BY <1>1, DispatchSteps, ResponseSteps, CallSteps, OtherSteps DEF Finishing
<1> QED BY <1>1, RegistrationSteps DEF Next

-----------------------------------------------------------------------------
(* Theorems.                                                               *)

\* The inductive invariant of an interaction's response and of the slots.
THEOREM Invariance == Spec => []IInv
<1>1. Init => IInv
  BY Initial
<1>2. IInv /\ [Next]_vars => IInv'
  BY Inductive
<1> QED BY <1>1, <1>2, PTL DEF Spec

\* What a handler was told is sent stays shown, whatever the timer, the fallback
\* and failing requests do (commands.go:217-296).
THEOREM RepliesStay == Spec => []ReportedReplyStays
<1>1. IInv => ReportedReplyStays
  BY DEF IInv, At, Told, ReportedReplyStays
<1> QED BY <1>1, Invariance, PTL

\* Each slot that is taken belongs to a handler that is not done, and there are
\* never more than commandConcurrency (commands.go:460-509).
THEOREM SlotsAreCounted ==
  Spec => [](slots = Cardinality(Working) /\ slots \in 0..commandConcurrency)
<1>1. IInv => slots = Cardinality(Working) /\ slots \in 0..commandConcurrency
  BY FS_CardinalityType DEF IInv, Counted
<1> QED BY <1>1, Invariance, PTL

\* An answer is as visible as the handler asked for, whatever deferral it met.
THEOREM VisibilityHolds == Spec => VisibilityKept
<1>1. IInv /\ [Next]_vars =>
        \A i \in Interactions :
          shown'[i].kind = "answer" /\ shown[i].kind # "answer" =>
            shown'[i].private = request[i].private
  <2> SUFFICES ASSUME IInv, [Next]_vars, NEW i \in Interactions,
                      shown'[i].kind = "answer", shown[i].kind # "answer"
               PROVE  shown'[i].private = request[i].private
    OBVIOUS
  <2>1. shown' # shown
    OBVIOUS
  <2>2. PICK j \in Interactions : Responding(j)
    BY <2>1 DEF Next, vars, Command, Run, Cancel, syncCommands, SyncGet, SyncPut, SyncFails, Interaction,
      Dispatching, Denied, Unavailable, Busy, Refuse, Accepted, Expire, CallReply, Followup,
      HandlerReturns, Finishing, finish, FinishedAlready, TimerFires, TimerStops, deferResponse
  <2>3. Typed /\ At(i) /\ Apply(j) /\ request[j] # NoRequest
    BY <2>1, <2>2 DEF IInv, Responding, Succeeds, Refused, RequestFails, Unlocked
  <2>4. i = j /\ request[i] \in Responses
    <3>1. i = j
      BY <2>3 DEF Apply, Typed
    <3>2. request[j] \in Responses \/ (request[j].by = "followup" /\ request[j].op = "followup")
      BY <2>3, RequestKinds DEF Typed
    <3>3. request[j].op # "followup"
      BY <2>3, <3>1 DEF Apply, Typed
    <3> QED BY <3>1, <3>2, <3>3
  <2>5. CASE request[i].op = "callback"
    BY <2>3, <2>4, <2>5 DEF Apply, Typed
  <2>6. CASE request[i].op = "patch"
    <3>1. shown'[i].kind = request[i].kind /\ shown'[i].private = shown[i].private
      BY <2>3, <2>4, <2>6 DEF Apply, Typed
    <3>2. request[i].by = "answer" /\ response[i] = "deferred"
      BY <2>3, <2>4, <2>6, <3>1 DEF At, Requesting
    <3>3. request[i].private = ephemeral(i) /\ shown[i].private = ephemeral(i)
      BY <2>3, <2>4, <2>6, <3>2 DEF At, Visible, Deferred
    <3> QED BY <3>1, <3>3
  <2> QED BY <2>4, <2>5, <2>6 DEF Responses
<1> QED BY <1>1, Invariance, PTL DEF Spec, VisibilityKept

-----------------------------------------------------------------------------
(* What an interaction ends with, relative to IInv.                        *)

\* While nothing went wrong for it, what Discord shows is what the client
\* believes, and it ends only after a reply.
Believed(i) ==
  /\ response[i] = "initial" => shown[i] = Nothing
  /\ response[i] = "deferred" => shown[i] # Nothing
  /\ response[i] = "replied" => shown[i].kind \in {"answer", "fallback", "refusal"}
  /\ request[i].by = "followup" => response[i] = "replied"
  /\ phase[i] = "ended" => response[i] = "replied"

Trouble == late \cup faulty
Agreed == \A i \in Interactions : i \notin Trouble => Believed(i)

\* A reply for which nothing went wrong is accepted.
LEMMA Accepts ==
  ASSUME IInv, NEW i \in Interactions, i \notin Trouble, Believed(i), request[i] \in Responses
  PROVE  accepts(i)
<1>1. Requesting(i) /\ response[i] \in {"initial", "deferred", "replied"}
  BY DEF IInv, Typed, At
<1> QED BY <1>1 DEF Requesting, Believed, Trouble, accepts, Responses

LEMMA RespondingAgrees ==
  ASSUME IInv, NEW i \in Interactions, Responding(i), Believed(i), i \notin Trouble'
  PROVE  Believed(i)'
<1>1. Typed /\ Requesting(i) /\ i \notin Trouble /\ request[i] # NoRequest
  BY DEF IInv, At, Responding, Succeeds, Refused, RequestFails, Unlocked, Trouble
<1>2. CASE request[i] \in Responses
  <2>1. Succeeds(i)
    <3>1. ~Refused(i)
      BY <1>1, <1>2, Accepts DEF Refused
    <3>2. ~RequestFails(i)
      BY DEF RequestFails, Trouble
    <3> QED BY <3>1, <3>2 DEF Responding
  <2>2. /\ request'[i] = NoRequest
        /\ response'[i] = IF request[i].by = "deferral" THEN "deferred" ELSE "replied"
        /\ phase'[i] = "ended" => phase[i] = "ended" \/ request[i].by # "deferral"
    BY <1>1, <2>1 DEF Succeeds, Continue, Typed
  <2>3. shown'[i].kind = request[i].by
    <3>1. request[i].kind = request[i].by /\ request[i].op \in {"callback", "patch"}
      BY <1>1, <1>2 DEF Requesting, Responses
    <3> QED BY <1>1, <2>1, <3>1 DEF Succeeds, Apply, Typed
  <2>4. request[i].by \in Holders
    BY <1>2 DEF Responses
  <2>5. phase[i] # "ended"
    BY <1>1, <1>2 DEF Believed, Requesting
  <2> QED BY <2>2, <2>3, <2>4, <2>5, RequestKinds DEF Believed, Nothing, Holders
<1>3. CASE request[i] \notin Responses
  <2>1. request[i].by = "followup" /\ request[i].op = "followup"
    BY <1>1, <1>3, RequestKinds DEF Typed
  <2>2. /\ request'[i] = NoRequest /\ phase'[i] = phase[i] /\ shown'[i] = shown[i]
        /\ response[i] = "replied" /\ response'[i] = "replied"
    BY <1>1, <2>1 DEF Responding, Succeeds, Refused, RequestFails, Continue, Apply, Typed, Believed
  <2> QED BY <2>2, RequestKinds DEF Believed
<1> QED BY <1>2, <1>3

LEMMA AgreedStep ==
  ASSUME IInv, Agreed, [Next]_vars
  PROVE  Agreed'
<1> SUFFICES ASSUME NEW i \in Interactions, i \notin Trouble' PROVE Believed(i)'
  BY DEF Agreed
<1>1. CASE Responding(i)
  <2>1. i \notin Trouble
    BY <1>1 DEF Responding, Succeeds, Refused, RequestFails, Trouble
  <2> QED BY <1>1, <2>1, RespondingAgrees DEF Agreed
<1>2. ASSUME NEW j \in Interactions, j # i, Responding(j) PROVE Believed(i)'
  <2>1. /\ i \notin Trouble /\ response'[i] = response[i] /\ shown'[i] = shown[i]
        /\ request'[i] = request[i] /\ phase'[i] = phase[i]
    BY <1>2 DEF IInv, Typed, Responding, Succeeds, Refused, RequestFails, Continue, Apply, Trouble
  <2> QED BY <2>1 DEF Agreed, Believed
<1>3. CASE \/ \E c \in Candidates : Command(c)
           \/ Run \/ Cancel \/ syncCommands \/ SyncGet \/ SyncPut \/ SyncFails
           \/ UNCHANGED vars
  <2>1. UNCHANGED <<phase, response, request, shown, late, faulty>>
    BY <1>3 DEF Command, Run, Cancel, syncCommands, SyncGet, SyncPut, SyncFails, vars,
      registration, event, history
  <2> QED BY <2>1 DEF Agreed, Believed, Trouble
<1>4. ASSUME NEW j \in Interactions, Dispatching(j) \/ finish(j) \/ deferResponse(j)
             \/ \E private \in BOOLEAN : CallReply(j, private)
      PROVE  Believed(i)'
  <2>1. UNCHANGED <<response, shown, late, faulty>>
    BY <1>4 DEF Dispatching, Denied, Unavailable, Busy, Refuse, Accepted, finish, deferResponse,
      CallReply, event, history
  <2>2. phase'[i] = "ended" => phase[i] = "ended"
    BY <1>4 DEF Dispatching, Denied, Unavailable, Busy, Refuse, Accepted, finish, deferResponse,
      CallReply, IInv, Typed
  <2>3. request'[i].by = "followup" => request[i].by = "followup"
    <3>1. CASE request'[i] = request[i]
      BY <3>1
    <3>2. CASE request'[i] # request[i]
      <4> DEFINE Sent(h, private) == \/ request'[i] = Reply(h, private)
                                     \/ request'[i] = [Reply(h, private) EXCEPT !.op = "patch"]
      <4>1. \A h, private : Sent(h, private) => request'[i].by = h
        BY DEF Reply
      <4>2. CASE Dispatching(j)
        <5>1. Sent("refusal", TRUE)
          BY <3>2, <4>2 DEF Dispatching, Denied, Unavailable, Busy, Refuse, Accepted, IInv, Typed
        <5> QED BY <4>1, <5>1
      <4>3. CASE finish(j)
        <5>1. Sent("fallback", TRUE)
          BY <3>2, <4>3 DEF finish, IInv, Typed
        <5> QED BY <4>1, <5>1
      <4>4. CASE deferResponse(j)
        <5>1. Sent("deferral", ephemeral(j))
          BY <3>2, <4>4 DEF deferResponse, IInv, Typed
        <5> QED BY <4>1, <5>1
      <4>5. CASE \E private \in BOOLEAN : CallReply(j, private)
        <5>1. \E private \in BOOLEAN : Sent("answer", private)
          BY <3>2, <4>5 DEF CallReply, IInv, Typed
        <5> QED BY <4>1, <5>1
      <4> QED BY <1>4, <4>2, <4>3, <4>4, <4>5
    <3> QED BY <3>1, <3>2
  <2> QED BY <2>1, <2>2, <2>3 DEF Agreed, Believed, Trouble
<1>5. ASSUME NEW j \in Interactions,
             \/ Interaction(j) \/ HandlerReturns(j) \/ FinishedAlready(j) \/ TimerFires(j)
             \/ TimerStops(j) \/ Expire(j) \/ Followup(j)
      PROVE  Believed(i)'
  <2>1. UNCHANGED <<response, shown, faulty>> /\ late \subseteq late'
    BY <1>5 DEF Interaction, HandlerReturns, FinishedAlready, TimerFires, TimerStops, Expire,
      Followup, event, history
  <2>2. phase'[i] = "ended" => phase[i] = "ended" \/ response[i] = "replied"
    BY <1>5 DEF Interaction, HandlerReturns, FinishedAlready, TimerFires, TimerStops, Expire,
      Followup, event, IInv, Typed
  <2>3. request'[i].by = "followup" => request[i].by = "followup" \/ response[i] = "replied"
    BY <1>5 DEF Interaction, HandlerReturns, FinishedAlready, TimerFires, TimerStops, Expire,
      Followup, event, IInv, Typed
  <2> QED BY <2>1, <2>2, <2>3 DEF Agreed, Believed, Trouble
<1> QED BY <1>1, <1>2, <1>3, <1>4, <1>5 DEF Next, Finishing

\* An interaction that is over, for which no request failed and the window was
\* not missed, is answered: neither the deferral nor the fallback leaves it open.
THEOREM EndedAreAnswered == Spec => []EndedIsAnswered
<1>1. Init => IInv /\ Agreed
  <2>1. Init => Agreed
    BY RequestKinds DEF Init, Agreed, Believed
  <2> QED BY <2>1, Initial
<1>2. IInv /\ Agreed /\ [Next]_vars => IInv' /\ Agreed'
  BY Inductive, AgreedStep
<1>3. Agreed => EndedIsAnswered
  BY DEF Agreed, Believed, Trouble, EndedIsAnswered
<1> QED BY <1>1, <1>2, <1>3, PTL DEF Spec
=============================================================================
