------------------------------ MODULE RateLimit ------------------------------
(***************************************************************************)
(* The rate limit plugin (core/http/plugins/ratelimit): its middleware and *)
(* the two stores, MemoryStore in one process and ORMStore in a database   *)
(* that several processes share.  A request reads the clock first and gets *)
(* the store's lock, or its row in the database, later: readings may be    *)
(* older than what they meet.                                              *)
(*                                                                         *)
(* Time is counted in ticks, Second of them a second; a database's clock   *)
(* shows whole seconds, SQLite's those that have passed and PostgreSQL's   *)
(* the nearest.  A request bypassed by Skip never gets here.               *)
(***************************************************************************)
EXTENDS Integers, FiniteSets

CONSTANTS
  Requests, Keys,
  Processes,      \* processes that share the database
  Limit, Window,  \* Config
  MaxKeys,        \* maxKeys of the memory store
  Second, Minute, \* in ticks
  MaxTime         \* bound: the clock stops here

ASSUME RateLimitAssumption ==
  /\ {Limit, Window, MaxKeys, Second, Minute} \subseteq Nat \ {0}
  /\ MaxTime \in Nat

VARIABLES
  store,        \* Config.Store: memory, or the database's dialect
  clock,        \* real time
  key, process, \* of each request
  pc,           \* where each request stands
  reading,      \* its last clock reading: now, later the time of its statement
  answer,       \* what it was told
  buckets, expirations,  \* MemoryStore
  rows,         \* godo_rate_limits
  nextCleanup   \* ORMStore.nextCleanup of each process

memory == <<buckets, expirations>>
database == <<rows, nextCleanup>>
inputs == <<store, key, process>>
vars == <<inputs, clock, pc, reading, answer, memory, database>>

-----------------------------------------------------------------------------

Stores == {"memory", "sqlite", "postgres"}

\* No bucket, or no row, for a key.
NoBucket == [count |-> 0, reset |-> 0]

Whole(t) == t - (t % Second)

\* How far the store's clock may be ahead: PostgreSQL casts EXTRACT(EPOCH ...) to
\* BIGINT, which rounds to the nearest second, and unixepoch() of SQLite truncates.
ahead == IF store = "postgres" THEN Second \div 2 ELSE 0

dbTime(t) == Whole(t + ahead)
dbNow == dbTime(clock)

\* windowSeconds: the window in whole seconds, rounded up.
windowSeconds == Whole(Window + Second - 1)

Init ==
  /\ store \in Stores /\ clock = 0
  /\ key \in [Requests -> Keys] /\ process \in [Requests -> Processes]
  /\ store = "memory" => \A r, s \in Requests : process[r] = process[s]
  /\ pc = [r \in Requests |-> "new"]
  /\ reading = [r \in Requests |-> 0]
  /\ answer = [r \in Requests |-> "none"]
  /\ buckets = [k \in Keys |-> NoBucket] /\ expirations = {}
  /\ rows = [k \in Keys |-> NoBucket]
  /\ nextCleanup = [p \in Processes |-> 0]

At(r, p) == pc[r] = p
Goto(r, p) == pc' = [pc EXCEPT ![r] = p]
Answer(r, a) ==
  /\ Goto(r, "done") /\ answer' = [answer EXCEPT ![r] = a]
  /\ reading' = [reading EXCEPT ![r] = 0]
Read(r) == reading' = [reading EXCEPT ![r] = clock]

\* middleware reads the clock, then asks the store.
Arrive(r) ==
  /\ At(r, "new") /\ Read(r)
  /\ Goto(r, IF store = "memory" THEN "take" ELSE "cleanup")
  /\ UNCHANGED <<inputs, clock, answer, memory, database>>

\* The key is too long, or the context is done: 503 before the store is touched.
Refused(r) ==
  /\ pc[r] \in {"take", "cleanup"} /\ Answer(r, "unavailable")
  /\ UNCHANGED <<inputs, clock, memory, database>>

-----------------------------------------------------------------------------
(* MemoryStore.Take, under its mutex.                                      *)

Expiration(k, reset) == [key |-> k, reset |-> reset]

\* What the loop over the heap pops.  The heap is a set: ExpirationsMatch shows
\* that no entry is pushed while its equal is there.
Popped(t) == {x \in expirations : x.reset <= t}

\* FAULT: what is popped is not deleted from the map.
LiveUndeleted(t) == buckets

Live(t) ==
  [k \in Keys |-> IF Expiration(k, buckets[k].reset) \in Popped(t)
                    THEN NoBucket ELSE buckets[k]]

Held(live) == Cardinality({k \in Keys : live[k] # NoBucket})

\* A window begins: the key has no bucket, or one that is over.
Fresh(k, t, live) == live[k] = NoBucket \/ live[k].reset <= t

\* FAULT: expired keys are counted.
FullUnexpired(k, live) == live[k] = NoBucket /\ Held(buckets) >= MaxKeys

Full(k, live) == live[k] = NoBucket /\ Held(live) >= MaxKeys

bucket(k, t, live) ==
  IF Fresh(k, t, live) THEN [count |-> 0, reset |-> t + Window] ELSE live[k]

TakeFull(r) ==
  LET t == reading[r]
  IN  /\ store = "memory" /\ At(r, "take")
      /\ Full(key[r], Live(t))
      /\ buckets' = Live(t) /\ expirations' = expirations \ Popped(t)
      /\ Answer(r, "full")
      /\ UNCHANGED <<inputs, clock, database>>

Take(r) ==
  LET t == reading[r]
      k == key[r]
      b == bucket(k, t, Live(t))
      allowed == b.count < Limit
  IN  /\ store = "memory" /\ At(r, "take")
      /\ ~Full(k, Live(t))
      /\ expirations' = (expirations \ Popped(t)) \cup
           (IF Fresh(k, t, Live(t)) THEN {Expiration(k, b.reset)} ELSE {})
      /\ buckets' = [Live(t) EXCEPT ![k] = IF allowed THEN [b EXCEPT !.count = @ + 1] ELSE b]
      /\ Answer(r, IF allowed THEN "allowed" ELSE "denied")
      /\ UNCHANGED <<inputs, clock, database>>

-----------------------------------------------------------------------------
(* ORMStore.Take.                                                          *)

Larger(a, b) == IF a > b THEN a ELSE b
Smaller(a, b) == IF a < b THEN a ELSE b

\* DELETE of the rows whose reset has passed on the database's clock.
Remaining == [k \in Keys |-> IF rows[k].reset <= dbNow THEN NoBucket ELSE rows[k]]

\* cleanup, under cleanupMu of the request's process.
SkipCleanup(r) ==
  /\ store # "memory" /\ At(r, "cleanup")
  /\ reading[r] < nextCleanup[process[r]]
  /\ Goto(r, "query")
  /\ UNCHANGED <<inputs, clock, reading, answer, memory, database>>

Cleanup(r) ==
  /\ store # "memory" /\ At(r, "cleanup")
  /\ reading[r] >= nextCleanup[process[r]]
  /\ rows' = Remaining
  /\ nextCleanup' = [nextCleanup EXCEPT ![process[r]] =
                       reading[r] + Larger(Smaller(Window, Minute), Second)]
  /\ Goto(r, "query")
  /\ UNCHANGED <<inputs, clock, reading, answer, memory>>

\* An error leaves open whether the statement was executed.
CleanupFails(r) ==
  /\ store # "memory" /\ At(r, "cleanup")
  /\ reading[r] >= nextCleanup[process[r]]
  /\ rows' \in {rows, Remaining}
  /\ Answer(r, "unavailable")
  /\ UNCHANGED <<inputs, clock, memory, nextCleanup>>

\* The statement starts, and may have to wait for the row.
Query(r) ==
  /\ At(r, "query") /\ Read(r) /\ Goto(r, "upsert")
  /\ UNCHANGED <<inputs, clock, answer, memory, database>>

\* statement_timestamp() of PostgreSQL is that of the start; SQLite evaluates
\* unixepoch() once it has the database.
StatementTime(r) == IF store = "postgres" THEN dbTime(reading[r]) ELSE dbNow

\* FAULT: without the CASE that lets the count stay where it is.
upsertUnbounded(k, t) ==
  IF rows[k] = NoBucket \/ rows[k].reset <= t
  THEN [count |-> 1, reset |-> t + windowSeconds]
  ELSE [rows[k] EXCEPT !.count = @ + 1]

\* FAULT: the window is restarted by every request.
upsertSliding(k, t) ==
  IF rows[k] = NoBucket \/ rows[k].reset <= t
  THEN [count |-> 1, reset |-> t + windowSeconds]
  ELSE [count |-> IF rows[k].count <= Limit THEN rows[k].count + 1 ELSE rows[k].count,
        reset |-> t + windowSeconds]

upsert(k, t) ==
  IF rows[k] = NoBucket \/ rows[k].reset <= t
  THEN [count |-> 1, reset |-> t + windowSeconds]
  ELSE [rows[k] EXCEPT !.count = IF @ <= Limit THEN @ + 1 ELSE @]

Upsert(r) ==
  LET row == upsert(key[r], StatementTime(r))
  IN  /\ At(r, "upsert")
      /\ rows' = [rows EXCEPT ![key[r]] = row]
      /\ Answer(r, IF row.count <= Limit THEN "allowed" ELSE "denied")
      /\ UNCHANGED <<inputs, clock, memory, nextCleanup>>

UpsertFails(r) ==
  /\ At(r, "upsert")
  /\ rows' \in {rows, [rows EXCEPT ![key[r]] = upsert(key[r], StatementTime(r))]}
  /\ Answer(r, "unavailable")
  /\ UNCHANGED <<inputs, clock, memory, nextCleanup>>

-----------------------------------------------------------------------------

Tick ==
  /\ clock < MaxTime /\ clock' = clock + 1
  /\ UNCHANGED <<inputs, pc, reading, answer, memory, database>>

Step(r) ==
  \/ Arrive(r) \/ Refused(r) \/ TakeFull(r) \/ Take(r)
  \/ SkipCleanup(r) \/ Cleanup(r) \/ CleanupFails(r)
  \/ Query(r) \/ Upsert(r) \/ UpsertFails(r)

Next == Tick \/ \E r \in Requests : Step(r)

Spec == Init /\ [][Next]_vars

-----------------------------------------------------------------------------
(* Properties.                                                             *)

Bucket == [count : 0..Limit, reset : Nat]
Row == [count : 0..(Limit + 1), reset : Nat]

TypeOK ==
  /\ store \in Stores /\ clock \in Nat
  /\ key \in [Requests -> Keys] /\ process \in [Requests -> Processes]
  /\ pc \in [Requests -> {"new", "take", "cleanup", "query", "upsert", "done"}]
  /\ reading \in [Requests -> Nat]
  /\ answer \in [Requests -> {"none", "allowed", "denied", "full", "unavailable"}]
  /\ buckets \in [Keys -> Bucket] /\ rows \in [Keys -> Row]
  /\ expirations \subseteq [key : Keys, reset : Nat]
  /\ nextCleanup \in [Processes -> Nat]

\* The heap has one entry for each bucket, with the bucket's reset, and no
\* other: no bucket outlives its window unseen, and neither the map nor the heap
\* grows beyond MaxKeys (memory.go lines 68-87).
ExpirationsMatch ==
  /\ expirations = {Expiration(k, buckets[k].reset) : k \in {x \in Keys : buckets[x] # NoBucket}}
  /\ Held(buckets) <= MaxKeys

\* A new key is turned away only if MaxKeys other windows are still running on
\* the request's own clock reading (lines 76-79).
FullOnlyWhenFull ==
  [][\A r \in Requests : answer[r] # "full" /\ answer'[r] = "full" =>
       \E S \in SUBSET (Keys \ {key[r]}) :
         /\ Cardinality(S) = MaxKeys
         /\ \A k \in S : buckets[k].reset > reading[r]]_vars

\* What the stores promise together: the counts of ORMStore say one more than
\* the window has let through once a request has been denied.
windows ==
  IF store = "memory" THEN buckets
  ELSE [k \in Keys |-> [count |-> Smaller(rows[k].count, Limit), reset |-> rows[k].reset]]

told == [r \in Requests |-> IF answer[r] = "full" THEN "unavailable" ELSE answer[r]]

Contract ==
  INSTANCE FixedWindow WITH Longest <- windowSeconds, answer <- told, early <- ahead

\* Both stores let at most Limit requests of a key through in a window and keep
\* a window until it is over, for every interleaving of readings, statements,
\* cleanups and failures (http-ratelimit.md lines 74-76 and 157).  A window is over
\* at its reset in memory and on SQLite, and up to half a second before it on
\* PostgreSQL, whose clock rounds (orm.go lines 86 and 105-108).
ImplementsFixedWindow == Contract!Spec
=============================================================================
