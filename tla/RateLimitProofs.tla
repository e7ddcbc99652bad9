--------------------------- MODULE RateLimitProofs ---------------------------
(***************************************************************************)
(* Safety of the rate limit stores for any requests, keys, processes,      *)
(* limit and window, and their refinement of FixedWindow.                  *)
(***************************************************************************)
EXTENDS RateLimit, FiniteSetTheorems, TLAPS

Holding == {k \in Keys : buckets[k] # NoBucket}

\* Where a request stands goes with the store, and with what it was told; its
\* reading is never ahead of the clock.
Standing ==
  \A r \in Requests :
    /\ reading[r] <= clock
    /\ pc[r] = "take" => store = "memory"
    /\ pc[r] \in {"cleanup", "query", "upsert"} => store # "memory"
    /\ pc[r] # "done" => answer[r] = "none"

\* What is there has counted a request.
Started ==
  /\ \A k \in Keys : buckets[k] # NoBucket => buckets[k].count >= 1
  /\ \A k \in Keys : rows[k] # NoBucket => rows[k].count >= 1

IInv == TypeOK /\ Standing /\ Started /\ ExpirationsMatch /\ IsFiniteSet(Holding)

USE RateLimitAssumption
-----------------------------------------------------------------------------
(* Whole seconds.                                                          *)

LEMMA AheadOfClock == ahead \in Nat
BY DEF ahead

LEMMA WholeBelow == ASSUME NEW t \in Nat PROVE Whole(t) \in Nat /\ Whole(t) <= t
BY DEF Whole

\* The database's clock shows at most what it may be ahead.
LEMMA TimesShown ==
  ASSUME NEW t \in Nat
  PROVE  dbTime(t) \in Nat /\ dbTime(t) <= t + ahead
<1>1. t + ahead \in Nat
  BY AheadOfClock
<1> HIDE DEF ahead
<1> QED BY <1>1, WholeBelow DEF dbTime

LEMMA WindowRoundsUp == windowSeconds \in Nat /\ windowSeconds >= Window
<1>1. Window + Second - 1 \in Nat
  OBVIOUS
<1>2. (Window + Second - 1) % Second \in 0..(Second - 1)
  BY <1>1
<1> QED BY <1>1, <1>2 DEF windowSeconds, Whole

LEMMA StatementTimes ==
  ASSUME TypeOK, Standing, NEW r \in Requests
  PROVE  StatementTime(r) \in Nat /\ StatementTime(r) <= clock + ahead
<1>1. clock \in Nat /\ reading[r] \in Nat /\ reading[r] <= clock
  BY DEF TypeOK, Standing
<1>2. /\ dbTime(clock) \in Nat /\ dbTime(clock) <= clock + ahead
      /\ dbTime(reading[r]) \in Nat /\ dbTime(reading[r]) <= reading[r] + ahead
  BY <1>1, TimesShown
<1>3. dbTime(reading[r]) <= clock + ahead
  BY <1>1, <1>2, AheadOfClock
<1> QED BY <1>2, <1>3 DEF StatementTime, dbNow

-----------------------------------------------------------------------------
(* MemoryStore.                                                            *)

\* The loop leaves the buckets whose windows still run on the reading.
LEMMA LiveBuckets ==
  ASSUME TypeOK, ExpirationsMatch, IsFiniteSet(Holding), NEW t \in Nat
  PROVE  /\ Live(t) \in [Keys -> Bucket]
         /\ \A k \in Keys :
              \/ Live(t)[k] = buckets[k] /\ buckets[k] # NoBucket /\ buckets[k].reset > t
              \/ /\ Live(t)[k] = NoBucket
                 /\ buckets[k] = NoBucket \/ buckets[k].reset <= t
         /\ expirations \ Popped(t) =
              {Expiration(k, Live(t)[k].reset) : k \in {x \in Keys : Live(t)[x] # NoBucket}}
         /\ IsFiniteSet({k \in Keys : Live(t)[k] # NoBucket}) /\ Held(Live(t)) <= MaxKeys
         /\ Held(Live(t)) \in Nat
<1>1. NoBucket \in Bucket /\ buckets \in [Keys -> Bucket]
  BY DEF NoBucket, Bucket, TypeOK
<1>2. Live(t) \in [Keys -> Bucket]
  BY <1>1 DEF Live
<1>3. \A k \in Keys : buckets[k] # NoBucket => Expiration(k, buckets[k].reset) \in expirations
  BY DEF ExpirationsMatch
<1>4. \A k \in Keys : buckets[k].reset \in Nat
  BY <1>1 DEF Bucket
<1>5. ASSUME NEW k \in Keys
      PROVE  \/ Live(t)[k] = buckets[k] /\ buckets[k] # NoBucket /\ buckets[k].reset > t
             \/ /\ Live(t)[k] = NoBucket
                /\ buckets[k] = NoBucket \/ buckets[k].reset <= t
  BY <1>3, <1>4 DEF Live, Popped, Expiration
<1>6. expirations \ Popped(t) =
        {Expiration(k, Live(t)[k].reset) : k \in {x \in Keys : Live(t)[x] # NoBucket}}
  <2>1. ASSUME NEW x \in expirations \ Popped(t)
        PROVE  x \in {Expiration(k, Live(t)[k].reset) : k \in {y \in Keys : Live(t)[y] # NoBucket}}
    <3>1. PICK k \in Keys : buckets[k] # NoBucket /\ x = Expiration(k, buckets[k].reset)
      BY DEF ExpirationsMatch
    <3>2. buckets[k].reset > t
      BY <3>1, <1>4 DEF Popped, Expiration
    <3>3. Live(t)[k] = buckets[k]
      BY <3>2, <1>4, <1>5
    <3> QED BY <3>1, <3>3
  <2>2. ASSUME NEW k \in Keys, Live(t)[k] # NoBucket
        PROVE  Expiration(k, Live(t)[k].reset) \in expirations \ Popped(t)
    <3>1. Live(t)[k] = buckets[k] /\ buckets[k] # NoBucket /\ buckets[k].reset > t
      BY <2>2, <1>5
    <3> QED BY <3>1, <1>3, <1>4 DEF Popped, Expiration
  <2> QED BY <2>1, <2>2
<1>7. IsFiniteSet({k \in Keys : Live(t)[k] # NoBucket}) /\ Held(Live(t)) <= MaxKeys
      /\ Held(Live(t)) \in Nat
  <2>1. {k \in Keys : Live(t)[k] # NoBucket} \subseteq Holding
    BY <1>5 DEF Holding
  <2>2. /\ IsFiniteSet({k \in Keys : Live(t)[k] # NoBucket})
        /\ Cardinality({k \in Keys : Live(t)[k] # NoBucket}) <= Cardinality(Holding)
    BY <2>1, FS_Subset
  <2>3. Cardinality(Holding) <= MaxKeys
    BY DEF ExpirationsMatch, Held, Holding
  <2>4. Cardinality(Holding) \in Nat /\ Cardinality({k \in Keys : Live(t)[k] # NoBucket}) \in Nat
    BY <2>2, FS_CardinalityType
  <2> QED BY <2>2, <2>3, <2>4 DEF Held
<1> QED BY <1>2, <1>5, <1>6, <1>7

\* The three outcomes of Take for the bucket b of its key.
LEMMA TakenBucket ==
  ASSUME TypeOK, Started, ExpirationsMatch, IsFiniteSet(Holding),
         NEW t \in Nat, NEW k \in Keys
  PROVE  /\ bucket(k, t, Live(t)).reset \in Nat
         /\ Fresh(k, t, Live(t)) <=> Live(t)[k] = NoBucket
         /\ Fresh(k, t, Live(t)) =>
              bucket(k, t, Live(t)) = [count |-> 0, reset |-> t + Window]
         /\ ~Fresh(k, t, Live(t)) =>
              /\ bucket(k, t, Live(t)) = buckets[k] /\ buckets[k] # NoBucket
              /\ buckets[k].count \in 1..Limit
<1>1. buckets[k] \in Bucket /\ buckets[k].count \in 0..Limit /\ buckets[k].reset \in Nat
  BY DEF TypeOK, Bucket
<1>2. \/ Live(t)[k] = buckets[k] /\ buckets[k] # NoBucket /\ buckets[k].reset > t
      \/ Live(t)[k] = NoBucket
  BY LiveBuckets
<1>3. Fresh(k, t, Live(t)) <=> Live(t)[k] = NoBucket
  BY <1>1, <1>2 DEF Fresh
<1>4. CASE Live(t)[k] = NoBucket
  BY <1>3, <1>4 DEF bucket
<1>5. CASE Live(t)[k] # NoBucket
  BY <1>1, <1>2, <1>3, <1>5 DEF bucket, Started
<1> QED BY <1>3, <1>4, <1>5

-----------------------------------------------------------------------------
(* The invariant is inductive.                                             *)

LEMMA Initial == Init => IInv
<1> SUFFICES ASSUME Init PROVE IInv
  OBVIOUS
<1>1. /\ NoBucket \in Bucket /\ NoBucket \in Row
      /\ buckets = [k \in Keys |-> NoBucket] /\ rows = [k \in Keys |-> NoBucket]
  BY DEF NoBucket, Bucket, Row, Init
<1>2. TypeOK
  BY <1>1 DEF Init, TypeOK, Stores
<1>3. Standing /\ Started
  BY <1>1 DEF Init, Standing, Started
<1>4. Holding = {} /\ Held(buckets) = 0
  <2>1. Holding = {} /\ {k \in Keys : buckets[k] # NoBucket} = {}
    BY <1>1 DEF Holding
  <2> QED BY <2>1, FS_EmptySet DEF Held
<1>5. expirations = {} /\ MaxKeys \in Nat
  BY DEF Init
<1>6. ExpirationsMatch
  BY <1>1, <1>4, <1>5 DEF ExpirationsMatch
<1> QED BY <1>2, <1>3, <1>4, <1>6, FS_EmptySet DEF IInv

\* A step that leaves the memory store alone, and whose rows still count.
LEMMA OutsideMemory ==
  ASSUME IInv, TypeOK', Standing', UNCHANGED memory,
         \A k \in Keys : rows'[k] # NoBucket => rows'[k].count >= 1
  PROVE  IInv'
<1>1. Started'
  BY DEF IInv, Started, memory
<1>2. ExpirationsMatch' /\ Holding' = Holding
  BY DEF IInv, ExpirationsMatch, memory, Holding, Held
<1> QED BY <1>1, <1>2 DEF IInv

LEMMA UpsertedRow ==
  ASSUME TypeOK, Started, NEW k \in Keys, NEW t \in Nat
  PROVE  /\ upsert(k, t) \in Row /\ upsert(k, t).count >= 1
         /\ [rows EXCEPT ![k] = upsert(k, t)] \in [Keys -> Row]
<1>1. rows \in [Keys -> Row] /\ rows[k].count \in 0..(Limit + 1) /\ rows[k].reset \in Nat
  BY DEF TypeOK, Row
<1>2. CASE rows[k] = NoBucket \/ rows[k].reset <= t
  <2>1. t + windowSeconds \in Nat
    BY WindowRoundsUp
  <2> QED BY <1>1, <1>2, <2>1 DEF upsert, Row
<1>3. CASE ~(rows[k] = NoBucket \/ rows[k].reset <= t)
  <2>1. upsert(k, t) = [rows[k] EXCEPT !.count = IF @ <= Limit THEN @ + 1 ELSE @]
    BY <1>3 DEF upsert
  <2> QED BY <1>1, <1>3, <2>1 DEF Row, Started
<1> QED BY <1>1, <1>2, <1>3

\* Whatever ends with an answer leaves the request where it was told.
LEMMA Answered ==
  ASSUME TypeOK, Standing, NEW r \in Requests,
         NEW a \in {"allowed", "denied", "full", "unavailable"},
         Answer(r, a), UNCHANGED <<inputs, clock>>
  PROVE  /\ Standing'
         /\ pc' \in [Requests -> {"new", "take", "cleanup", "query", "upsert", "done"}]
         /\ reading' \in [Requests -> Nat]
         /\ answer' \in [Requests -> {"none", "allowed", "denied", "full", "unavailable"}]
BY DEF TypeOK, Standing, Answer, Goto, inputs

LEMMA TakeStep ==
  ASSUME IInv, NEW r \in Requests, TakeFull(r) \/ Take(r)
  PROVE  IInv'
<1> DEFINE t == reading[r]
           k == key[r]
           live == Live(t)
           b == bucket(k, t, live)
<1>1. TypeOK /\ Standing /\ Started /\ ExpirationsMatch /\ IsFiniteSet(Holding)
  BY DEF IInv
<1>2. t \in Nat /\ k \in Keys
  BY <1>1 DEF TypeOK
<1>3. /\ live \in [Keys -> Bucket]
      /\ \A x \in Keys : live[x] # NoBucket => live[x] = buckets[x] /\ live[x].count >= 1
      /\ expirations \ Popped(t) =
           {Expiration(x, live[x].reset) : x \in {y \in Keys : live[y] # NoBucket}}
      /\ IsFiniteSet({x \in Keys : live[x] # NoBucket})
      /\ Held(live) <= MaxKeys /\ Held(live) \in Nat
  BY <1>1, <1>2, LiveBuckets DEF Started
<1>4. PICK a \in {"allowed", "denied", "full"} : Answer(r, a)
  BY DEF TakeFull, Take
<1>5. UNCHANGED <<inputs, clock, database>>
  BY DEF TakeFull, Take
<1>6. /\ Standing' /\ reading' \in [Requests -> Nat]
      /\ pc' \in [Requests -> {"new", "take", "cleanup", "query", "upsert", "done"}]
      /\ answer' \in [Requests -> {"none", "allowed", "denied", "full", "unavailable"}]
  BY <1>1, <1>4, <1>5, Answered
<1>7. /\ buckets' \in [Keys -> Bucket]
      /\ \A x \in Keys : buckets'[x] # NoBucket => buckets'[x].count >= 1
      /\ expirations' = {Expiration(x, buckets'[x].reset) : x \in {y \in Keys : buckets'[y] # NoBucket}}
      /\ IsFiniteSet({x \in Keys : buckets'[x] # NoBucket})
      /\ Cardinality({x \in Keys : buckets'[x] # NoBucket}) <= MaxKeys
  <2>1. CASE TakeFull(r)
    <3>1. buckets' = live /\ expirations' = expirations \ Popped(t)
      BY <2>1 DEF TakeFull
    <3> HIDE DEF live
    <3> QED BY <1>3, <3>1 DEF Held
  <2>2. CASE Take(r)
    <3>1. /\ ~Full(k, live)
          /\ buckets' = [live EXCEPT ![k] = IF b.count < Limit THEN [b EXCEPT !.count = @ + 1] ELSE b]
          /\ expirations' = (expirations \ Popped(t)) \cup
               (IF Fresh(k, t, live) THEN {Expiration(k, b.reset)} ELSE {})
      BY <2>2 DEF Take
    <3>2. /\ b.reset \in Nat /\ (Fresh(k, t, live) <=> live[k] = NoBucket)
          /\ Fresh(k, t, live) => b = [count |-> 0, reset |-> t + Window]
          /\ ~Fresh(k, t, live) => b = buckets[k] /\ buckets[k] # NoBucket /\ b.count \in 1..Limit
      BY <1>1, <1>2, TakenBucket
    <3>3. PICK new \in Bucket :
            /\ new.count >= 1 /\ new.reset = b.reset /\ new # NoBucket
            /\ buckets' = [live EXCEPT ![k] = new]
      <4>1. b \in Bucket
        BY <1>1, <1>2, <3>2 DEF Bucket, TypeOK
      <4>2. CASE b.count < Limit
        <5> DEFINE new == [b EXCEPT !.count = @ + 1]
        <5>1. new \in Bucket /\ new.count = b.count + 1 /\ new.reset = b.reset
          BY <4>1, <4>2 DEF Bucket
        <5>2. new.count >= 1 /\ new # NoBucket
          BY <4>1, <5>1 DEF Bucket, NoBucket
        <5>3. buckets' = [live EXCEPT ![k] = new]
          BY <3>1, <4>2
        <5> QED BY <5>1, <5>2, <5>3
      <4>3. CASE b.count >= Limit
        <5>1. b.count >= 1 /\ b # NoBucket
          BY <4>1, <4>3 DEF Bucket, NoBucket
        <5>2. buckets' = [live EXCEPT ![k] = b]
          BY <3>1, <4>1, <4>3 DEF Bucket
        <5> QED BY <4>1, <5>1, <5>2
      <4> QED BY <4>1, <4>2, <4>3 DEF Bucket
    <3> HIDE DEF live, b
    <3>4. buckets' \in [Keys -> Bucket] /\ buckets'[k] = new
          /\ \A x \in Keys : x # k => buckets'[x] = live[x]
      BY <1>2, <1>3, <3>3
    <3>5. {x \in Keys : buckets'[x] # NoBucket} = {x \in Keys : live[x] # NoBucket} \cup {k}
      BY <1>2, <3>3, <3>4
    <3>6. live[k] # NoBucket => live[k].reset = b.reset
      BY <1>2, <1>3, <3>2
    <3>7. expirations' = {Expiration(x, buckets'[x].reset) : x \in {y \in Keys : buckets'[y] # NoBucket}}
      <4>1. expirations' = (expirations \ Popped(t)) \cup {Expiration(k, b.reset)}
        <5>1. CASE Fresh(k, t, live)
          BY <3>1, <5>1
        <5>2. CASE ~Fresh(k, t, live)
          BY <1>2, <1>3, <3>1, <3>2, <3>6, <5>2
        <5> QED BY <5>1, <5>2
      <4>2. {Expiration(x, buckets'[x].reset) : x \in {y \in Keys : buckets'[y] # NoBucket}}
              = {Expiration(x, live[x].reset) : x \in {y \in Keys : live[y] # NoBucket}}
                  \cup {Expiration(k, b.reset)}
        BY <1>2, <3>3, <3>4, <3>5, <3>6
      <4> QED BY <1>3, <4>1, <4>2
    <3>8. /\ IsFiniteSet({x \in Keys : buckets'[x] # NoBucket})
          /\ Cardinality({x \in Keys : buckets'[x] # NoBucket}) <= MaxKeys
      <4> DEFINE old == {x \in Keys : live[x] # NoBucket}
      <4>1. IsFiniteSet(old) /\ Cardinality(old) \in Nat /\ Cardinality(old) <= MaxKeys
            /\ (k \notin old => Cardinality(old) < MaxKeys)
        BY <1>2, <1>3, <3>1 DEF Held, Full
      <4> HIDE DEF old
      <4>2. /\ IsFiniteSet(old \cup {k})
            /\ Cardinality(old \cup {k}) = IF k \in old THEN Cardinality(old) ELSE Cardinality(old) + 1
        BY <4>1, FS_AddElement
      <4>3. Cardinality(old \cup {k}) <= MaxKeys
        BY <4>1, <4>2
      <4> QED BY <3>5, <4>2, <4>3 DEF old
    <3>9. \A x \in Keys : buckets'[x] # NoBucket => buckets'[x].count >= 1
      BY <1>3, <3>3, <3>4
    <3> QED BY <3>4, <3>7, <3>8, <3>9
  <2> QED BY <2>1, <2>2
<1> HIDE DEF live, b
<1>8. expirations' \subseteq [key : Keys, reset : Nat]
  BY <1>7 DEF Expiration, Bucket
<1>9. TypeOK'
  BY <1>1, <1>5, <1>6, <1>7, <1>8 DEF TypeOK, inputs, database
<1>10. Started' /\ ExpirationsMatch' /\ IsFiniteSet(Holding')
  BY <1>1, <1>5, <1>7 DEF Started, ExpirationsMatch, Held, Holding, database
<1> QED BY <1>6, <1>9, <1>10 DEF IInv

LEMMA Inductive == ASSUME IInv, [Next]_vars PROVE IInv'
<1>1. TypeOK /\ Standing /\ Started /\ ExpirationsMatch
  BY DEF IInv
<1>2. rows \in [Keys -> Row] /\ \A k \in Keys : rows[k] # NoBucket => rows[k].count >= 1
  BY <1>1 DEF TypeOK, Started
<1>3. /\ Remaining \in [Keys -> Row]
      /\ \A k \in Keys : Remaining[k] # NoBucket => Remaining[k].count >= 1
  <2>1. NoBucket \in Row
    BY DEF NoBucket, Row
  <2> QED BY <1>2, <2>1 DEF Remaining
<1>4. CASE UNCHANGED vars
  <2>1. TypeOK' /\ Standing'
    BY <1>1, <1>4 DEF TypeOK, Standing, vars, inputs, memory, database
  <2> QED BY <1>2, <1>4, <2>1, OutsideMemory DEF vars, memory, database
<1>5. CASE Tick
  <2>1. TypeOK' /\ Standing'
    BY <1>1, <1>5 DEF Tick, TypeOK, Standing, inputs, memory, database
  <2> QED BY <1>2, <1>5, <2>1, OutsideMemory DEF Tick, memory, database
<1>6. ASSUME NEW r \in Requests, Arrive(r) \/ SkipCleanup(r) \/ Query(r)
      PROVE  IInv'
  <2>1. UNCHANGED <<inputs, clock, answer, memory, database>>
    BY <1>6 DEF Arrive, SkipCleanup, Query
  <2>2. TypeOK' /\ Standing'
    BY <1>1, <1>6 DEF Arrive, SkipCleanup, Query, Goto, Read, At,
                      TypeOK, Stores, Standing, inputs, memory, database
  <2> QED BY <1>2, <2>1, <2>2, OutsideMemory DEF memory, database
<1>7. ASSUME NEW r \in Requests, Cleanup(r)
      PROVE  IInv'
  <2>1. UNCHANGED <<inputs, clock, reading, answer, memory>> /\ rows' = Remaining
    BY <1>7 DEF Cleanup
  <2>2. nextCleanup' \in [Processes -> Nat]
    <3>1. Larger(Smaller(Window, Minute), Second) \in Nat /\ reading[r] \in Nat
      BY <1>1 DEF Larger, Smaller, TypeOK
    <3> QED BY <1>1, <1>7, <3>1 DEF Cleanup, TypeOK
  <2>3. TypeOK'
    BY <1>1, <1>3, <1>7, <2>1, <2>2 DEF Cleanup, Goto, TypeOK, inputs, memory
  <2>4. Standing'
    BY <1>1, <1>7, <2>1 DEF Cleanup, At, Goto, Standing, TypeOK, inputs
  <2> QED BY <1>3, <2>1, <2>3, <2>4, OutsideMemory DEF memory
<1>8. ASSUME NEW r \in Requests,
             Refused(r) \/ CleanupFails(r) \/ Upsert(r) \/ UpsertFails(r)
      PROVE  IInv'
  <2>1. /\ UNCHANGED <<inputs, clock, memory, nextCleanup>>
        /\ \E a \in {"allowed", "denied", "unavailable"} : Answer(r, a)
    BY <1>8 DEF Refused, CleanupFails, Upsert, UpsertFails, database
  <2>2. rows' \in {rows, Remaining, [rows EXCEPT ![key[r]] = upsert(key[r], StatementTime(r))]}
    BY <1>8 DEF Refused, CleanupFails, Upsert, UpsertFails, database
  <2>3. key[r] \in Keys /\ StatementTime(r) \in Nat
    BY <1>1, StatementTimes DEF TypeOK
  <2>4. rows' \in [Keys -> Row] /\ \A k \in Keys : rows'[k] # NoBucket => rows'[k].count >= 1
    BY <1>1, <1>2, <1>3, <2>2, <2>3, UpsertedRow
  <2>5. /\ Standing' /\ reading' \in [Requests -> Nat]
        /\ pc' \in [Requests -> {"new", "take", "cleanup", "query", "upsert", "done"}]
        /\ answer' \in [Requests -> {"none", "allowed", "denied", "full", "unavailable"}]
    BY <1>1, <2>1, Answered
  <2>6. TypeOK'
    BY <1>1, <2>1, <2>4, <2>5 DEF TypeOK, inputs, memory
  <2> QED BY <2>1, <2>4, <2>5, <2>6, OutsideMemory
<1> QED BY <1>4, <1>5, <1>6, <1>7, <1>8, TakeStep DEF Next, Step

\* Typed state, the agreement of heap and map, readings behind the clock and
\* counts above zero hold together in every reachable state.
THEOREM Invariance == Spec => []IInv
<1>1. IInv /\ [Next]_vars => IInv'
  BY Inductive
<1> QED BY Initial, <1>1, PTL DEF Spec

\* Every variable keeps its type; counts of ORMStore stay at most one above the
\* limit, so they cannot overflow (orm.go lines 99-109).
THEOREM TypeCorrect == Spec => []TypeOK
<1>1. IInv => TypeOK
  BY DEF IInv
<1> QED BY <1>1, Invariance, PTL

\* The heap and the map of MemoryStore always say the same, and stay within
\* MaxKeys (memory.go lines 68-87).
THEOREM HeapFollowsMap == Spec => []ExpirationsMatch
<1>1. IInv => ExpirationsMatch
  BY DEF IInv
<1> QED BY <1>1, Invariance, PTL

\* A new key is turned away only while MaxKeys windows of others run
\* (memory.go lines 76-79).
THEOREM FullMeansFull == Spec => FullOnlyWhenFull
<1>1. ASSUME IInv, [Next]_vars, NEW r \in Requests, answer[r] # "full", answer'[r] = "full"
      PROVE  \E S \in SUBSET (Keys \ {key[r]}) :
               /\ Cardinality(S) = MaxKeys
               /\ \A k \in S : buckets[k].reset > reading[r]
  <2>1. TypeOK /\ ExpirationsMatch /\ IsFiniteSet(Holding) /\ reading[r] \in Nat
    BY <1>1 DEF IInv, TypeOK
  <2>2. TakeFull(r)
    <3>1. PICK q \in Requests : Step(q)
      BY <1>1 DEF Next, Tick, vars
    <3>2. TakeFull(q) /\ Answer(q, "full")
      BY <1>1, <2>1, <3>1 DEF Step, Arrive, Refused, TakeFull, Take, SkipCleanup, Cleanup,
             CleanupFails, Query, Upsert, UpsertFails, Answer, TypeOK
    <3>3. q = r
      BY <1>1, <2>1, <3>2 DEF Answer, TypeOK
    <3> QED BY <3>2, <3>3
  <2> DEFINE live == Live(reading[r])
             S == {k \in Keys : live[k] # NoBucket}
  <2>3. live[key[r]] = NoBucket /\ Held(live) >= MaxKeys
    BY <2>2 DEF TakeFull, Full
  <2>4. /\ Held(live) \in Nat /\ Held(live) <= MaxKeys
        /\ \A k \in S : buckets[k].reset > reading[r]
    BY <2>1, LiveBuckets
  <2>5. Cardinality(S) = MaxKeys
    <3>1. Cardinality(S) = Held(live)
      BY DEF Held
    <3> HIDE DEF S, live
    <3> QED BY <2>3, <2>4, <3>1
  <2>6. S \in SUBSET (Keys \ {key[r]})
    BY <2>3
  <2> QED BY <2>4, <2>5, <2>6
<1>2. IInv /\ [Next]_vars =>
        [\A r \in Requests : answer[r] # "full" /\ answer'[r] = "full" =>
           \E S \in SUBSET (Keys \ {key[r]}) :
             /\ Cardinality(S) = MaxKeys
             /\ \A k \in S : buckets[k].reset > reading[r]]_vars
  BY <1>1
<1> QED BY <1>2, Invariance, PTL DEF Spec, FullOnlyWhenFull

-----------------------------------------------------------------------------
(* The refinement.                                                         *)

LEMMA InitRefines == Init => Contract!Init
<1> SUFFICES ASSUME Init PROVE Contract!Init
  OBVIOUS
<1>1. windows = [k \in Keys |-> Contract!NoWindow]
  BY DEF Init, windows, NoBucket, Contract!NoWindow, Smaller
<1>2. told = [r \in Requests |-> "none"]
  BY DEF Init, told
<1> QED BY <1>1, <1>2, AheadOfClock DEF Init, Contract!Init

\* An answer is the contract's answer.
LEMMA ToldStep ==
  ASSUME TypeOK, Standing, NEW r \in Requests, pc[r] # "done",
         NEW a \in {"allowed", "denied", "unavailable", "full"},
         Answer(r, a), UNCHANGED <<inputs, clock>>
  PROVE  Contract!Told(r, IF a = "full" THEN "unavailable" ELSE a)
<1>1. answer \in [Requests -> {"none", "allowed", "denied", "full", "unavailable"}]
      /\ answer[r] = "none" /\ answer' = [answer EXCEPT ![r] = a]
  BY DEF TypeOK, Standing, Answer
<1>2. told[r] = "none" /\ told' = [told EXCEPT ![r] = IF a = "full" THEN "unavailable" ELSE a]
  BY <1>1 DEF told
<1> QED BY <1>2 DEF Contract!Told, inputs, ahead

\* A window whose reset has passed is over.
LEMMA IsOver ==
  ASSUME NEW k \in Keys, clock \in Nat, windows[k].reset \in Nat,
         windows[k].reset <= clock \/ (store # "memory" /\ windows[k].reset <= clock + ahead)
  PROVE  Contract!Over(k)
BY AheadOfClock DEF Contract!Over

LEMMA MemoryRefines ==
  ASSUME IInv, NEW r \in Requests, TakeFull(r) \/ Take(r)
  PROVE  Contract!Next
<1> DEFINE t == reading[r]
           k == key[r]
           live == Live(t)
           b == bucket(k, t, live)
<1>1. TypeOK /\ Standing /\ Started /\ ExpirationsMatch /\ IsFiniteSet(Holding)
  BY DEF IInv
<1>2. t \in Nat /\ k \in Keys /\ t <= clock /\ clock \in Nat
  BY <1>1 DEF TypeOK, Standing
<1>3. windows = buckets /\ windows' = buckets' /\ UNCHANGED <<inputs, clock>> /\ pc[r] # "done"
  BY DEF TakeFull, Take, inputs, windows, At
<1>4. \A x \in Keys : \/ live[x] = buckets[x]
                      \/ live[x] = NoBucket /\ buckets[x].reset <= clock
  <2>1. ASSUME NEW x \in Keys
        PROVE  live[x] = buckets[x] \/ (live[x] = NoBucket /\ buckets[x].reset <= clock)
    <3>1. buckets[x].reset \in Nat
      BY <1>1 DEF TypeOK, Bucket
    <3>2. \/ live[x] = buckets[x]
          \/ live[x] = NoBucket /\ (buckets[x] = NoBucket \/ buckets[x].reset <= t)
      BY <1>1, <1>2, LiveBuckets
    <3>3. buckets[x].reset <= t => buckets[x].reset <= clock
      BY <1>2, <3>1
    <3> QED BY <3>2, <3>3
  <2> QED BY <2>1
<1>5. live \in [Keys -> Bucket]
  BY <1>1, <1>2, LiveBuckets
<1>8. \A x \in Keys : windows[x].reset \in Nat
  BY <1>1, <1>3 DEF TypeOK, Bucket
<1>6. CASE TakeFull(r)
  <2>1. buckets' = live /\ Answer(r, "full")
    BY <1>6 DEF TakeFull
  <2>2. \A x \in Keys : Contract!Kept(x)
    <3> HIDE DEF live
    <3> QED BY <1>2, <1>3, <1>4, <1>8, <2>1, IsOver DEF Contract!Kept, Contract!NoWindow, NoBucket
  <2>3. Contract!Told(r, "unavailable")
    BY <1>1, <1>3, <2>1, ToldStep
  <2> QED BY <2>2, <2>3 DEF Contract!Next, Contract!Fail
<1>7. CASE Take(r)
  <2>1. /\ buckets' = [live EXCEPT ![k] = IF b.count < Limit THEN [b EXCEPT !.count = @ + 1] ELSE b]
        /\ Answer(r, IF b.count < Limit THEN "allowed" ELSE "denied")
    BY <1>7 DEF Take
  <2>2. /\ Fresh(k, t, live) <=> live[k] = NoBucket
        /\ Fresh(k, t, live) => b = [count |-> 0, reset |-> t + Window]
        /\ ~Fresh(k, t, live) => b = buckets[k] /\ buckets[k] # NoBucket /\ b.count \in 1..Limit
    BY <1>1, <1>2, TakenBucket
  <2>3. \A x \in Keys \ {k} : Contract!Kept(x)
    <3> HIDE DEF live, b
    <3> QED BY <1>2, <1>3, <1>4, <1>5, <1>8, <2>1, IsOver
            DEF Contract!Kept, Contract!NoWindow, NoBucket
  <2>4. CASE Fresh(k, t, live)
    <3>1. b = [count |-> 0, reset |-> t + Window] /\ b.count < Limit
      BY <2>2, <2>4
    <3>2. windows'[k] = [count |-> 1, reset |-> t + Window]
      <4> HIDE DEF live, b
      <4> QED BY <1>2, <1>3, <1>5, <2>1, <3>1
    <3>3. windows[k].reset <= clock
      <4>1. buckets[k] = NoBucket \/ buckets[k].reset <= clock
        BY <1>2, <1>4, <2>2, <2>4
      <4> QED BY <1>2, <1>3, <4>1 DEF NoBucket
    <3>4. t + Window \in 0..(clock + ahead + windowSeconds)
      BY <1>2, WindowRoundsUp, AheadOfClock
    <3>5. Contract!Counted(k)
      BY <1>2, <1>8, <3>2, <3>3, <3>4, IsOver DEF Contract!Counted
    <3>6. Contract!Told(r, "allowed")
      BY <1>1, <1>3, <2>1, <3>1, ToldStep
    <3> QED BY <2>3, <3>5, <3>6 DEF Contract!Next, Contract!Consume
  <2>5. CASE ~Fresh(k, t, live)
    <3>1. b = buckets[k] /\ b.count \in 1..Limit /\ live[k] = buckets[k] /\ b \in Bucket
      BY <1>1, <1>2, <1>4, <2>2, <2>5 DEF TypeOK
    <3>2. CASE b.count < Limit
      <4>1. windows'[k] = [windows[k] EXCEPT !.count = @ + 1] /\ windows[k].count \in 1..(Limit - 1)
        <5> HIDE DEF live, b
        <5> QED BY <1>2, <1>3, <1>5, <2>1, <3>1, <3>2
      <4>2. Contract!Told(r, "allowed")
        BY <1>1, <1>3, <2>1, <3>2, ToldStep
      <4> QED BY <2>3, <4>1, <4>2 DEF Contract!Next, Contract!Consume, Contract!Counted
    <3>3. CASE b.count >= Limit
      <4>1. windows'[k] = windows[k] /\ windows[k].count = Limit
        <5>1. b.count = Limit
          BY <3>1, <3>3
        <5>2. ~(b.count < Limit)
          BY <5>1
        <5> HIDE DEF live, b
        <5> QED BY <1>2, <1>3, <1>5, <2>1, <3>1, <5>1, <5>2
      <4>2. Contract!Told(r, "denied")
        <5>1. ~(b.count < Limit)
          BY <3>1, <3>3
        <5> QED BY <1>1, <1>3, <2>1, <5>1, ToldStep
      <4>3. \A x \in Keys : Contract!Kept(x)
        BY <2>3, <4>1 DEF Contract!Kept
      <4> QED BY <4>1, <4>2, <4>3 DEF Contract!Next, Contract!Deny
    <3> QED BY <3>1, <3>2, <3>3
  <2> QED BY <2>4, <2>5
<1> QED BY <1>6, <1>7

\* What upserting does to the window of the key.
LEMMA UpsertRefines ==
  ASSUME IInv, NEW r \in Requests, store # "memory", UNCHANGED <<inputs, clock>>,
         rows' = [rows EXCEPT ![key[r]] = upsert(key[r], StatementTime(r))]
  PROVE  LET row == upsert(key[r], StatementTime(r))
         IN  /\ \A x \in Keys \ {key[r]} : Contract!Kept(x)
             /\ row.count <= Limit => Contract!Counted(key[r])
             /\ row.count > Limit => windows[key[r]].count = Limit
                                     /\ windows'[key[r]] = windows[key[r]]
<1> DEFINE k == key[r]
           t == StatementTime(r)
           row == upsert(k, t)
<1>1. TypeOK /\ Standing /\ Started
  BY DEF IInv
<1>2. t \in Nat /\ t <= clock + ahead /\ k \in Keys /\ clock \in Nat /\ rows \in [Keys -> Row]
  BY <1>1, StatementTimes DEF TypeOK
<1>3. /\ rows[k].count \in 0..(Limit + 1) /\ rows[k].reset \in Nat
      /\ rows[k] # NoBucket => rows[k].count >= 1
  BY <1>1, <1>2 DEF Row, Started
<1>4. windows[k] = [count |-> Smaller(rows[k].count, Limit), reset |-> rows[k].reset]
  BY <1>2 DEF windows
<1>5. windows'[k] = [count |-> Smaller(row.count, Limit), reset |-> row.reset]
  <2>1. rows'[k] = row /\ store' # "memory"
    BY <1>2 DEF inputs
  <2> HIDE DEF row
  <2> QED BY <1>2, <2>1 DEF windows
<1>6. \A x \in Keys \ {k} : Contract!Kept(x)
  BY <1>2 DEF windows, inputs, Contract!Kept
<1>7. CASE rows[k] = NoBucket \/ rows[k].reset <= t
  <2>1. row = [count |-> 1, reset |-> t + windowSeconds]
    BY <1>7 DEF upsert
  <2>2. windows'[k] = [count |-> 1, reset |-> t + windowSeconds]
    BY <1>5, <2>1 DEF Smaller
  <2>3. t + windowSeconds \in 0..(clock + ahead + windowSeconds)
    BY <1>2, WindowRoundsUp, AheadOfClock
  <2>4. windows[k].reset \in Nat /\ windows[k].reset <= clock + ahead
    <3> HIDE DEF t
    <3> QED BY <1>2, <1>3, <1>4, <1>7, AheadOfClock DEF NoBucket
  <2>5. Contract!Counted(k)
    BY <1>2, <2>2, <2>3, <2>4, IsOver DEF Contract!Counted
  <2>6. ~(row.count > Limit)
    BY <2>1
  <2> QED BY <1>6, <2>5, <2>6
<1>8. CASE ~(rows[k] = NoBucket \/ rows[k].reset <= t)
  <2>1. row = [rows[k] EXCEPT !.count = IF @ <= Limit THEN @ + 1 ELSE @]
    BY <1>8 DEF upsert
  <2>2. row.reset = rows[k].reset /\ row.count = IF rows[k].count <= Limit THEN rows[k].count + 1
                                                  ELSE rows[k].count
    BY <1>2, <2>1 DEF Row
  <2>3. rows[k].count >= 1
    BY <1>3, <1>8
  <2>4. CASE row.count <= Limit
    <3>1. windows[k].count = rows[k].count /\ windows[k].count \in 1..(Limit - 1)
      BY <1>3, <1>4, <2>2, <2>3, <2>4 DEF Smaller
    <3>2. windows'[k] = [count |-> rows[k].count + 1, reset |-> rows[k].reset]
      BY <1>3, <1>5, <2>2, <2>3, <2>4 DEF Smaller
    <3>3. windows'[k] = [windows[k] EXCEPT !.count = @ + 1]
      BY <1>4, <3>1, <3>2
    <3>4. Contract!Counted(k)
      BY <3>1, <3>3 DEF Contract!Counted
    <3>5. ~(row.count > Limit)
      BY <1>3, <2>2, <2>4
    <3> QED BY <1>6, <3>4, <3>5
  <2>5. CASE ~(row.count <= Limit)
    <3>1. Smaller(rows[k].count, Limit) = Limit /\ Smaller(row.count, Limit) = Limit
      BY <1>3, <2>2, <2>5 DEF Smaller
    <3> QED BY <1>4, <1>5, <1>6, <2>2, <2>5, <3>1
  <2> QED BY <2>4, <2>5
<1> QED BY <1>7, <1>8

\* Deleting the rows that are over forgets windows that are over.
LEMMA CleanupRefines ==
  ASSUME TypeOK, store # "memory", UNCHANGED <<inputs, clock>>, rows' \in {rows, Remaining}
  PROVE  \A k \in Keys : Contract!Kept(k)
<1> SUFFICES ASSUME NEW k \in Keys PROVE Contract!Kept(k)
  OBVIOUS
<1>1. rows[k].reset \in Nat /\ dbNow \in Nat /\ dbNow <= clock + ahead /\ clock \in Nat
  BY TimesShown DEF TypeOK, Row, dbNow
<1>2. /\ windows[k] = [count |-> Smaller(rows[k].count, Limit), reset |-> rows[k].reset]
      /\ windows'[k] = [count |-> Smaller(rows'[k].count, Limit), reset |-> rows'[k].reset]
  BY DEF windows, inputs
<1>3. rows'[k] = rows[k] \/ (rows'[k] = NoBucket /\ rows[k].reset <= dbNow)
  BY DEF Remaining
<1>4. CASE rows'[k] = rows[k]
  BY <1>2, <1>4 DEF Contract!Kept
<1>5. CASE rows'[k] = NoBucket /\ rows[k].reset <= dbNow
  <2>1. windows'[k] = Contract!NoWindow
    BY <1>2, <1>5 DEF NoBucket, Smaller, Contract!NoWindow
  <2>2. windows[k].reset \in Nat /\ windows[k].reset <= clock + ahead
    BY <1>1, <1>2, <1>5, AheadOfClock
  <2> QED BY <1>1, <2>1, <2>2, IsOver DEF Contract!Kept
<1> QED BY <1>3, <1>4, <1>5

LEMMA DatabaseRefines ==
  ASSUME IInv, NEW r \in Requests,
         Cleanup(r) \/ CleanupFails(r) \/ Upsert(r) \/ UpsertFails(r)
  PROVE  Contract!Next
<1> DEFINE row == upsert(key[r], StatementTime(r))
<1>1. TypeOK /\ Standing /\ key[r] \in Keys
  BY DEF IInv, TypeOK
<1>2. store # "memory" /\ pc[r] # "done" /\ UNCHANGED <<inputs, clock>>
  BY <1>1 DEF Standing, Cleanup, CleanupFails, Upsert, UpsertFails, At
<1>3. CASE Cleanup(r)
  <2>1. rows' = Remaining /\ UNCHANGED answer
    BY <1>3 DEF Cleanup
  <2>2. \A k \in Keys : Contract!Kept(k)
    BY <1>1, <1>2, <2>1, CleanupRefines
  <2>3. UNCHANGED <<clock, key, told>>
    BY <1>2, <2>1 DEF inputs, told
  <2> QED BY <1>2, <2>2, <2>3 DEF Contract!Next, Contract!Forget, ahead, inputs
<1>4. CASE CleanupFails(r)
  <2>1. rows' \in {rows, Remaining} /\ Answer(r, "unavailable")
    BY <1>4 DEF CleanupFails
  <2>2. \A k \in Keys : Contract!Kept(k)
    BY <1>1, <1>2, <2>1, CleanupRefines
  <2>3. Contract!Told(r, "unavailable")
    BY <1>1, <1>2, <2>1, ToldStep
  <2> QED BY <2>2, <2>3 DEF Contract!Next, Contract!Fail
<1>5. CASE Upsert(r)
  <2>1. /\ rows' = [rows EXCEPT ![key[r]] = row]
        /\ Answer(r, IF row.count <= Limit THEN "allowed" ELSE "denied")
    BY <1>5 DEF Upsert
  <2>2. /\ \A x \in Keys \ {key[r]} : Contract!Kept(x)
        /\ row.count <= Limit => Contract!Counted(key[r])
        /\ row.count > Limit => windows[key[r]].count = Limit
                                /\ windows'[key[r]] = windows[key[r]]
    BY <1>2, <2>1, UpsertRefines
  <2>3. row.count \in Nat
    BY <1>1, StatementTimes, UpsertedRow DEF IInv, Row
  <2> HIDE DEF row
  <2>4. CASE row.count <= Limit
    <3>1. Contract!Told(r, "allowed")
      BY <1>1, <1>2, <2>1, <2>4, ToldStep
    <3> QED BY <2>2, <2>4, <3>1 DEF Contract!Next, Contract!Consume
  <2>5. CASE ~(row.count <= Limit)
    <3>1. Contract!Told(r, "denied")
      BY <1>1, <1>2, <2>1, <2>5, ToldStep
    <3>2. windows[key[r]].count = Limit /\ windows'[key[r]] = windows[key[r]]
      BY <2>2, <2>3, <2>5
    <3>3. \A x \in Keys : Contract!Kept(x)
      BY <2>2, <3>2 DEF Contract!Kept
    <3> QED BY <3>1, <3>2, <3>3 DEF Contract!Next, Contract!Deny
  <2> QED BY <2>4, <2>5
<1>6. CASE UpsertFails(r)
  <2>1. Contract!Told(r, "unavailable")
    <3>1. Answer(r, "unavailable")
      BY <1>6 DEF UpsertFails
    <3> QED BY <1>1, <1>2, <3>1, ToldStep
  <2>2. CASE rows' = rows
    <3>1. \A k \in Keys : Contract!Kept(k)
      BY <1>1, <1>2, <2>2, CleanupRefines
    <3> QED BY <2>1, <3>1 DEF Contract!Next, Contract!Fail
  <2>3. CASE rows' = [rows EXCEPT ![key[r]] = row]
    <3>1. /\ \A x \in Keys \ {key[r]} : Contract!Kept(x)
          /\ row.count <= Limit => Contract!Counted(key[r])
          /\ row.count > Limit => windows[key[r]].count = Limit
                                  /\ windows'[key[r]] = windows[key[r]]
      BY <1>2, <2>3, UpsertRefines
    <3>2. row.count \in Nat
      BY <1>1, StatementTimes, UpsertedRow DEF IInv, Row
    <3> HIDE DEF row
    <3>3. CASE row.count <= Limit
      BY <2>1, <3>1, <3>3 DEF Contract!Next, Contract!Consume
    <3>4. CASE ~(row.count <= Limit)
      <4>1. windows'[key[r]] = windows[key[r]]
        BY <3>1, <3>2, <3>4
      <4>2. \A x \in Keys : Contract!Kept(x)
        BY <3>1, <4>1 DEF Contract!Kept
      <4> QED BY <2>1, <4>2 DEF Contract!Next, Contract!Fail
    <3> QED BY <3>3, <3>4
  <2> QED BY <1>6, <2>2, <2>3 DEF UpsertFails
<1> QED BY <1>3, <1>4, <1>5, <1>6

LEMMA StepRefines == ASSUME IInv, [Next]_vars PROVE [Contract!Next]_(Contract!vars)
<1>1. TypeOK /\ Standing
  BY DEF IInv
<1>2. CASE UNCHANGED vars
  BY <1>2 DEF vars, inputs, memory, database, windows, told, ahead, Contract!vars
<1>3. CASE Tick
  <2>1. clock' = clock + 1 /\ UNCHANGED <<ahead, key, windows, told>>
    BY <1>3 DEF Tick, inputs, memory, database, windows, told, ahead
  <2> QED BY <2>1 DEF Contract!Next, Contract!Tick
<1>4. ASSUME NEW r \in Requests, Arrive(r) \/ SkipCleanup(r) \/ Query(r)
      PROVE  UNCHANGED Contract!vars
  BY <1>4 DEF Arrive, SkipCleanup, Query, inputs, memory, database, windows, told, ahead,
              Contract!vars
<1>5. ASSUME NEW r \in Requests, Refused(r)
      PROVE  Contract!Next
  <2>1. Answer(r, "unavailable") /\ UNCHANGED <<inputs, clock>> /\ UNCHANGED windows
        /\ pc[r] # "done"
    BY <1>5 DEF Refused, inputs, memory, database, windows
  <2>2. Contract!Told(r, "unavailable")
    BY <1>1, <2>1, ToldStep
  <2>3. \A k \in Keys : Contract!Kept(k)
    BY <2>1 DEF Contract!Kept
  <2> QED BY <2>2, <2>3 DEF Contract!Next, Contract!Fail
<1> QED BY <1>2, <1>3, <1>4, <1>5, MemoryRefines, DatabaseRefines DEF Next, Step

\* Both stores implement the fixed window: for any limit, window and number of
\* keys, requests and processes, however old the readings, no window lets more
\* than Limit requests through and none is replaced before it is over, on
\* PostgreSQL at most half a second before its reset (memory.go lines 60-88, orm.go
\* lines 48-113).
THEOREM StoresImplementFixedWindow == Spec => ImplementsFixedWindow
BY InitRefines, StepRefines, Invariance, PTL DEF Spec, ImplementsFixedWindow, Contract!Spec
=============================================================================
