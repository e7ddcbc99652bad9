-------------------------- MODULE IdempotencyProofs --------------------------
(***************************************************************************)
(* Safety of the idempotency store for any number of requests, keys and    *)
(* any limits.  The conjuncts of IInv that TypeOK and the run's invariants *)
(* do not state: readings of the clock are never ahead of it (History);    *)
(* the location of a request determines which entry it holds and in what   *)
(* state (Roles); the map points at entries of the right key (Stored); an  *)
(* owner's entry stays in the map until it is completed and past its       *)
(* lifetime (Kept); the next cleanup is never later than the earliest      *)
(* expiry (Scheduled).                                                     *)
(***************************************************************************)
EXTENDS Idempotency, FiniteSetTheorems, TLAPS

History == \A r \in Requests : now[r] <= clock /\ finished[r] <= clock

Roles ==
  \A r \in Requests :
    /\ pc[r] \in {"new", "acquire"} => current[r] = NoRequest
    /\ pc[r] \in {"handler", "completing", "writing"} => current[r] = r
    /\ pc[r] \in {"waiting", "replaying"} =>
         current[r] \in Requests /\ current[r] # r
    /\ current[r] # NoRequest =>
         current[current[r]] = current[r] /\ request[current[r]] = request[r]
    /\ pc[r] = "handler" => ~entry[r].completed
    /\ pc[r] = "writing" => entry[r].completed
    /\ pc[r] = "done" /\ current[r] = r => entry[r].completed
    /\ pc[r] = "replaying" \/ reply[r].kind = "replayed" =>
         /\ current[r] \in Requests /\ current[r] # r
         /\ entry[current[r]].completed /\ now[r] < entry[current[r]].expires
    /\ reply[r].kind = "replayed" =>
         pc[r] = "done" /\ reply[r].response = entry[current[r]].response
    /\ reply[r].kind = "panicked" =>
         pc[r] = "done" /\ current[r] \in Requests /\ entry[current[r]].completed
    /\ entry[r].fingerprint = request[r].fingerprint
    /\ entry[r].completed => current[r] = r

Stored ==
  \A k \in Keys : entries[k] # NoRequest =>
    current[entries[k]] = entries[k] /\ request[entries[k]].key = k

Kept ==
  \A r \in Requests : current[r] = r =>
    \/ entries[request[r].key] = r
    \/ entry[r].completed /\ entry[r].expires <= clock

Scheduled ==
  \A k \in Completed : 0 < nextCleanup /\ nextCleanup <= entry[entries[k]].expires

IInv == TypeOK /\ History /\ Roles /\ Stored /\ Kept /\ Scheduled

USE ConstantsAssumption
-----------------------------------------------------------------------------
(* The cleanup and the lookup at the head of every pass of acquire.        *)

\* cleanup leaves the schedule at or before the expiry of whatever remains.
LEMMA CleanupSchedules ==
  ASSUME IInv, NEW t \in Nat, cleanup(t)
  PROVE  /\ nextCleanup' \in Nat
         /\ \A k \in Completed \ Removed(t) :
              0 < nextCleanup' /\ nextCleanup' <= entry[entries[k]].expires
<1>1. \A k \in Completed : entry[entries[k]].expires \in Nat
  BY DEF IInv, TypeOK, Completed, Present, Entry
<1>2. CASE cleanupDue(t)
  <2> DEFINE T == {t + Minute} \cup {entry[entries[k]].expires : k \in Completed \ Expired(t)}
  <2>1. nextCleanup' \in Earliest(T)
    BY <1>2 DEF cleanup
  <2>2. \A u \in T : u \in Nat /\ u > 0
    <3>1. \A k \in Completed \ Expired(t) : entry[entries[k]].expires > t
      BY <1>1 DEF Expired
    <3> QED BY <1>1, <3>1
  <2>3. nextCleanup' \in T /\ \A u \in T : nextCleanup' <= u
    BY <2>1 DEF Earliest
  <2> QED BY <1>2, <2>2, <2>3 DEF Removed
<1>3. CASE ~cleanupDue(t)
  BY <1>3 DEF cleanup, IInv, TypeOK, Scheduled
<1> QED BY <1>2, <1>3

\* What a pass finds is what the map holds for the key; a completed entry it
\* finds is not past its lifetime at the request's reading of the clock.
LEMMA FoundAlive ==
  ASSUME IInv, NEW r \in Requests, Found(r) # NoRequest
  PROVE  /\ Found(r) = entries[Key(r)]
         /\ Found(r) \in Requests
         /\ current[Found(r)] = Found(r)
         /\ request[Found(r)].key = Key(r)
         /\ entry[Found(r)].completed => now[r] < entry[Found(r)].expires
<1>1. Key(r) \in Keys /\ now[r] \in Nat
  BY DEF IInv, TypeOK, Key
<1>2. Key(r) \notin Removed(now[r]) /\ Found(r) = entries[Key(r)]
  BY <1>1 DEF Found, Remaining
<1>3. Found(r) \in Requests
  BY <1>1, <1>2 DEF IInv, TypeOK
<1>4. current[Found(r)] = Found(r) /\ request[Found(r)].key = Key(r)
  BY <1>1, <1>2 DEF IInv, Stored
<1>5. ASSUME entry[Found(r)].completed
      PROVE  now[r] < entry[Found(r)].expires
  <2>1. Key(r) \in Completed
    BY <1>1, <1>2, <1>3, <1>5 DEF Completed, Present
  <2>2. entry[Found(r)].expires \in Nat
    BY <1>3 DEF IInv, TypeOK, Entry
  <2>3. CASE cleanupDue(now[r])
    BY <2>1, <2>2, <2>3, <1>1, <1>2 DEF Removed, Expired
  <2>4. CASE ~cleanupDue(now[r])
    BY <2>1, <2>2, <2>4, <1>1, <1>2 DEF cleanupDue, IInv, Scheduled, TypeOK
  <2> QED BY <2>3, <2>4
<1> QED BY <1>2, <1>3, <1>4, <1>5

\* What a pass of acquire drops is completed and past its lifetime on the
\* real clock, although it is dropped by a possibly stale reading.
LEMMA RemovedDead ==
  ASSUME IInv, NEW r \in Requests, NEW k \in Removed(now[r])
  PROVE  /\ k \in Keys /\ entries[k] \in Requests
         /\ entry[entries[k]].completed /\ entry[entries[k]].expires <= clock
<1>1. k \in Expired(now[r])
  BY DEF Removed
<1>2. /\ k \in Keys /\ entries[k] # NoRequest /\ entry[entries[k]].completed
      /\ now[r] >= entry[entries[k]].expires
  BY <1>1 DEF Expired, Completed, Present
<1>3. entries[k] \in Requests
  BY <1>2 DEF IInv, TypeOK
<1>4. entry[entries[k]].expires \in Nat /\ now[r] \in Nat /\ clock \in Nat /\ now[r] <= clock
  BY <1>3 DEF IInv, TypeOK, Entry, History
<1> QED BY <1>2, <1>3, <1>4

-----------------------------------------------------------------------------
(* Every action preserves the invariant.                                   *)

\* A request is its key and its fingerprint.
LEMMA SameRequest ==
  ASSUME TypeOK, NEW r \in Requests, NEW s \in Requests,
         request[r].key = request[s].key,
         request[r].fingerprint = request[s].fingerprint
  PROVE  request[r] = request[s]
<1>1. \A q \in [key : Keys, fingerprint : Fingerprints] :
        q = [key |-> q.key, fingerprint |-> q.fingerprint]
  OBVIOUS
<1> QED BY <1>1 DEF TypeOK

\* A waiter slot taken or given back leaves the rest of the entry alone.
LEMMA WaiterSlot ==
  ASSUME TypeOK, NEW s \in Requests, NEW n \in {1, -1},
         entry' = [entry EXCEPT ![s].waiters = @ + n]
  PROVE  /\ entry' \in [Requests -> Entry]
         /\ \A q \in Requests : /\ entry'[q].completed = entry[q].completed
                                /\ entry'[q].expires = entry[q].expires
                                /\ entry'[q].response = entry[q].response
                                /\ entry'[q].fingerprint = entry[q].fingerprint
<1>1. entry[s] \in Entry
  BY DEF TypeOK
<1>2. [entry[s] EXCEPT !.waiters = @ + n] \in Entry
  BY <1>1 DEF Entry
<1>3. entry' = [entry EXCEPT ![s] = [entry[s] EXCEPT !.waiters = @ + n]]
  OBVIOUS
<1>4. entry' \in [Requests -> Entry]
  BY <1>2, <1>3 DEF TypeOK
<1>5. ASSUME NEW q \in Requests
      PROVE  /\ entry'[q].completed = entry[q].completed
             /\ entry'[q].expires = entry[q].expires
             /\ entry'[q].response = entry[q].response
             /\ entry'[q].fingerprint = entry[q].fingerprint
  BY <1>1, <1>3 DEF TypeOK, Entry
<1> QED BY <1>4, <1>5

LEMMA InitInv == Init => IInv
<1> SUFFICES ASSUME Init PROVE IInv
  OBVIOUS
<1>1. TypeOK
  BY DEF Init, TypeOK, Locations, Replies, NoReply, NoResponse, Response,
         Bodies, Entry, newEntry
<1>2. History /\ Roles /\ Stored /\ Kept /\ Scheduled
  BY DEF Init, History, Roles, Stored, Kept, Scheduled, Completed, Present,
         NoReply, NoResponse, newEntry
<1> QED BY <1>1, <1>2 DEF IInv

LEMMA AnswerTypes ==
  ASSUME TypeOK, NEW r \in Requests, NEW kind \in Replies, NEW response \in Response,
         Answer(r, kind, response)
  PROVE  /\ pc' \in [Requests -> Locations]
         /\ reply' \in [Requests -> [kind : Replies, response : Response]]
         /\ captured' \in [Requests -> Response]
         /\ finished' \in [Requests -> Nat]
BY DEF TypeOK, Answer, Locations, NoResponse, Response, Bodies

LEMMA EnterStep ==
  ASSUME IInv, NEW r \in Requests, Arrive(r) \/ ScreenOut(r)
  PROVE  IInv'
<1> USE DEF IInv
<1>1. CASE Arrive(r)
  <2>1. TypeOK'
    BY <1>1 DEF TypeOK, Arrive, Locations, store
  <2>2. History' /\ Stored' /\ Kept' /\ Scheduled'
    BY <1>1 DEF Arrive, TypeOK, History, Stored, Kept, Scheduled, Completed, Present, store
  <2>3. Roles'
    BY <1>1 DEF Arrive, TypeOK, Roles, store
  <2> QED BY <2>1, <2>2, <2>3
<1>2. CASE ScreenOut(r)
  <2> NoResponse \in Response /\ "screened" \in Replies
    BY DEF NoResponse, Response, Bodies, Replies
  <2>1. TypeOK'
    BY <1>2, AnswerTypes DEF TypeOK, ScreenOut, store
  <2>2. History' /\ Stored' /\ Kept' /\ Scheduled'
    BY <1>2 DEF ScreenOut, Answer, TypeOK, History, Stored, Kept, Scheduled, Completed,
                Present, store
  <2>3. Roles'
    BY <1>2 DEF ScreenOut, Answer, TypeOK, Roles, store
  <2> QED BY <2>1, <2>2, <2>3
<1> QED BY <1>1, <1>2

\* The part of a pass of acquire that every outcome shares: the map loses dead
\* entries only, and the schedule covers what is left.
LEMMA PassFacts ==
  ASSUME IInv, NEW r \in Requests, AcquirePass(r)
  PROVE  /\ Remaining(now[r]) \in [Keys -> Requests \cup {NoRequest}]
         /\ nextCleanup' \in Nat
         /\ \A k \in Keys :
              \/ /\ Remaining(now[r])[k] = entries[k]
                 /\ k \in Completed => 0 < nextCleanup'
                                       /\ nextCleanup' <= entry[entries[k]].expires
              \/ /\ Remaining(now[r])[k] = NoRequest
                 /\ entries[k] \in Requests /\ entry[entries[k]].completed
                 /\ entry[entries[k]].expires <= clock
<1>1. now[r] \in Nat /\ cleanup(now[r])
  BY DEF IInv, TypeOK, AcquirePass
<1>2. Remaining(now[r]) \in [Keys -> Requests \cup {NoRequest}]
  BY DEF IInv, TypeOK, Remaining
<1>3. ASSUME NEW k \in Keys, k \notin Removed(now[r])
      PROVE  /\ Remaining(now[r])[k] = entries[k]
             /\ k \in Completed => 0 < nextCleanup'
                                   /\ nextCleanup' <= entry[entries[k]].expires
  BY <1>1, <1>3, CleanupSchedules DEF Remaining
<1>4. ASSUME NEW k \in Keys, k \in Removed(now[r])
      PROVE  /\ Remaining(now[r])[k] = NoRequest
             /\ entries[k] \in Requests /\ entry[entries[k]].completed
             /\ entry[entries[k]].expires <= clock
  BY <1>4, RemovedDead DEF Remaining
<1> QED BY <1>1, <1>2, <1>3, <1>4, CleanupSchedules

\* The outcomes that leave the entry objects alone but for a waiter count, and
\* the map as the cleanup left it.
LEMMA PassKeepsStore ==
  ASSUME IInv, NEW r \in Requests, AcquirePass(r),
         entries' = Remaining(now[r]),
         \A s \in Requests : /\ entry'[s].completed = entry[s].completed
                             /\ entry'[s].expires = entry[s].expires,
         \A s \in Requests : s # r => current'[s] = current[s],
         current[r] = NoRequest, current'[r] # r
  PROVE  Stored' /\ Kept' /\ Scheduled'
<1> USE DEF IInv
<1>1. UNCHANGED <<clock, request, now>>
  BY DEF AcquirePass
<1>2. \A k \in Keys : entries'[k] # NoRequest =>
        entries'[k] = entries[k] /\ entries[k] \in Requests /\ entries[k] # r
  BY PassFacts DEF TypeOK, Stored
<1>3. Stored'
  BY <1>1, <1>2 DEF Stored
<1>4. Kept'
  <2> SUFFICES ASSUME NEW s \in Requests, current'[s] = s
               PROVE  \/ entries'[request[s].key] = s
                      \/ entry'[s].completed /\ entry'[s].expires <= clock
    BY <1>1 DEF Kept
  <2>1. s # r /\ current[s] = s /\ request[s].key \in Keys
    BY DEF TypeOK
  <2>2. entry[s].completed /\ entry[s].expires <= clock => entry'[s].completed /\ entry'[s].expires <= clock
    OBVIOUS
  <2>3. \/ entries[request[s].key] = s
        \/ entry[s].completed /\ entry[s].expires <= clock
    BY <2>1 DEF Kept
  <2>4. \/ entries'[request[s].key] = entries[request[s].key]
        \/ /\ entry[entries[request[s].key]].completed
           /\ entry[entries[request[s].key]].expires <= clock
    BY <2>1, PassFacts
  <2> QED BY <2>2, <2>3, <2>4
<1>5. Scheduled'
  <2> SUFFICES ASSUME NEW k \in Keys, entries'[k] # NoRequest, entry'[entries'[k]].completed
               PROVE  0 < nextCleanup' /\ nextCleanup' <= entry'[entries'[k]].expires
    BY DEF Scheduled, Completed, Present
  <2>1. entries'[k] = entries[k] /\ entries[k] \in Requests
    BY <1>2
  <2>2. k \in Completed
    BY <2>1 DEF Completed, Present
  <2> QED BY <2>1, <2>2, PassFacts
<1> QED BY <1>3, <1>4, <1>5

LEMMA AcquireOwnStep ==
  ASSUME IInv, NEW r \in Requests, AcquireOwn(r)
  PROVE  IInv'
<1> USE DEF IInv
<1>1. AcquirePass(r) /\ pc[r] = "acquire" /\ UNCHANGED <<clock, request, now>>
  BY DEF AcquireOwn, AcquirePass
<1>2. Key(r) \in Keys /\ request[r].key = Key(r) /\ Remaining(now[r])[Key(r)] = NoRequest
  BY DEF AcquireOwn, Found, TypeOK, Key
<1>3. /\ entries' = [Remaining(now[r]) EXCEPT ![Key(r)] = r]
      /\ current' = [current EXCEPT ![r] = r]
      /\ current[r] = NoRequest
      /\ entry' = [entry EXCEPT ![r] = newEntry(request[r].fingerprint)]
  BY <1>1 DEF AcquireOwn, Roles
<1>4. \A s \in Requests : current[s] # r
  BY <1>3 DEF Roles
<1>5. \A k \in Keys : entries[k] # r
  BY <1>3 DEF Stored
<1>6. TypeOK'
  <2>1. entries' \in [Keys -> Requests \cup {NoRequest}] /\ nextCleanup' \in Nat
    BY <1>1, <1>3, PassFacts
  <2>2. newEntry(request[r].fingerprint) \in Entry
    BY DEF TypeOK, newEntry, Entry, NoResponse, Response, Bodies
  <2> QED BY <1>1, <2>1, <2>2 DEF AcquireOwn, TypeOK, Locations
<1>7. History'
  BY <1>1 DEF AcquireOwn, History
<1>8. Roles'
  BY <1>1, <1>3, <1>4 DEF AcquireOwn, Roles, TypeOK, newEntry
<1>9. Stored'
  BY <1>1, <1>2, <1>3, PassFacts DEF Stored, TypeOK
<1>10. Kept'
  <2> SUFFICES ASSUME NEW s \in Requests, s # r, current[s] = s
               PROVE  \/ entries'[request[s].key] = s
                      \/ entry'[s].completed /\ entry'[s].expires <= clock
    BY <1>1, <1>2, <1>3, PassFacts DEF Kept, TypeOK
  <2>1. entry'[s] = entry[s] /\ request[s].key \in Keys
    BY <1>3 DEF TypeOK
  <2>2. CASE request[s].key = Key(r)
    BY <2>1, <2>2, <1>1, <1>2, PassFacts DEF Kept
  <2>3. CASE request[s].key # Key(r)
    BY <2>1, <2>3, <1>1, <1>2, <1>3, PassFacts DEF Kept
  <2> QED BY <2>2, <2>3
<1>11. Scheduled'
  <2> SUFFICES ASSUME NEW k \in Keys, entries'[k] # NoRequest, entry'[entries'[k]].completed
               PROVE  0 < nextCleanup' /\ nextCleanup' <= entry'[entries'[k]].expires
    BY DEF Scheduled, Completed, Present
  <2>1. entries'[k] # r
    BY <1>3 DEF newEntry, TypeOK
  <2>2. entries'[k] = entries[k] /\ k \in Completed /\ entry'[entries'[k]] = entry[entries[k]]
    BY <2>1, <1>1, <1>2, <1>3, PassFacts DEF Completed, Present, TypeOK
  <2> QED BY <2>1, <2>2, <1>1, <1>3, PassFacts
<1> QED BY <1>6, <1>7, <1>8, <1>9, <1>10, <1>11

LEMMA AcquireRefusedStep ==
  ASSUME IInv, NEW r \in Requests, AcquireUnavailable(r) \/ AcquireConflict(r)
  PROVE  IInv'
<1> USE DEF IInv
<1>1. /\ AcquirePass(r) /\ pc[r] = "acquire" /\ UNCHANGED <<clock, request, now>>
      /\ entries' = Remaining(now[r]) /\ UNCHANGED <<entry, current>>
      /\ current[r] = NoRequest
  BY DEF AcquireUnavailable, AcquireConflict, AcquirePass, Roles
<1>2. PICK kind \in {"unavailable", "conflict"} : Answer(r, kind, NoResponse)
  BY DEF AcquireUnavailable, AcquireConflict
<1>3. kind \in Replies /\ kind # "replayed" /\ NoResponse \in Response
  BY DEF Replies, NoResponse, Response, Bodies
<1>4. TypeOK'
  BY <1>1, <1>2, <1>3, AnswerTypes, PassFacts DEF TypeOK
<1>5. History'
  BY <1>1, <1>2 DEF Answer, History, TypeOK
<1>6. Roles'
  BY <1>1, <1>2, <1>3 DEF Answer, Roles, TypeOK
<1>7. Stored' /\ Kept' /\ Scheduled'
  BY <1>1, PassKeepsStore
<1> QED BY <1>4, <1>5, <1>6, <1>7

LEMMA AcquireReplayStep ==
  ASSUME IInv, NEW r \in Requests, AcquireReplay(r)
  PROVE  IInv'
<1> USE DEF IInv
<1>1. /\ AcquirePass(r) /\ pc[r] = "acquire" /\ UNCHANGED <<clock, request, now>>
      /\ entries' = Remaining(now[r])
      /\ UNCHANGED <<entry, reply, captured, finished>>
      /\ current' = [current EXCEPT ![r] = Found(r)]
      /\ pc' = [pc EXCEPT ![r] = "replaying"]
      /\ current[r] = NoRequest
  BY DEF AcquireReplay, AcquirePass, Roles
<1>2. /\ Found(r) \in Requests /\ current[Found(r)] = Found(r)
      /\ request[Found(r)].key = request[r].key
      /\ entry[Found(r)].fingerprint = request[r].fingerprint
      /\ entry[Found(r)].completed /\ now[r] < entry[Found(r)].expires
  BY FoundAlive DEF AcquireReplay, Matches, Key
<1>3. Found(r) # r /\ request[Found(r)] = request[r]
  <2>1. Found(r) # r
    BY <1>1, <1>2
  <2>2. entry[Found(r)].fingerprint = request[Found(r)].fingerprint
    BY <1>2 DEF Roles
  <2> QED BY <1>2, <2>1, <2>2, SameRequest
<1>4. TypeOK'
  BY <1>1, <1>2, PassFacts DEF TypeOK, Locations
<1>5. History'
  BY <1>1 DEF History
<1>6. Roles'
  BY <1>1, <1>2, <1>3 DEF Roles, TypeOK
<1>7. Stored' /\ Kept' /\ Scheduled'
  BY <1>1, <1>2, <1>3, PassKeepsStore DEF TypeOK
<1> QED BY <1>4, <1>5, <1>6, <1>7

LEMMA AcquireWaitStep ==
  ASSUME IInv, NEW r \in Requests, AcquireWait(r)
  PROVE  IInv'
<1> USE DEF IInv
<1>1. /\ AcquirePass(r) /\ pc[r] = "acquire" /\ UNCHANGED <<clock, request, now>>
      /\ entries' = Remaining(now[r])
      /\ UNCHANGED <<reply, captured, finished>>
      /\ entry' = [entry EXCEPT ![Found(r)].waiters = @ + 1]
      /\ current' = [current EXCEPT ![r] = Found(r)]
      /\ pc' = [pc EXCEPT ![r] = "waiting"]
      /\ current[r] = NoRequest
  BY DEF AcquireWait, AcquirePass, Roles
<1>2. /\ Found(r) \in Requests /\ current[Found(r)] = Found(r)
      /\ request[Found(r)].key = request[r].key
      /\ entry[Found(r)].fingerprint = request[r].fingerprint
  BY FoundAlive DEF AcquireWait, Matches, Key
<1>3. Found(r) # r /\ request[Found(r)] = request[r]
  <2>1. Found(r) # r
    BY <1>1, <1>2
  <2>2. entry[Found(r)].fingerprint = request[Found(r)].fingerprint
    BY <1>2 DEF Roles
  <2> QED BY <1>2, <2>1, <2>2, SameRequest
<1>4. TypeOK'
  <2>1. entry' \in [Requests -> Entry]
    BY <1>1, <1>2, WaiterSlot
  <2> QED BY <1>1, <1>2, <2>1, PassFacts DEF TypeOK, Locations
<1>5. History'
  BY <1>1 DEF History
<1>6. \A s \in Requests : /\ entry'[s].completed = entry[s].completed
                          /\ entry'[s].expires = entry[s].expires
                          /\ entry'[s].response = entry[s].response
                          /\ entry'[s].fingerprint = entry[s].fingerprint
  BY <1>1, <1>2, WaiterSlot
<1>7. Roles'
  BY <1>1, <1>2, <1>3, <1>6 DEF Roles, TypeOK
<1>8. Stored' /\ Kept' /\ Scheduled'
  BY <1>1, <1>2, <1>3, <1>6, PassKeepsStore DEF TypeOK
<1> QED BY <1>4, <1>5, <1>7, <1>8

\* Both ways out of the select only give the waiter slot back.
LEMMA WaitEndsStep ==
  ASSUME IInv, NEW r \in Requests, Wake(r) \/ CancelWait(r)
  PROVE  IInv'
<1> USE DEF IInv
<1>1. /\ pc[r] = "waiting" /\ UNCHANGED <<clock, request, now, entries, nextCleanup>>
      /\ entry' = [entry EXCEPT ![current[r]].waiters = @ + (-1)]
      /\ current' = [current EXCEPT ![r] = NoRequest]
      /\ current[r] \in Requests /\ current[r] # r
  BY DEF Wake, CancelWait, Roles
<1>2. \A s \in Requests : /\ entry'[s].completed = entry[s].completed
                          /\ entry'[s].expires = entry[s].expires
                          /\ entry'[s].response = entry[s].response
                          /\ entry'[s].fingerprint = entry[s].fingerprint
  BY <1>1, WaiterSlot
<1>3. TypeOK'
  <2>1. entry' \in [Requests -> Entry] /\ current' \in [Requests -> Requests \cup {NoRequest}]
    BY <1>1, WaiterSlot DEF TypeOK
  <2>2. NoResponse \in Response /\ "unavailable" \in Replies
    BY DEF NoResponse, Response, Bodies, Replies
  <2>3. CASE Wake(r)
    BY <1>1, <2>1, <2>3 DEF TypeOK, Wake, Locations
  <2>4. CASE CancelWait(r)
    BY <1>1, <2>1, <2>2, <2>4, AnswerTypes DEF TypeOK, CancelWait
  <2> QED BY <2>3, <2>4
<1>4. History'
  BY <1>1 DEF History, Wake, CancelWait, Answer, TypeOK
<1>5. Roles'
  BY <1>1, <1>2 DEF Roles, TypeOK, Wake, CancelWait, Answer
<1>6. Stored'
  BY <1>1 DEF Stored, TypeOK
<1>7. Kept'
  BY <1>1, <1>2 DEF Kept, TypeOK
<1>8. Scheduled'
  BY <1>1, <1>2 DEF Scheduled, Completed, Present, TypeOK
<1> QED BY <1>3, <1>4, <1>5, <1>6, <1>7, <1>8

\* Steps that touch neither the store nor anybody's hold on it.
LEMMA HandlerStep ==
  ASSUME IInv, NEW r \in Requests, HandlerEnds(r) \/ WriteOwnPanics(r)
  PROVE  IInv'
<1> USE DEF IInv
<1>1. /\ pc[r] \in {"handler", "writing"}
      /\ finished' = [finished EXCEPT ![r] = clock]
      /\ pc' = [pc EXCEPT ![r] = "completing"]
      /\ UNCHANGED <<clock, request, now, current, reply, store>>
  BY DEF HandlerEnds, WriteOwnPanics
<1>2. captured' \in [Requests -> Response]
  <2>1. \A detail \in Bodies : terminalResponse(detail) \in Response
    BY DEF terminalResponse, Response
  <2>2. [body : {"handler", "invalid"}, size : Sizes] \subseteq Response
    BY DEF Response, Bodies
  <2>3. PICK response \in Response : captured' = [captured EXCEPT ![r] = response]
    BY <2>1, <2>2 DEF HandlerEnds, WriteOwnPanics, Bodies
  <2> QED BY <2>3 DEF TypeOK
<1>3. TypeOK'
  BY <1>1, <1>2 DEF TypeOK, Locations, store
<1>4. History' /\ Stored' /\ Kept' /\ Scheduled'
  BY <1>1 DEF History, Stored, Kept, Scheduled, Completed, Present, TypeOK, store
<1>5. Roles'
  BY <1>1 DEF Roles, TypeOK, store
<1> QED BY <1>3, <1>4, <1>5

LEMMA WriteStep ==
  ASSUME IInv, NEW r \in Requests, WriteOwn(r) \/ WriteReplay(r)
  PROVE  IInv'
<1> USE DEF IInv
<1>1. UNCHANGED <<clock, request, now, current, store>>
  BY DEF WriteOwn, WriteReplay
<1>2. PICK kind \in {"executed", "replayed", "panicked"}, response \in Response :
        /\ Answer(r, kind, response)
        /\ kind \in {"replayed", "panicked"} => pc[r] = "replaying"
        /\ kind = "replayed" => response = entry[current[r]].response
        /\ kind = "executed" => pc[r] = "writing"
  <2>1. NoResponse \in Response
    BY DEF NoResponse, Response, Bodies
  <2>2. captured[r] \in Response /\ (pc[r] = "replaying" => entry[current[r]].response \in Response)
    BY DEF Roles, TypeOK, Entry
  <2> QED BY <2>1, <2>2 DEF WriteOwn, WriteReplay
<1>3. kind \in Replies
  BY DEF Replies
<1>4. TypeOK'
  BY <1>1, <1>2, <1>3, AnswerTypes DEF TypeOK, store
<1>5. History' /\ Stored' /\ Kept' /\ Scheduled'
  BY <1>1, <1>2 DEF Answer, History, Stored, Kept, Scheduled, Completed, Present, TypeOK, store
<1>6. Roles'
  BY <1>1, <1>2 DEF Answer, Roles, TypeOK, store
<1> QED BY <1>4, <1>5, <1>6

LEMMA TickStep ==
  ASSUME IInv, Tick
  PROVE  IInv'
<1> USE DEF IInv
<1>1. clock' \in Nat /\ clock <= clock'
  BY DEF Tick, TypeOK
<1>2. TypeOK' /\ Roles' /\ Stored' /\ Scheduled'
  BY <1>1 DEF Tick, TypeOK, Roles, Stored, Scheduled, Completed, Present, store
<1>3. History'
  BY <1>1 DEF Tick, TypeOK, History
<1>4. Kept'
  BY <1>1 DEF Tick, TypeOK, Kept, Entry, store
<1> QED BY <1>2, <1>3, <1>4

LEMMA StorableType ==
  ASSUME NEW response \in Response
  PROVE  Storable(response) \in Response
BY DEF Storable, terminalResponse, Response, Bodies

\* complete takes effect for the owner's own, still uncompleted entry.
LEMMA RecordStep ==
  ASSUME IInv, NEW r \in Requests, Complete(r), MayComplete(r), Record(r)
  PROVE  /\ entry' \in [Requests -> Entry] /\ nextCleanup' \in Nat
         /\ entries' = entries /\ current[r] = r
         /\ entry'[r].completed /\ entry'[r].expires \in Nat
         /\ entry'[r].response = Storable(captured[r])
         /\ entry'[r].fingerprint = entry[r].fingerprint
         /\ \A s \in Requests : s # r => entry'[s] = entry[s]
         /\ 0 < nextCleanup' /\ nextCleanup' <= entry'[r].expires
         /\ nextCleanup # 0 => nextCleanup' <= nextCleanup
<1> USE DEF IInv
<1>1. current[r] = r /\ finished[r] + TTL \in Nat /\ finished[r] + TTL > 0
  BY DEF Complete, Roles, TypeOK
<1>2. entry[r] \in Entry /\ Storable(captured[r]) \in Response
  BY StorableType DEF TypeOK
<1> DEFINE e == [entry[r] EXCEPT !.response = Storable(captured[r]), !.completed = TRUE,
                                 !.expires = finished[r] + TTL]
<1>3. entry' = [entry EXCEPT ![r] = e]
  BY <1>1 DEF Record
<1>4. /\ e \in Entry /\ e.completed /\ e.expires = finished[r] + TTL
      /\ e.response = Storable(captured[r]) /\ e.fingerprint = entry[r].fingerprint
  BY <1>1, <1>2 DEF Entry
<1>5. /\ nextCleanup' = IF nextCleanup = 0 \/ finished[r] + TTL < nextCleanup
                          THEN finished[r] + TTL ELSE nextCleanup
      /\ entries' = entries
  BY DEF Record
<1> HIDE DEF e
<1> QED BY <1>1, <1>3, <1>4, <1>5 DEF TypeOK

LEMMA CompleteStep ==
  ASSUME IInv, NEW r \in Requests, Complete(r)
  PROVE  IInv'
<1> USE DEF IInv
<1>1. pc[r] = "completing" /\ current[r] = r /\ UNCHANGED <<clock, request, now, current>>
  BY DEF Complete, Roles
<1>2. /\ pc' \in [Requests -> Locations]
      /\ reply' \in [Requests -> [kind : Replies, response : Response]]
      /\ captured' \in [Requests -> Response]
      /\ finished' \in [Requests -> Nat]
  <2>1. "panicked" \in Replies /\ NoResponse \in Response
    BY DEF Replies, NoResponse, Response, Bodies
  <2> QED BY <2>1, AnswerTypes DEF Complete, TypeOK, Locations
<1>3. /\ \A s \in Requests : s # r => pc'[s] = pc[s] /\ reply'[s] = reply[s]
      /\ pc'[r] \in {"done", "writing"}
      /\ reply'[r].kind = "replayed" => reply[r].kind = "replayed" /\ reply'[r] = reply[r]
      /\ \A s \in Requests : finished'[s] = finished[s] \/ finished'[s] = 0
  BY DEF Complete, Answer, TypeOK
<1>4. History'
  BY <1>1, <1>3 DEF History, TypeOK
<1>0. reply'[r].kind = "panicked" => pc'[r] = "done"
  <2>1. reply[r].kind # "panicked"
    BY <1>1 DEF Roles
  <2> QED BY <2>1 DEF Complete, Answer, TypeOK
<1>5. CASE MayComplete(r) /\ Record(r)
  <2>1. /\ entry' \in [Requests -> Entry] /\ nextCleanup' \in Nat
        /\ entries' = entries
        /\ entry'[r].completed /\ entry'[r].expires \in Nat
        /\ entry'[r].fingerprint = entry[r].fingerprint
        /\ \A s \in Requests : s # r => entry'[s] = entry[s]
        /\ 0 < nextCleanup' /\ nextCleanup' <= entry'[r].expires
        /\ nextCleanup # 0 => nextCleanup' <= nextCleanup
    BY <1>5, RecordStep
  <2>2. entries[request[r].key] = r /\ ~entry[r].completed
    BY <1>1, <1>5 DEF MayComplete, Key
  <2>3. TypeOK'
    BY <1>1, <1>2, <2>1 DEF TypeOK
  <2>4. Roles'
    <3>1. ASSUME NEW s \in Requests, reply'[s].kind = "panicked"
          PROVE  pc'[s] = "done" /\ current[s] \in Requests /\ entry'[current[s]].completed
      BY <1>0, <1>1, <1>3, <2>1, <3>1 DEF Roles
    <3>2. ASSUME NEW s \in Requests
          PROVE  /\ pc'[s] = "handler" => ~entry'[s].completed
                 /\ pc'[s] = "writing" => entry'[s].completed
                 /\ pc'[s] = "done" /\ current[s] = s => entry'[s].completed
                 /\ entry'[s].fingerprint = request[s].fingerprint
                 /\ entry'[s].completed => current[s] = s
      BY <1>1, <1>3, <2>1 DEF Roles
    <3>3. ASSUME NEW s \in Requests, pc'[s] = "replaying" \/ reply'[s].kind = "replayed"
          PROVE  /\ current[s] \in Requests /\ current[s] # s /\ current[s] # r
                 /\ entry'[current[s]] = entry[current[s]] /\ s # r
      BY <1>1, <1>3, <2>1, <2>2, <3>3 DEF Roles
    <3> QED BY <1>1, <1>3, <2>1, <3>1, <3>2, <3>3 DEF Roles
  <2>5. Stored' /\ Kept'
    BY <1>1, <2>1, <2>2 DEF Stored, Kept, TypeOK
  <2>6. Scheduled'
    <3> SUFFICES ASSUME NEW k \in Keys, entries[k] # NoRequest, entry'[entries[k]].completed
                 PROVE  0 < nextCleanup' /\ nextCleanup' <= entry'[entries[k]].expires
      BY <2>1 DEF Scheduled, Completed, Present
    <3>1. CASE entries[k] = r
      BY <2>1, <3>1
    <3>2. CASE entries[k] # r
      <4>1. entry'[entries[k]] = entry[entries[k]] /\ entry[entries[k]].expires \in Nat
        BY <2>1, <3>2 DEF TypeOK, Entry
      <4>2. k \in Completed
        BY <4>1 DEF Completed, Present
      <4> QED BY <2>1, <4>1, <4>2 DEF Scheduled, TypeOK
    <3> QED BY <3>1, <3>2
  <2> QED BY <1>4, <2>3, <2>4, <2>5, <2>6
<1>6. CASE ~MayComplete(r) /\ UNCHANGED store
  <2>1. entry[r].completed
    BY <1>1, <1>6 DEF MayComplete, Kept, Key
  <2>2. TypeOK'
    BY <1>1, <1>2, <1>6 DEF TypeOK, store
  <2>3. Roles'
    <3>1. ASSUME NEW s \in Requests, reply'[s].kind = "panicked"
          PROVE  pc'[s] = "done" /\ current[s] \in Requests /\ entry[current[s]].completed
      BY <1>0, <1>1, <1>3, <1>6, <2>1, <3>1 DEF Roles, store
    <3> QED BY <1>1, <1>3, <1>6, <2>1, <3>1 DEF Roles, TypeOK, store
  <2>4. Stored' /\ Kept' /\ Scheduled'
    BY <1>1, <1>6 DEF Stored, Kept, Scheduled, Completed, Present, store
  <2> QED BY <1>4, <2>2, <2>3, <2>4
<1> QED BY <1>5, <1>6 DEF Complete

LEMMA StutterStep ==
  ASSUME IInv, UNCHANGED vars
  PROVE  IInv'
BY DEF vars, store, IInv, TypeOK, History, Roles, Stored, Kept, Scheduled, Completed, Present

LEMMA InductiveStep == IInv /\ [Next]_vars => IInv'
<1> SUFFICES ASSUME IInv, [Next]_vars PROVE IInv'
  OBVIOUS
<1>1. ASSUME NEW r \in Requests, Step(r) PROVE IInv'
  <2>1. CASE Acquire(r)
    BY <2>1, AcquireOwnStep, AcquireRefusedStep, AcquireReplayStep, AcquireWaitStep DEF Acquire
  <2> QED BY <1>1, <2>1, EnterStep, WaitEndsStep, HandlerStep, CompleteStep, WriteStep DEF Step
<1> QED BY <1>1, TickStep, StutterStep DEF Next

-----------------------------------------------------------------------------
(* The theorems.                                                           *)

\* The inductive invariant holds in every reachable state.
THEOREM Invariance == Spec => []IInv
BY InitInv, InductiveStep, PTL DEF Spec

\* Type correctness: in particular every lifetime and the next cleanup stay
\* instants of the clock and the map only points at entries that exist.
THEOREM TypeCorrect == Spec => []TypeOK
<1>1. IInv => TypeOK
  BY DEF IInv
<1> QED BY <1>1, Invariance, PTL

\* Mutual exclusion per key, for every number of requests and any limits.
THEOREM MutualExclusion == Spec => []OneExecution
<1>1. IInv => OneExecution
  BY DEF IInv, Kept, OneExecution, Executing, Owner, Key
<1> QED BY <1>1, Invariance, PTL

\* Replays go to the right request and come from a record that was alive when
\* the request arrived.
THEOREM ReplaysAreFaithful == Spec => []ReplayFaithful
<1>1. IInv => ReplayFaithful
  BY DEF IInv, Roles, ReplayFaithful, Owner
<1> QED BY <1>1, Invariance, PTL

\* Only winning the key in acquire takes a request into the handler.
LEMMA EntersHandler ==
  ASSUME TypeOK, [Next]_vars, NEW r \in Requests, pc[r] # "handler", pc'[r] = "handler"
  PROVE  AcquireOwn(r)
<1>1. PICK s \in Requests : Step(s)
  BY DEF Next, Tick, vars
<1>2. s = r /\ Acquire(s)
  BY <1>1 DEF TypeOK, Step, Arrive, ScreenOut, Wake, CancelWait, HandlerEnds, Complete,
              WriteOwn, WriteOwnPanics, WriteReplay, Answer, Acquire, AcquireOwn,
              AcquireUnavailable, AcquireConflict, AcquireReplay, AcquireWait
<1> QED BY <1>2 DEF TypeOK, Acquire, AcquireUnavailable, AcquireConflict, AcquireReplay,
              AcquireWait, Answer

\* No mutation is run again for a key before the lifetime of its previous
\* record is over on the real clock.
THEOREM NoEarlyReexecution == Spec => NoReexecutionWithinTTL
<1> DEFINE A == \A r, s \in Requests :
       /\ pc[r] # "handler" /\ pc'[r] = "handler"
       /\ s # r /\ Owner(s) /\ Key(s) = Key(r)
       => entry[s].completed /\ clock >= entry[s].expires
<1>1. IInv /\ [Next]_vars => A
  <2> SUFFICES ASSUME IInv, [Next]_vars, NEW r \in Requests, NEW s \in Requests,
                      pc[r] # "handler", pc'[r] = "handler",
                      s # r, Owner(s), Key(s) = Key(r)
               PROVE  entry[s].completed /\ clock >= entry[s].expires
    OBVIOUS
  <2>1. AcquireOwn(r)
    BY EntersHandler DEF IInv
  <2>2. AcquirePass(r) /\ Remaining(now[r])[Key(r)] = NoRequest
    BY <2>1 DEF AcquireOwn, Found
  <2>3. clock \in Nat /\ entry[s].expires \in Nat /\ Key(r) \in Keys
    BY DEF IInv, TypeOK, Entry, Key
  <2>4. entries[Key(r)] = s \/ (entry[s].completed /\ entry[s].expires <= clock)
    <3>1. current[s] = s /\ request[s].key = Key(r)
      BY DEF Owner, Key
    <3> QED BY <3>1 DEF IInv, Kept
  <2>5. entries[Key(r)] = s => entry[s].completed /\ entry[s].expires <= clock
    BY <2>2, <2>3, PassFacts
  <2> QED BY <2>3, <2>4, <2>5
<1>2. Spec => [][A]_vars
  BY Invariance, <1>1, PTL DEF Spec
<1> QED BY <1>2 DEF NoReexecutionWithinTTL

\* Entries that agree on every other field differ in their waiter count only.
LEMMA SameButWaiters ==
  ASSUME NEW e \in Entry, NEW f \in Entry,
         f.fingerprint = e.fingerprint, f.expires = e.expires,
         f.completed = e.completed, f.response = e.response
  PROVE  f = [e EXCEPT !.waiters = f.waiters]
BY DEF Entry

\* No step changes a completed entry but for its waiter count.
LEMMA CompletedStays ==
  ASSUME IInv, [Next]_vars, NEW r \in Requests, entry[r].completed
  PROVE  entry'[r] = [entry[r] EXCEPT !.waiters = entry'[r].waiters]
<1> entry[r] \in Entry
  BY DEF IInv, TypeOK
<1>1. CASE entry'[r] = entry[r]
  BY <1>1 DEF Entry
<1>2. ASSUME NEW s \in Requests, Complete(s), entry'[r] # entry[r]
      PROVE  FALSE
  <2>1. MayComplete(s) /\ Record(s)
    BY <1>2 DEF Complete, store
  <2>2. current[s] = s /\ ~entry[s].completed
    BY <1>2, <2>1 DEF Complete, IInv, Roles, MayComplete
  <2> QED BY <1>2, <2>1, <2>2, RecordStep
<1>3. ASSUME NEW s \in Requests, AcquireOwn(s), entry'[r] # entry[r]
      PROVE  FALSE
  <2>1. r = s
    BY <1>3 DEF AcquireOwn, IInv, TypeOK
  <2> QED BY <1>3, <2>1 DEF AcquireOwn, AcquirePass, IInv, Roles
<1>4. ASSUME NEW q \in Requests, NEW n \in {1, -1},
             entry' = [entry EXCEPT ![q].waiters = @ + n]
      PROVE  entry'[r] = [entry[r] EXCEPT !.waiters = entry'[r].waiters]
  BY <1>4, WaiterSlot, SameButWaiters DEF IInv
<1>5. ASSUME NEW s \in Requests, Step(s), entry'[r] # entry[r]
      PROVE  \/ Complete(s) \/ AcquireOwn(s)
             \/ \E q \in Requests, n \in {1, -1} : entry' = [entry EXCEPT ![q].waiters = @ + n]
  <2>1. CASE AcquireWait(s)
    <3>1. Found(s) \in Requests /\ entry' = [entry EXCEPT ![Found(s)].waiters = @ + 1]
      BY <2>1, FoundAlive DEF AcquireWait, Matches
    <3> QED BY <3>1
  <2>2. CASE Wake(s) \/ CancelWait(s)
    <3>1. current[s] \in Requests /\ entry' = [entry EXCEPT ![current[s]].waiters = @ + (-1)]
      BY <2>2 DEF Wake, CancelWait, IInv, Roles
    <3> QED BY <3>1
  <2>3. CASE \/ Arrive(s) \/ ScreenOut(s) \/ AcquireUnavailable(s) \/ AcquireConflict(s)
             \/ AcquireReplay(s) \/ HandlerEnds(s) \/ WriteOwn(s) \/ WriteOwnPanics(s)
             \/ WriteReplay(s)
    BY <1>5, <2>3 DEF Arrive, ScreenOut, AcquireUnavailable, AcquireConflict,
       AcquireReplay, HandlerEnds, WriteOwn, WriteOwnPanics, WriteReplay, store
  <2> QED BY <1>5, <2>1, <2>2, <2>3 DEF Step, Acquire
<1>6. ASSUME NEW s \in Requests, Step(s), entry'[r] # entry[r]
      PROVE  entry'[r] = [entry[r] EXCEPT !.waiters = entry'[r].waiters]
  BY <1>2, <1>3, <1>4, <1>5, <1>6
<1>7. CASE Tick \/ UNCHANGED vars
  BY <1>1, <1>7 DEF Tick, vars, store
<1> QED BY <1>1, <1>6, <1>7 DEF Next

\* A completed entry keeps its fingerprint, response and lifetime for ever.
THEOREM CompletedIsFinal == Spec => RecordImmutable
<1> DEFINE A == \A r \in Requests : entry[r].completed =>
                  entry'[r] = [entry[r] EXCEPT !.waiters = entry'[r].waiters]
<1>1. IInv /\ [Next]_vars => A
  BY CompletedStays
<1>2. Spec => [][A]_vars
  BY Invariance, <1>1, PTL DEF Spec
<1> QED BY <1>2 DEF RecordImmutable

-----------------------------------------------------------------------------
(* The waiter counters, relative to IInv.                                  *)

\* A counter is the number of requests blocked on its entry.
Counted ==
  \A s \in Requests : /\ IsFiniteSet(Waiting(s))
                      /\ entry[s].waiters = Cardinality(Waiting(s))
                      /\ entry[s].waiters <= MaxWaiters
                      /\ current[s] # s => Waiting(s) = {}

LEMMA CountedInit == Init => Counted
<1> SUFFICES ASSUME Init PROVE Counted
  OBVIOUS
<1>1. \A s \in Requests : Waiting(s) = {} /\ entry[s].waiters = 0
  BY DEF Init, Waiting, newEntry
<1> QED BY <1>1, FS_EmptySet DEF Counted

\* A step that neither blocks nor unblocks r leaves every set of waiters alone.
LEMMA SameWaiting ==
  ASSUME NEW r \in Requests, NEW s \in Requests, TypeOK, TypeOK',
         \A q \in Requests \ {r} : pc'[q] = pc[q] /\ current'[q] = current[q],
         ~(pc[r] = "waiting" /\ current[r] = s),
         ~(pc'[r] = "waiting" /\ current'[r] = s)
  PROVE  Waiting(s)' = Waiting(s)
BY DEF Waiting

LEMMA OthersStay ==
  ASSUME TypeOK, NEW r \in Requests, Step(r)
  PROVE  \A q \in Requests \ {r} : pc'[q] = pc[q] /\ current'[q] = current[q]
<1>1. CASE Acquire(r)
  BY <1>1 DEF TypeOK, Acquire, AcquireOwn, AcquireUnavailable, AcquireConflict,
              AcquireReplay, AcquireWait, Answer
<1>2. CASE ~Acquire(r)
  BY <1>2 DEF TypeOK, Step, Arrive, ScreenOut, Wake, CancelWait, HandlerEnds, Complete,
              WriteOwn, WriteOwnPanics, WriteReplay, Answer
<1> QED BY <1>1, <1>2

LEMMA CountedStep ==
  ASSUME IInv, IInv', Counted, [Next]_vars
  PROVE  Counted'
<1> USE DEF IInv
<1>1. CASE Tick \/ UNCHANGED vars
  <2>1. UNCHANGED <<pc, current, entry>>
    BY <1>1 DEF Tick, vars, store
  <2>2. \A s \in Requests : Waiting(s)' = Waiting(s)
    BY <2>1 DEF Waiting
  <2> QED BY <2>1, <2>2 DEF Counted
<1>2. ASSUME NEW r \in Requests, Step(r), pc[r] # "waiting", pc'[r] # "waiting",
             \A s \in Requests : entry'[s].waiters = entry[s].waiters,
             \A s \in Requests : current[s] = s => current'[s] = s
      PROVE  Counted'
  <2>1. \A s \in Requests : Waiting(s)' = Waiting(s)
    BY <1>2, OthersStay, SameWaiting
  <2> QED BY <1>2, <2>1 DEF Counted
<1>3. ASSUME NEW r \in Requests, AcquireWait(r) PROVE Counted'
  <2>1. PICK w \in Requests :
        /\ pc[r] = "acquire" /\ current[w] = w /\ current[r] = NoRequest
        /\ entry' = [entry EXCEPT ![w].waiters = @ + 1]
        /\ current' = [current EXCEPT ![r] = w]
        /\ pc' = [pc EXCEPT ![r] = "waiting"]
        /\ ~(entry[w].waiters >= MaxWaiters)
    BY <1>3, FoundAlive DEF AcquireWait, AcquirePass, Matches, TooManyWaiters, Roles
  <2>2. Waiting(w)' = Waiting(w) \cup {r} /\ r \notin Waiting(w)
    BY <2>1 DEF Waiting, TypeOK
  <2>3. IsFiniteSet(Waiting(w)') /\ Cardinality(Waiting(w)') = Cardinality(Waiting(w)) + 1
    BY <2>2, FS_AddElement DEF Counted
  <2>4. \A s \in Requests \ {w} : Waiting(s)' = Waiting(s) /\ entry'[s] = entry[s]
    BY <2>1 DEF Waiting, TypeOK
  <2>5. entry'[w].waiters = entry[w].waiters + 1 /\ entry[w].waiters \in Int
    BY <2>1 DEF TypeOK, Entry
  <2>6. entry'[w].waiters = Cardinality(Waiting(w)') /\ entry'[w].waiters <= MaxWaiters
    BY <2>1, <2>3, <2>5 DEF Counted
  <2>7. \A s \in Requests : current'[s] # s => current[s] # s /\ s # w
    BY <2>1 DEF TypeOK
  <2> QED BY <2>3, <2>4, <2>6, <2>7 DEF Counted
<1>4. ASSUME NEW r \in Requests, Wake(r) \/ CancelWait(r) PROVE Counted'
  <2>1. PICK w \in Requests :
        /\ pc[r] = "waiting" /\ w = current[r] /\ current[w] = w /\ w # r
        /\ entry' = [entry EXCEPT ![w].waiters = @ - 1]
        /\ current' = [current EXCEPT ![r] = NoRequest]
        /\ pc'[r] # "waiting"
        /\ \A q \in Requests \ {r} : pc'[q] = pc[q]
    BY <1>4 DEF Wake, CancelWait, Answer, TypeOK, Roles
  <2>2. Waiting(w)' = Waiting(w) \ {r} /\ r \in Waiting(w)
    BY <2>1 DEF Waiting, TypeOK
  <2>3. IsFiniteSet(Waiting(w)') /\ Cardinality(Waiting(w)') = Cardinality(Waiting(w)) - 1
    BY <2>2, FS_RemoveElement DEF Counted
  <2>4. \A s \in Requests \ {w} : Waiting(s)' = Waiting(s) /\ entry'[s] = entry[s]
    BY <2>1 DEF Waiting, TypeOK
  <2>5. entry'[w].waiters = entry[w].waiters - 1 /\ entry[w].waiters \in Int
    BY <2>1 DEF TypeOK, Entry
  <2>6. entry'[w].waiters = Cardinality(Waiting(w)') /\ entry'[w].waiters <= MaxWaiters
    BY <2>1, <2>3, <2>5 DEF Counted
  <2>7. \A s \in Requests : current'[s] # s => s # w /\ (current[s] # s \/ s = r)
    BY <2>1 DEF TypeOK
  <2>8. r # w /\ Waiting(r)' = Waiting(r) /\ current[r] # r
    BY <2>1, <2>4
  <2> QED BY <2>3, <2>4, <2>6, <2>7, <2>8 DEF Counted
<1>5. ASSUME NEW r \in Requests, AcquireOwn(r) PROVE Counted'
  <2>1. /\ pc[r] = "acquire" /\ pc' = [pc EXCEPT ![r] = "handler"]
        /\ current[r] = NoRequest /\ current' = [current EXCEPT ![r] = r]
        /\ entry' = [entry EXCEPT ![r] = newEntry(request[r].fingerprint)]
    BY <1>5 DEF AcquireOwn, AcquirePass, Roles
  <2>2. \A s \in Requests : Waiting(s)' = Waiting(s)
    BY <2>1 DEF Waiting, TypeOK
  <2>3. entry'[r].waiters = 0 /\ Waiting(r) = {}
    BY <2>1 DEF newEntry, TypeOK, Counted
  <2>4. \A s \in Requests \ {r} : entry'[s] = entry[s] /\ current'[s] = current[s]
    BY <2>1 DEF TypeOK
  <2> QED BY <2>1, <2>2, <2>3, <2>4, FS_EmptySet DEF Counted, TypeOK
<1>6. ASSUME NEW r \in Requests, Complete(r) PROVE Counted'
  <2>1. pc[r] = "completing" /\ pc'[r] \in {"done", "writing"} /\ current' = current
    BY <1>6 DEF Complete, Answer, TypeOK
  <2>2. \A s \in Requests : entry'[s].waiters = entry[s].waiters
    <3>1. CASE UNCHANGED store
      BY <3>1 DEF store
    <3>2. CASE Record(r)
      BY <3>2 DEF Record, TypeOK, Entry
    <3> QED BY <1>6, <3>1, <3>2 DEF Complete
  <2>3. Step(r)
    BY <1>6 DEF Step
  <2> QED BY <1>2, <2>1, <2>2, <2>3
<1>7. ASSUME NEW r \in Requests,
             \/ Arrive(r) \/ ScreenOut(r) \/ AcquireUnavailable(r) \/ AcquireConflict(r)
             \/ AcquireReplay(r) \/ HandlerEnds(r) \/ WriteOwn(r) \/ WriteOwnPanics(r)
             \/ WriteReplay(r)
      PROVE  Counted'
  <2>1. Step(r) /\ entry' = entry
    BY <1>7 DEF Step, Acquire, Arrive, ScreenOut, AcquireUnavailable, AcquireConflict,
                AcquireReplay, HandlerEnds, WriteOwn, WriteOwnPanics, WriteReplay, store
  <2>2. pc[r] # "waiting" /\ pc'[r] # "waiting"
    BY <1>7 DEF TypeOK, Arrive, ScreenOut, AcquirePass, AcquireUnavailable, AcquireConflict,
                AcquireReplay, HandlerEnds, WriteOwn, WriteOwnPanics, WriteReplay, Answer
  <2>3. \A s \in Requests : current[s] = s => current'[s] = s
    BY <1>7 DEF TypeOK, Roles, Arrive, ScreenOut, AcquirePass, AcquireUnavailable, AcquireConflict,
                AcquireReplay, HandlerEnds, WriteOwn, WriteOwnPanics, WriteReplay, store
  <2> QED BY <1>2, <2>1, <2>2, <2>3
<1> QED BY <1>1, <1>3, <1>4, <1>5, <1>6, <1>7 DEF Next, Step, Acquire

\* Every waiter counter is exact and within MaxWaiters, on both ways out of the
\* wait and over any number of waiters and passes.
THEOREM WaitersAreCounted == Spec => []WaitersCounted
<1>1. Init => IInv /\ Counted
  BY InitInv, CountedInit
<1>2. IInv /\ Counted /\ [Next]_vars => IInv' /\ Counted'
  BY InductiveStep, CountedStep
<1>3. Counted => WaitersCounted
  BY DEF Counted, WaitersCounted
<1> QED BY <1>1, <1>2, <1>3, PTL DEF Spec

-----------------------------------------------------------------------------
(* The size of the map, relative to IInv.                                  *)

FewEntries == IsFiniteSet(Present) /\ Cardinality(Present) <= MaxEntries

LEMMA FewEntriesStep ==
  ASSUME TypeOK, FewEntries, [Next]_vars
  PROVE  FewEntries'
<1>1. ASSUME Present' \subseteq Present PROVE FewEntries'
  BY <1>1, FS_Subset, FS_CardinalityType DEF FewEntries
<1>2. ASSUME NEW r \in Requests, AcquirePass(r), entries' = Remaining(now[r])
      PROVE  Present' \subseteq Present
  BY <1>2 DEF Present, Remaining
<1>3. ASSUME NEW r \in Requests, AcquireOwn(r) PROVE FewEntries'
  <2> DEFINE P == Present \ Removed(now[r])
  <2>1. IsFiniteSet(P)
    BY FS_Subset DEF FewEntries
  <2>2. Cardinality(P) \in Nat /\ ~(Cardinality(P) >= MaxEntries)
    BY <1>3, <2>1, FS_CardinalityType DEF AcquireOwn, StoreFull
  <2>3. Present' \subseteq P \cup {Key(r)}
    BY <1>3 DEF AcquireOwn, Present, Remaining, Removed
  <2>4. /\ IsFiniteSet(P \cup {Key(r)})
        /\ Cardinality(P \cup {Key(r)}) \in Nat
        /\ Cardinality(P \cup {Key(r)}) <= MaxEntries
    <3>1. /\ IsFiniteSet(P \cup {Key(r)})
          /\ Cardinality(P \cup {Key(r)}) =
               IF Key(r) \in P THEN Cardinality(P) ELSE Cardinality(P) + 1
      BY <2>1, FS_AddElement
    <3> HIDE DEF P
    <3> QED BY <2>2, <3>1
  <2>5. IsFiniteSet(Present') /\ Cardinality(Present') <= Cardinality(P \cup {Key(r)})
    BY <2>3, <2>4, FS_Subset
  <2>6. Cardinality(Present') \in Nat
    BY <2>5, FS_CardinalityType
  <2> HIDE DEF P
  <2> QED BY <2>4, <2>5, <2>6 DEF FewEntries
<1>4. ASSUME entries' = entries PROVE FewEntries'
  BY <1>1, <1>4 DEF Present
<1>5. ASSUME NEW r \in Requests, Step(r) PROVE FewEntries'
  <2>1. CASE Acquire(r)
    BY <1>1, <1>2, <1>3, <2>1 DEF Acquire, AcquireOwn, AcquireUnavailable, AcquireConflict,
                                   AcquireReplay, AcquireWait
  <2>2. CASE ~Acquire(r)
    BY <1>4, <1>5, <2>2 DEF Step, Arrive, ScreenOut, Wake, CancelWait, HandlerEnds, Complete,
                    Record, WriteOwn, WriteOwnPanics, WriteReplay, store
  <2> QED BY <2>1, <2>2
<1> QED BY <1>4, <1>5 DEF Next, Tick, vars, store

\* The number of keys in the map respects MaxEntries.
THEOREM EntriesAreBounded == Spec => []EntriesBounded
<1>1. Init => FewEntries
  <2>1. Init => Present = {}
    BY DEF Init, Present
  <2> QED BY <2>1, FS_EmptySet DEF FewEntries
<1>2. TypeOK /\ FewEntries /\ [Next]_vars => FewEntries'
  BY FewEntriesStep
<1>3. FewEntries => EntriesBounded
  BY DEF FewEntries, EntriesBounded
<1> QED BY <1>1, <1>2, <1>3, TypeCorrect, PTL DEF Spec

-----------------------------------------------------------------------------
(* The byte budget, relative to IInv.                                      *)

\* The counter is the number of bytes kept, which only completed entries have.
Budget ==
  /\ IsFiniteSet(BytesAt(Present))
  /\ usedBytes = Cardinality(BytesAt(Present)) /\ usedBytes <= MaxBytes
  /\ \A r \in Requests : ~entry[r].completed => entry[r].response.size = 0

\* Bytes are counted key by key.
LEMMA BytesApart ==
  ASSUME NEW K, NEW L, K \cap L = {}
  PROVE  /\ BytesAt(K \cup L) = BytesAt(K) \cup BytesAt(L)
         /\ BytesAt(K) \cap BytesAt(L) = {}
BY DEF BytesAt, BytesOf

\* A response of n bytes has n of them.
LEMMA BytesCounted ==
  ASSUME NEW k, NEW n \in Nat
  PROVE  IsFiniteSet({k} \X (1..n)) /\ Cardinality({k} \X (1..n)) = n
<1>1. IsFiniteSet(1..n) /\ Cardinality(1..n) = n
  BY FS_Interval
<1>2. IsFiniteSet({k}) /\ Cardinality({k}) = 1
  BY FS_Singleton
<1>3. IsFiniteSet({k} \X (1..n)) /\ Cardinality({k} \X (1..n)) = 1 * n
  BY <1>1, <1>2, FS_Product
<1> QED BY <1>3

LEMMA SomeBytes ==
  ASSUME Budget, NEW K, K \subseteq Present
  PROVE  /\ IsFiniteSet(BytesAt(K)) /\ IsFiniteSet(BytesAt(Present \ K))
         /\ Cardinality(BytesAt(Present \ K)) = usedBytes - Cardinality(BytesAt(K))
         /\ Cardinality(BytesAt(K)) \in Nat
         /\ Cardinality(BytesAt(Present \ K)) \in Nat
<1>1. Present = K \cup (Present \ K) /\ K \cap (Present \ K) = {}
  OBVIOUS
<1> DEFINE A == BytesAt(K)
           B == BytesAt(Present \ K)
<1>2. BytesAt(Present) = A \cup B /\ A \cap B = {}
  BY <1>1, BytesApart
<1>3. IsFiniteSet(A) /\ IsFiniteSet(B)
  BY <1>2, FS_Subset DEF Budget
<1>4. Cardinality(A) \in Nat /\ Cardinality(B) \in Nat
  BY <1>3, FS_CardinalityType
<1>5. Cardinality(BytesAt(Present)) = Cardinality(A) + Cardinality(B) - Cardinality(A \cap B)
  BY <1>2, <1>3, FS_Union
<1>6. Cardinality(A \cap B) = 0
  BY <1>2, FS_EmptySet
<1>7. usedBytes = Cardinality(BytesAt(Present))
  BY DEF Budget
<1> HIDE DEF A, B
<1>8. Cardinality(B) = usedBytes - Cardinality(A)
  BY <1>4, <1>5, <1>6, <1>7
<1> QED BY <1>3, <1>4, <1>8 DEF A, B

\* A step that gives the bytes of the keys K back, and keeps those of the other
\* keys and no more, keeps the budget.
LEMMA BudgetShrinks ==
  ASSUME Budget, NEW K, K \subseteq Present,
         usedBytes' = usedBytes - Cardinality(BytesAt(K)),
         \A k \in Present \ K : k \in Present' /\ SizeAt(k)' = SizeAt(k),
         \A k \in Present' : k \in Present \ K \/ SizeAt(k)' = 0,
         \A r \in Requests : ~entry'[r].completed => entry'[r].response.size = 0
  PROVE  Budget'
<1>1. BytesAt(Present)' = BytesAt(Present \ K)
  <2>1. \A k \in Present \ K : BytesOf(k)' = BytesOf(k)
    BY DEF BytesOf
  <2>2. \A k \in Present' : k \in Present \ K \/ BytesOf(k)' = {}
    BY DEF BytesOf
  <2> QED BY <2>1, <2>2 DEF BytesAt
<1>2. usedBytes <= MaxBytes /\ usedBytes \in Nat
  BY FS_CardinalityType DEF Budget
<1> QED BY <1>1, <1>2, SomeBytes DEF Budget

\* Such as every step that neither completes an entry nor touches the map.
LEMMA BudgetStays ==
  ASSUME Budget, UNCHANGED <<entries, usedBytes>>,
         \A r \in Requests : entry'[r].completed = entry[r].completed
                             /\ entry'[r].response = entry[r].response,
         TypeOK
  PROVE  Budget'
<1>1. Present' = Present
  BY DEF Present
<1>2. \A k \in Present : SizeAt(k)' = SizeAt(k)
  BY DEF Present, SizeAt, TypeOK
<1>3. BytesAt({}) = {}
  BY DEF BytesAt
<1>4. usedBytes \in Nat
  BY FS_CardinalityType DEF Budget
<1>5. usedBytes' = usedBytes - Cardinality(BytesAt({}))
  BY <1>3, <1>4, FS_EmptySet
<1> QED BY <1>1, <1>2, <1>5, BudgetShrinks DEF Budget

\* What is stored fits, and only the entry that is completed grows.
LEMMA BudgetGrows ==
  ASSUME IInv, Budget, NEW r \in Requests, Complete(r), MayComplete(r), Record(r)
  PROVE  Budget'
<1> USE DEF IInv
<1>1. PICK k \in Keys :
        /\ entries[k] = r /\ ~entry[r].completed /\ k \in Present
        /\ entries' = entries
        /\ entry'[r].response = Storable(captured[r]) /\ entry'[r].completed
        /\ \A s \in Requests : s # r => entry'[s] = entry[s]
  <2>1. current[r] = r /\ Key(r) \in Keys
    BY DEF Complete, Roles, TypeOK, Key
  <2>2. entries[Key(r)] = r /\ ~entry[r].completed /\ Key(r) \in Present
    BY <2>1 DEF MayComplete, Present
  <2> QED BY <2>1, <2>2, RecordStep
<1>2. PICK n \in Nat : n = Storable(captured[r]).size /\ usedBytes' = usedBytes + n
  BY StorableType DEF Record, TypeOK, Response
<1>3. usedBytes \in Nat /\ usedBytes <= MaxBytes
  BY FS_CardinalityType DEF Budget
<1>4. usedBytes + n <= MaxBytes
  BY <1>2, <1>3 DEF Storable, Fits, terminalResponse
<1>5. SizeAt(k)' = n /\ SizeAt(k) = 0
  BY <1>1, <1>2 DEF SizeAt, Budget
<1>6. Present' = Present
  BY <1>1 DEF Present
<1>7. \A j \in Present \ {k} : BytesOf(j)' = BytesOf(j)
  <2> SUFFICES ASSUME NEW j \in Present \ {k} PROVE SizeAt(j)' = SizeAt(j)
    BY DEF BytesOf
  <2>1. entries[j] \in Requests /\ entries[j] # r
    BY <1>1 DEF Present, Stored, TypeOK
  <2> QED BY <1>1, <2>1 DEF SizeAt
<1>8. BytesOf(k) = {} /\ BytesOf(k)' = {k} \X (1..n)
  BY <1>5 DEF BytesOf
<1>9. BytesAt(Present)' = BytesAt(Present) \cup ({k} \X (1..n))
  BY <1>1, <1>6, <1>7, <1>8 DEF BytesAt
<1>10. BytesAt(Present) \cap ({k} \X (1..n)) = {}
  BY <1>8 DEF BytesAt, BytesOf
<1>11. IsFiniteSet({k} \X (1..n)) /\ Cardinality({k} \X (1..n)) = n
  BY BytesCounted
<1>12. /\ IsFiniteSet(BytesAt(Present)')
       /\ Cardinality(BytesAt(Present)') = usedBytes + n
  <2> DEFINE A == BytesAt(Present)
             B == {k} \X (1..n)
  <2>1. IsFiniteSet(A) /\ Cardinality(A) = usedBytes
    BY DEF Budget
  <2>2. Cardinality(A \cap B) = 0
    BY <1>10, FS_EmptySet
  <2>3. IsFiniteSet(A \cup B) /\ Cardinality(A \cup B) = Cardinality(A) + Cardinality(B) - Cardinality(A \cap B)
    BY <1>11, <2>1, FS_Union
  <2> HIDE DEF A
  <2>4. Cardinality(A \cup B) = usedBytes + n
    BY <1>2, <1>3, <1>11, <2>1, <2>2, <2>3
  <2> QED BY <1>9, <2>3, <2>4 DEF A
<1> QED BY <1>1, <1>2, <1>4, <1>12 DEF Budget

LEMMA BudgetStep ==
  ASSUME IInv, IInv', Budget, [Next]_vars
  PROVE  Budget'
<1> USE DEF IInv
<1>1. ASSUME NEW r \in Requests, Acquire(r) PROVE Budget'
  <2> DEFINE K == Removed(now[r])
  <2>1. /\ AcquirePass(r) /\ K \subseteq Present
        /\ usedBytes' = usedBytes - Cardinality(BytesAt(K))
    BY <1>1 DEF Acquire, AcquireOwn, AcquireUnavailable, AcquireConflict, AcquireReplay,
                AcquireWait, AcquirePass, cleanup, Removed, Expired, Completed
  <2>2. CASE AcquireOwn(r)
    <3>1. /\ Key(r) \in Keys /\ Remaining(now[r])[Key(r)] = NoRequest
          /\ entries' = [Remaining(now[r]) EXCEPT ![Key(r)] = r]
          /\ entry' = [entry EXCEPT ![r] = newEntry(request[r].fingerprint)]
      BY <2>2 DEF AcquireOwn, Found, TypeOK, Key
    <3>2. \A k \in Keys : entries[k] # r
      BY <2>1 DEF AcquirePass, Roles, Stored
    <3>3. \A k \in Present \ K : k # Key(r) /\ entries'[k] = entries[k] /\ k \in Present'
      BY <3>1 DEF Remaining, Present
    <3>4. \A k \in Present \ K : SizeAt(k)' = SizeAt(k)
      BY <3>1, <3>2, <3>3 DEF SizeAt, Present, TypeOK
    <3>5. entry'[r].response.size = 0
      BY <3>1 DEF newEntry, NoResponse, TypeOK
    <3>6. \A k \in Present' : k \in Present \ K \/ SizeAt(k)' = 0
      BY <3>1, <3>5 DEF SizeAt, Present, Remaining
    <3>7. \A s \in Requests : ~entry'[s].completed => entry'[s].response.size = 0
      BY <3>1, <3>5 DEF Budget, TypeOK
    <3> QED BY <2>1, <3>3, <3>4, <3>6, <3>7, BudgetShrinks
  <2>3. CASE ~AcquireOwn(r)
    <3>1. entries' = Remaining(now[r])
      BY <1>1, <2>3 DEF Acquire, AcquireUnavailable, AcquireConflict, AcquireReplay, AcquireWait
    <3>2. \A s \in Requests : entry'[s].completed = entry[s].completed
                              /\ entry'[s].response = entry[s].response
      <4>1. CASE AcquireWait(r)
        <5>1. Found(r) \in Requests
          BY <4>1, FoundAlive DEF AcquireWait, Matches
        <5> QED BY <4>1, <5>1, WaiterSlot DEF AcquireWait
      <4>2. CASE ~AcquireWait(r)
        BY <1>1, <2>3, <4>2 DEF Acquire, AcquireUnavailable, AcquireConflict, AcquireReplay
      <4> QED BY <4>1, <4>2
    <3>3. Present' = Present \ K /\ \A k \in Present' : entries'[k] = entries[k]
      BY <3>1 DEF Present, Remaining
    <3>4. \A k \in Present \ K : SizeAt(k)' = SizeAt(k)
      BY <3>2, <3>3 DEF SizeAt, Present, TypeOK
    <3>5. \A s \in Requests : ~entry'[s].completed => entry'[s].response.size = 0
      BY <3>2 DEF Budget
    <3> QED BY <2>1, <3>3, <3>4, <3>5, BudgetShrinks
  <2> QED BY <2>2, <2>3
<1>2. ASSUME NEW r \in Requests, Complete(r) PROVE Budget'
  <2>1. CASE UNCHANGED store
    BY <2>1, BudgetStays DEF store
  <2> QED BY <1>2, <2>1, BudgetGrows DEF Complete
<1>3. ASSUME NEW r \in Requests, Wake(r) \/ CancelWait(r) PROVE Budget'
  <2>1. current[r] \in Requests /\ entry' = [entry EXCEPT ![current[r]].waiters = @ + (-1)]
    BY <1>3 DEF Wake, CancelWait, Roles
  <2>2. UNCHANGED <<entries, usedBytes>>
    BY <1>3 DEF Wake, CancelWait
  <2> QED BY <2>1, <2>2, WaiterSlot, BudgetStays
<1>4. ASSUME UNCHANGED store PROVE Budget'
  BY <1>4, BudgetStays DEF store
<1>5. ASSUME NEW r \in Requests,
             \/ Arrive(r) \/ ScreenOut(r) \/ HandlerEnds(r) \/ WriteOwn(r) \/ WriteOwnPanics(r)
             \/ WriteReplay(r)
      PROVE  Budget'
  BY <1>4, <1>5 DEF Arrive, ScreenOut, HandlerEnds, WriteOwn, WriteOwnPanics, WriteReplay
<1>6. CASE Tick \/ UNCHANGED vars
  BY <1>4, <1>6 DEF Tick, vars
<1> QED BY <1>1, <1>2, <1>3, <1>5, <1>6 DEF Next, Step

\* The store's byte counter is exact and, with the number of its keys and of the
\* waiters of each, never exceeds the configured limit.
THEOREM LimitsHold == Spec => []LimitsKept
<1>1. Init => IInv /\ Budget
  <2>1. Init => Present = {} /\ usedBytes = 0 /\ \A r \in Requests : entry[r].response.size = 0
    BY DEF Init, Present, newEntry, NoResponse
  <2>2. BytesAt({}) = {} /\ 0 <= MaxBytes
    BY DEF BytesAt
  <2>3. Init => BytesAt(Present) = {}
    BY <2>1, <2>2
  <2> QED BY <2>1, <2>2, <2>3, InitInv, FS_EmptySet DEF Budget
<1>2. IInv /\ Budget /\ [Next]_vars => IInv' /\ Budget'
  BY InductiveStep, BudgetStep
<1>3. Budget /\ EntriesBounded /\ WaitersCounted => LimitsKept
  BY DEF Budget, LimitsKept, WithinLimits
<1> QED BY <1>1, <1>2, <1>3, EntriesAreBounded, WaitersAreCounted, PTL DEF Spec

-----------------------------------------------------------------------------
(* What an owner leaves behind, relative to IInv.                          *)

\* The stored response is the captured one or a terminal fallback.
Kin(stored, response) == stored = response \/ stored.body \in {"unavailable", "bare"}

\* What is replayed to clients whose owner saw a panic.
Withheld(stored) == stored.body \in {"unknown", "invalid", "unavailable", "bare"}

Delivered ==
  \A r \in Requests :
    /\ pc[r] = "completing" /\ captured[r].body # "unknown" => ~entry[r].completed
    /\ pc[r] = "completing" /\ entry[r].completed => Withheld(entry[r].response)
    /\ pc[r] = "writing" => Kin(entry[r].response, captured[r])
    /\ reply[r].kind = "panicked" =>
         pc[r] = "done" /\ (current[r] = r => Withheld(entry[r].response))
    /\ reply[r].kind = "executed" =>
         pc[r] = "done" /\ entry[r].completed /\ Kin(entry[r].response, reply[r].response)

LEMMA DeliveredStep ==
  ASSUME IInv, IInv', Delivered, [Next]_vars,
         \A r \in Requests : entry[r].completed =>
           entry'[r] = [entry[r] EXCEPT !.waiters = entry'[r].waiters]
  PROVE  Delivered'
<1> USE DEF IInv
<1>1. \A r \in Requests : entry[r].completed =>
        entry'[r].completed /\ entry'[r].response = entry[r].response
  BY DEF TypeOK, Entry
<1>2. CASE Tick \/ UNCHANGED vars
  BY <1>2 DEF Tick, vars, store, Delivered, Kin
<1>3. ASSUME NEW r \in Requests, Step(r),
             NEW q \in Requests, q # r
      PROVE  /\ pc'[q] = pc[q] /\ captured'[q] = captured[q] /\ reply'[q] = reply[q]
             /\ entry'[q].completed = entry[q].completed /\ current'[q] = current[q]
  <2>1. /\ pc'[q] = pc[q] /\ captured'[q] = captured[q] /\ reply'[q] = reply[q]
        /\ current'[q] = current[q]
    BY <1>3 DEF TypeOK, Step, Acquire, Arrive, ScreenOut, AcquireOwn, AcquireUnavailable,
       AcquireConflict, AcquireReplay, AcquireWait, Wake, CancelWait, HandlerEnds, Complete,
       WriteOwn, WriteOwnPanics, WriteReplay, Answer
  <2>2. entry'[q].completed = entry[q].completed
    <3>1. CASE AcquireWait(r)
      <4>1. Found(r) \in Requests
        BY <3>1, FoundAlive DEF AcquireWait, Matches
      <4> QED BY <3>1, <4>1, WaiterSlot DEF AcquireWait
    <3>2. CASE Wake(r) \/ CancelWait(r)
      <4>1. current[r] \in Requests /\ entry' = [entry EXCEPT ![current[r]].waiters = @ + (-1)]
        BY <3>2 DEF Wake, CancelWait, Roles
      <4> QED BY <4>1, WaiterSlot
    <3>3. CASE Complete(r)
      BY <1>3, <3>3, RecordStep DEF Complete, store
    <3>4. CASE AcquireOwn(r)
      BY <1>3, <3>4 DEF AcquireOwn, TypeOK
    <3>5. CASE \/ Arrive(r) \/ ScreenOut(r) \/ AcquireUnavailable(r) \/ AcquireConflict(r)
               \/ AcquireReplay(r) \/ HandlerEnds(r) \/ WriteOwn(r) \/ WriteOwnPanics(r)
               \/ WriteReplay(r)
      BY <3>5 DEF Arrive, ScreenOut, AcquireUnavailable, AcquireConflict,
         AcquireReplay, HandlerEnds, WriteOwn, WriteOwnPanics, WriteReplay, store
    <3> QED BY <1>3, <3>1, <3>2, <3>3, <3>4, <3>5 DEF Step, Acquire
  <2> QED BY <2>1, <2>2
<1>4. ASSUME NEW r \in Requests, Step(r)
      PROVE  /\ pc'[r] = "completing" /\ captured'[r].body # "unknown" => ~entry'[r].completed
             /\ pc'[r] = "completing" /\ entry'[r].completed => Withheld(entry'[r].response)
             /\ reply'[r].kind = "panicked" =>
                  pc'[r] = "done" /\ (current'[r] = r => Withheld(entry'[r].response))
             /\ pc'[r] = "writing" => Kin(entry'[r].response, captured'[r])
             /\ reply'[r].kind = "executed" =>
                  pc'[r] = "done" /\ entry'[r].completed
                  /\ Kin(entry'[r].response, reply'[r].response)
  <2>1. CASE Complete(r)
    <3>1. CASE MayComplete(r) /\ Record(r)
      <4>1. entry'[r].completed /\ entry'[r].response = Storable(captured[r])
        BY <2>1, <3>1, RecordStep
      <4>2. Kin(entry'[r].response, captured[r])
        BY <4>1 DEF Kin, Storable, terminalResponse
      <4>3. Panicking(r) => Withheld(entry'[r].response)
        BY <4>2 DEF Kin, Withheld, Panicking
      <4> QED BY <2>1, <4>1, <4>2, <4>3 DEF Complete, Answer, TypeOK, Delivered
    <3>2. CASE ~MayComplete(r) /\ UNCHANGED store
      <4>1. entry[r].completed
        BY <2>1, <3>2 DEF Complete, MayComplete, Kept, Roles, Key
      <4>2. Panicking(r) /\ Withheld(entry[r].response)
        BY <2>1, <4>1 DEF Complete, Delivered, Panicking
      <4>3. entry' = entry /\ current' = current /\ current[r] = r
        BY <2>1, <3>2 DEF Complete, store, Roles
      <4> QED BY <2>1, <4>1, <4>2, <4>3 DEF Complete, Answer, TypeOK, Delivered
    <3> QED BY <2>1, <3>1, <3>2 DEF Complete
  <2>2. CASE WriteOwn(r)
    BY <2>2 DEF WriteOwn, Answer, TypeOK, Roles, Delivered, store
  <2>3. CASE HandlerEnds(r) \/ WriteOwnPanics(r)
    <3>1. pc[r] = "writing" /\ captured[r].body = "invalid" => Withheld(entry[r].response)
      BY DEF Delivered, Kin, Withheld
    <3> QED BY <2>3, <3>1 DEF HandlerEnds, WriteOwnPanics, terminalResponse, TypeOK, Roles,
               Delivered, store
  <2>4. CASE Acquire(r) \/ Arrive(r) \/ ScreenOut(r) \/ Wake(r) \/ CancelWait(r)
    BY <2>4 DEF Acquire, AcquirePass, AcquireOwn, AcquireUnavailable, AcquireConflict, AcquireReplay,
       AcquireWait, Arrive, ScreenOut, Wake, CancelWait, Answer, TypeOK, Delivered
  <2>5. CASE WriteReplay(r)
    BY <2>5 DEF WriteReplay, Answer, TypeOK, Roles, Delivered
  <2> QED BY <1>4, <2>1, <2>2, <2>3, <2>4, <2>5 DEF Step
<1>5. ASSUME NEW r \in Requests, Step(r) PROVE Delivered'
  <2> SUFFICES ASSUME NEW q \in Requests, q # r
               PROVE  /\ pc'[q] = "completing" /\ captured'[q].body # "unknown" =>
                           ~entry'[q].completed
                      /\ pc'[q] = "completing" /\ entry'[q].completed => Withheld(entry'[q].response)
                      /\ reply'[q].kind = "panicked" =>
                           pc'[q] = "done" /\ (current'[q] = q => Withheld(entry'[q].response))
                      /\ pc'[q] = "writing" => Kin(entry'[q].response, captured'[q])
                      /\ reply'[q].kind = "executed" =>
                           pc'[q] = "done" /\ entry'[q].completed
                           /\ Kin(entry'[q].response, reply'[q].response)
    BY <1>4, <1>5 DEF Delivered
  <2> QED BY <1>1, <1>3, <1>5 DEF Delivered, Roles
<1> QED BY <1>2, <1>5 DEF Next

\* Whatever became of its handler and of the write, an owner that is done has
\* left a completed record. Clients that retry are answered as the owner's was,
\* or terminally; after a panic they meet a terminal record or the response
\* that cannot be written, never an ordinary one (lines 167-180, 314-326).
THEOREM OwnersLeaveRecords == Spec => []OwnerLeavesRecord
<1>1. Init => IInv /\ Delivered
  <2>1. Init => Delivered
    BY DEF Init, Delivered, NoReply
  <2> QED BY <2>1, InitInv
<1>2. IInv /\ Delivered /\ [Next]_vars => IInv' /\ Delivered'
  BY InductiveStep, DeliveredStep, CompletedStays
<1>3. IInv /\ Delivered => OwnerLeavesRecord
  BY DEF IInv, Roles, Delivered, Kin, Withheld, OwnerLeavesRecord, Owner
<1> QED BY <1>1, <1>2, <1>3, PTL DEF Spec

-----------------------------------------------------------------------------
(* The middleware implements IdempotencyContract, relative to IInv.        *)

\* What the contract knows of a request besides its outcome: it has arrived
\* before it looks at the store, and completes no earlier than it arrived.
Arrivals ==
  /\ clock > 0
  /\ \A r \in Requests :
       /\ pc[r] = "new" => now[r] = 0
       /\ pc[r] \notin {"new", "done"} => now[r] > 0
       /\ pc[r] # "done" => reply[r].kind = "none"
       /\ pc[r] = "completing" => now[r] <= finished[r]
       /\ captured[r] \in [body : Bodies, size : Sizes \cup {0, TerminalSize}]

LEMMA ArrivalsStep ==
  ASSUME IInv, Arrivals, [Next]_vars
  PROVE  Arrivals'
<1> USE DEF IInv
<1> DEFINE Responses == [body : Bodies, size : Sizes \cup {0, TerminalSize}]
<1>1. NoResponse \in Responses /\ \A b \in Bodies : terminalResponse(b) \in Responses
  BY DEF NoResponse, terminalResponse, Bodies
<1>2. CASE Tick
  BY <1>2 DEF Tick, Arrivals, TypeOK
<1>3. CASE UNCHANGED vars
  BY <1>3 DEF vars, Arrivals
<1>4. ASSUME NEW r \in Requests, Step(r) PROVE Arrivals'
  <2>1. clock' = clock
    BY <1>4 DEF Step, Acquire, AcquirePass, Arrive, ScreenOut, AcquireOwn, AcquireUnavailable,
       AcquireConflict, AcquireReplay, AcquireWait, Wake, CancelWait, HandlerEnds, Complete,
       WriteOwn, WriteOwnPanics, WriteReplay
  <2>2. ASSUME NEW q \in Requests, q # r
        PROVE  /\ pc'[q] = pc[q] /\ now'[q] = now[q] /\ reply'[q] = reply[q]
               /\ finished'[q] = finished[q] /\ captured'[q] = captured[q]
    BY <1>4, <2>2 DEF TypeOK, Step, Acquire, AcquirePass, Arrive, ScreenOut, AcquireOwn,
       AcquireUnavailable, AcquireConflict, AcquireReplay, AcquireWait, Wake, CancelWait,
       HandlerEnds, Complete, WriteOwn, WriteOwnPanics, WriteReplay, Answer
  <2>3. /\ pc'[r] = "new" => now'[r] = 0
        /\ pc'[r] \notin {"new", "done"} => now'[r] > 0
        /\ pc'[r] # "done" => reply'[r].kind = "none"
        /\ pc'[r] = "completing" => now'[r] <= finished'[r]
        /\ captured'[r] \in Responses
    <3>1. CASE HandlerEnds(r)
      <4>1. captured'[r] \in Responses
        <5>1. [body : {"handler", "invalid"}, size : Sizes] \subseteq Responses
          BY DEF Bodies
        <5>2. PICK response \in [body : {"handler", "invalid"}, size : Sizes]
                      \cup {terminalResponse("overflow"), terminalResponse("unknown")} :
                captured' = [captured EXCEPT ![r] = response]
          BY <3>1 DEF HandlerEnds
        <5>3. captured'[r] = response
          BY <5>2 DEF TypeOK
        <5>4. response \in Responses
          BY <1>1, <5>1, <5>2 DEF Bodies
        <5> QED BY <5>3, <5>4
      <4> QED BY <3>1, <4>1 DEF HandlerEnds, Arrivals, History, TypeOK
    <3>2. CASE WriteOwnPanics(r)
      <4>1. captured'[r] \in Responses
        BY <1>1, <3>2 DEF WriteOwnPanics, Bodies, TypeOK
      <4> QED BY <3>2, <4>1 DEF WriteOwnPanics, Arrivals, History, TypeOK
    <3>3. CASE ScreenOut(r) \/ CancelWait(r) \/ WriteOwn(r) \/ WriteReplay(r) \/ Complete(r)
      BY <1>1, <3>3 DEF ScreenOut, CancelWait, WriteOwn, WriteReplay, Complete, Answer,
         Arrivals, TypeOK
    <3>4. CASE Acquire(r) \/ Arrive(r) \/ Wake(r)
      BY <1>1, <3>4 DEF Acquire, AcquirePass, AcquireOwn, AcquireUnavailable, AcquireConflict,
         AcquireReplay, AcquireWait, Arrive, Wake, Answer, Arrivals, TypeOK
    <3> QED BY <1>4, <3>1, <3>2, <3>3, <3>4 DEF Step
  <2> QED BY <2>1, <2>2, <2>3 DEF Arrivals
<1> QED BY <1>2, <1>3, <1>4 DEF Next

LEMMA InitRefines == Init => Contract!Init
<1> SUFFICES ASSUME Init PROVE Contract!Init
  OBVIOUS
<1>1. record = [k \in Keys |-> NoRecord]
  BY DEF Init, record, RecordOf
<1>2. outcome = [r \in Requests |-> Contract!Pending]
  BY DEF Init, outcome, OutcomeOf, Owner, NoReply, Contract!Pending
<1> QED BY <1>1, <1>2 DEF Init, Contract!Init

\* A record depends on the entry the map holds, but not on its waiters.
LEMMA RecordStays ==
  ASSUME NEW k \in Keys, entries'[k] = entries[k],
         entries[k] # NoRequest =>
           /\ entry'[entries[k]].completed = entry[entries[k]].completed
           /\ entry'[entries[k]].response = entry[entries[k]].response
           /\ entry'[entries[k]].expires = entry[entries[k]].expires
  PROVE  record'[k] = record[k]
BY DEF record, RecordOf

\* A step of one request decides nothing for another.
LEMMA OutcomeStays ==
  ASSUME IInv, [Next]_vars, NEW q \in Requests,
         pc'[q] = pc[q], current'[q] = current[q], reply'[q] = reply[q]
  PROVE  outcome'[q] = outcome[q]
<1>1. pc[q] = "replaying" \/ reply[q].kind = "panicked" =>
        current[q] \in Requests /\ entry[current[q]].completed
  BY DEF IInv, Roles
<1>2. \A s \in Requests : entry[s].completed => entry'[s].response = entry[s].response
  <2>1. \A s \in Requests : entry[s].completed =>
          entry'[s] = [entry[s] EXCEPT !.waiters = entry'[s].waiters]
    BY CompletedStays
  <2> QED BY <2>1 DEF IInv, TypeOK, Entry
<1> QED BY <1>1, <1>2 DEF outcome, OutcomeOf, Owner

\* What a cleanup drops the contract may forget.
LEMMA CleanupForgets ==
  ASSUME IInv, NEW r \in Requests
  PROVE  /\ [k \in Keys |-> IF k \in Removed(now[r]) THEN NoRecord ELSE record[k]]
              \in Contract!Forgotten
         /\ record \in Contract!Forgotten
<1>1. ASSUME NEW k \in Removed(now[r]) PROVE k \in Keys /\ Contract!Dead(k)
  <2>1. /\ k \in Keys /\ entries[k] \in Requests
        /\ entry[entries[k]].completed /\ entry[entries[k]].expires <= clock
        /\ clock \in Nat /\ entry[entries[k]].expires \in Nat
    BY RemovedDead DEF IInv, TypeOK, Entry
  <2>2. /\ record[k].owner = entries[k] /\ record[k].done
        /\ record[k].until = entry[entries[k]].expires
    BY <2>1 DEF record, RecordOf
  <2>3. record[k] # NoRecord
    BY <2>1, <2>2 DEF NoRecord
  <2> QED BY <2>1, <2>2, <2>3 DEF Contract!Dead
<1>2. \A K \in SUBSET {k \in Keys : Contract!Dead(k)} :
        [k \in Keys |-> IF k \in K THEN NoRecord ELSE record[k]] \in Contract!Forgotten
  BY DEF Contract!Forgotten
<1>3. record = [k \in Keys |-> IF k \in {} THEN NoRecord ELSE record[k]]
  BY DEF record
<1>4. record \in Contract!Forgotten
  <2>1. {} \in SUBSET {k \in Keys : Contract!Dead(k)}
    OBVIOUS
  <2> HIDE DEF record
  <2> QED BY <1>2, <1>3, <2>1
<1>5. Removed(now[r]) \in SUBSET {k \in Keys : Contract!Dead(k)}
  BY <1>1
<1> QED BY <1>2, <1>4, <1>5

\* A pass of acquire that does not win the key: the store only forgets.
LEMMA PassForgets ==
  ASSUME IInv, NEW r \in Requests, AcquirePass(r), entries' = Remaining(now[r]),
         \A s \in Requests : /\ entry'[s].completed = entry[s].completed
                             /\ entry'[s].expires = entry[s].expires
                             /\ entry'[s].response = entry[s].response
  PROVE  record' \in Contract!Forgotten
<1> DEFINE forgotten == [k \in Keys |-> IF k \in Removed(now[r]) THEN NoRecord ELSE record[k]]
<1>1. ASSUME NEW k \in Keys PROVE record'[k] = forgotten[k]
  <2>1. CASE k \in Removed(now[r])
    BY <2>1 DEF Remaining, record, RecordOf
  <2>2. CASE k \notin Removed(now[r])
    <3>1. entries'[k] = entries[k] /\ (entries[k] # NoRequest => entries[k] \in Requests)
      BY <2>2 DEF Remaining, IInv, TypeOK
    <3> QED BY <2>2, <3>1, RecordStays
  <2> QED BY <2>1, <2>2
<1>2. record' = [k \in Keys |-> record'[k]]
  BY DEF record
<1>3. record' = forgotten
  BY <1>1, <1>2
<1> QED BY <1>3, CleanupForgets

\* The step of a request gives it an outcome of the contract.
LEMMA Decides ==
  ASSUME IInv, [Next]_vars, NEW r \in Requests, NEW o, outcome[r] = Contract!Pending,
         \A q \in Requests : q # r => /\ pc'[q] = pc[q] /\ current'[q] = current[q]
                                      /\ reply'[q] = reply[q],
         outcome'[r] = o
  PROVE  Contract!Decide(r, o)
<1>1. \A q \in Requests : q # r => outcome'[q] = outcome[q]
  BY OutcomeStays
<1>2. outcome' = [outcome EXCEPT ![r] = o]
  <2>1. outcome' = [q \in Requests |-> outcome'[q]] /\ outcome = [q \in Requests |-> outcome[q]]
    BY DEF outcome
  <2> QED BY <1>1, <2>1
<1> QED BY <1>2 DEF Contract!Decide

\* A request that waits for the store or on an entry is pending.
LEMMA StillPending ==
  ASSUME IInv, Arrivals, NEW r \in Requests, pc[r] \in {"new", "acquire", "waiting"}
  PROVE  outcome[r] = Contract!Pending
<1>1. reply[r].kind = "none" /\ current[r] # r
  BY DEF IInv, Roles, Arrivals, TypeOK
<1> QED BY <1>1 DEF outcome, OutcomeOf, Owner, Contract!Pending

LEMMA RefusalRefines ==
  ASSUME IInv, Arrivals, [Next]_vars, NEW r \in Requests,
         ScreenOut(r) \/ CancelWait(r) \/ AcquireUnavailable(r) \/ AcquireConflict(r)
  PROVE  Contract!Refuse(r)
<1> USE DEF IInv
<1>1. PICK kind \in {"screened", "unavailable", "conflict"} :
        Answer(r, kind, NoResponse) /\ (kind = "conflict" => AcquireConflict(r))
  BY DEF ScreenOut, CancelWait, AcquireUnavailable, AcquireConflict
<1>2. /\ pc[r] \in {"new", "acquire", "waiting"} /\ current'[r] = NoRequest
      /\ UNCHANGED <<clock, request, now>>
      /\ \A q \in Requests : q # r => current'[q] = current[q]
  BY DEF ScreenOut, CancelWait, AcquireUnavailable, AcquireConflict, AcquirePass, Roles, TypeOK
<1>3. outcome'[r] = [kind |-> kind]
  BY <1>1, <1>2 DEF outcome, OutcomeOf, Owner, Answer, TypeOK
<1>4. Contract!Decide(r, [kind |-> kind])
  <2>1. \A q \in Requests : q # r => pc'[q] = pc[q] /\ reply'[q] = reply[q]
    BY <1>1 DEF Answer, TypeOK
  <2> QED BY <1>2, <1>3, <2>1, StillPending, Decides
<1>5. [kind |-> kind] \in Contract!Refusals
  BY DEF Contract!Refusals
<1>6. record' \in Contract!Forgotten
  <2>1. CASE AcquireUnavailable(r) \/ AcquireConflict(r)
    BY <2>1, PassForgets DEF AcquireUnavailable, AcquireConflict
  <2>2. CASE ScreenOut(r) \/ CancelWait(r)
    <3>1. UNCHANGED entries
      BY <2>2 DEF ScreenOut, CancelWait, store
    <3>2. \A s \in Requests : /\ entry'[s].completed = entry[s].completed
                              /\ entry'[s].expires = entry[s].expires
                              /\ entry'[s].response = entry[s].response
      <4>1. CASE ScreenOut(r)
        BY <4>1 DEF ScreenOut, store
      <4>2. CASE CancelWait(r)
        <5>1. current[r] \in Requests /\ entry' = [entry EXCEPT ![current[r]].waiters = @ + (-1)]
          BY <4>2 DEF CancelWait, Roles
        <5> QED BY <5>1, WaiterSlot
      <4> QED BY <2>2, <4>1, <4>2
    <3>3. \A k \in Keys : record'[k] = record[k]
      BY <3>1, <3>2, RecordStays DEF TypeOK
    <3>4. record' = record
      BY <3>3 DEF record
    <3> QED BY <3>4, CleanupForgets
  <2> QED BY <2>1, <2>2
<1>7. ASSUME kind = "conflict"
      PROVE  LET held == record'[request[r].key]
             IN  held # NoRecord /\ request[held.owner].fingerprint # request[r].fingerprint
  <2>1. AcquireConflict(r)
    BY <1>1, <1>7
  <2>2. PICK s \in Requests : s = Found(r)
    BY <2>1, FoundAlive DEF AcquireConflict
  <2>3. /\ entries' = Remaining(now[r]) /\ request[r].key \in Keys
        /\ Remaining(now[r])[request[r].key] = s
        /\ request[s].fingerprint # request[r].fingerprint
    BY <2>1, <2>2 DEF AcquireConflict, Matches, Found, Key, Roles, TypeOK
  <2>4. record'[request[r].key].owner = s
    BY <2>3 DEF record, RecordOf
  <2>5. record'[request[r].key] # NoRecord
    BY <2>4 DEF NoRecord
  <2> QED BY <2>3, <2>4, <2>5
<1> DEFINE o == [kind |-> kind]
<1>8. o.kind = kind /\ o \in Contract!Refusals /\ Contract!Decide(r, o)
  BY <1>4, <1>5
<1> HIDE DEF o
<1> QED BY <1>2, <1>6, <1>7, <1>8 DEF Contract!Refuse

LEMMA OwnRefines ==
  ASSUME IInv, Arrivals, [Next]_vars, NEW r \in Requests, AcquireOwn(r)
  PROVE  Contract!Begin(r)
<1> USE DEF IInv
<1> DEFINE forgotten == [k \in Keys |-> IF k \in Removed(now[r]) THEN NoRecord ELSE record[k]]
           begun == [owner |-> r, done |-> FALSE, response |-> NoResponse, until |-> 0]
<1>1. /\ AcquirePass(r) /\ pc[r] = "acquire" /\ UNCHANGED <<clock, request, now>>
      /\ current' = [current EXCEPT ![r] = r] /\ current[r] = NoRequest
      /\ entry' = [entry EXCEPT ![r] = newEntry(request[r].fingerprint)]
  BY DEF AcquireOwn, AcquirePass, Roles
<1>2. PICK key \in Keys : key = request[r].key
  BY DEF TypeOK
<1>3. /\ Remaining(now[r])[key] = NoRequest
      /\ entries' = [Remaining(now[r]) EXCEPT ![key] = r]
  BY <1>2 DEF AcquireOwn, Found, Key
<1>4. Contract!Decide(r, Contract!Owned)
  <2>1. outcome'[r] = Contract!Owned
    BY <1>1 DEF outcome, OutcomeOf, Owner, Contract!Owned, TypeOK
  <2>2. \A q \in Requests : q # r => /\ pc'[q] = pc[q] /\ current'[q] = current[q]
                                     /\ reply'[q] = reply[q]
    BY DEF AcquireOwn, TypeOK
  <2> QED BY <1>1, <2>1, <2>2, StillPending, Decides
<1>5. now[r] > 0
  BY <1>1 DEF Arrivals
<1>6. forgotten[key] = NoRecord
  <2>1. key \notin Removed(now[r]) => entries[key] = NoRequest
    BY <1>3 DEF Remaining
  <2> QED BY <2>1 DEF record, RecordOf
<1>7. record'[key] = begun
  <2>1. entries'[key] = r /\ r # NoRequest /\ entry'[r] = newEntry(request[r].fingerprint)
    BY <1>1, <1>3 DEF Remaining, TypeOK
  <2>2. record'[key] = [owner |-> r, done |-> entry'[r].completed,
                        response |-> entry'[r].response, until |-> entry'[r].expires]
    BY <2>1 DEF record, RecordOf
  <2> QED BY <2>1, <2>2 DEF newEntry
<1>8. ASSUME NEW k \in Keys, k # key PROVE record'[k] = forgotten[k]
  <2>1. entries'[k] = Remaining(now[r])[k]
    BY <1>3, <1>8 DEF Remaining
  <2>2. CASE k \in Removed(now[r])
    BY <2>1, <2>2 DEF Remaining, record, RecordOf
  <2>3. CASE k \notin Removed(now[r])
    <3>1. entries'[k] = entries[k] /\ (entries[k] # NoRequest => entries[k] \in Requests)
      BY <2>1, <2>3 DEF Remaining, TypeOK
    <3>2. entries[k] # NoRequest => entries[k] # r
      BY <1>1 DEF Stored
    <3> QED BY <1>1, <2>3, <3>1, <3>2, RecordStays DEF TypeOK
  <2> QED BY <2>2, <2>3
<1>9. record' = [forgotten EXCEPT ![key] = begun]
  <2>1. record' = [k \in Keys |-> record'[k]]
    BY DEF record
  <2> HIDE DEF begun
  <2> QED BY <1>7, <1>8, <2>1
<1>10. forgotten \in Contract!Forgotten
  BY CleanupForgets
<1> HIDE DEF forgotten
<1> QED BY <1>1, <1>2, <1>4, <1>5, <1>6, <1>9, <1>10 DEF Contract!Begin

\* A pass that finds a matching entry, completed or still in flight.
LEMMA MatchRefines ==
  ASSUME IInv, Arrivals, [Next]_vars, NEW r \in Requests, AcquireReplay(r) \/ AcquireWait(r)
  PROVE  Contract!Replay(r) \/ Contract!LookUp
<1> USE DEF IInv
<1>1. PICK s \in Requests : /\ s = Found(r) /\ current[s] = s
                            /\ entry[s].fingerprint = request[r].fingerprint
                            /\ entry[s].completed => now[r] < entry[s].expires
  BY FoundAlive DEF AcquireReplay, AcquireWait, Matches
<1>2. /\ AcquirePass(r) /\ pc[r] = "acquire" /\ UNCHANGED <<clock, request, now, reply>>
      /\ entries' = Remaining(now[r]) /\ current' = [current EXCEPT ![r] = s]
      /\ current[r] = NoRequest /\ s # r
      /\ \A q \in Requests : q # r => pc'[q] = pc[q] /\ current'[q] = current[q]
  BY <1>1 DEF AcquireReplay, AcquireWait, AcquirePass, Roles, TypeOK
<1>3. \A q \in Requests : /\ entry'[q].completed = entry[q].completed
                          /\ entry'[q].expires = entry[q].expires
                          /\ entry'[q].response = entry[q].response
  <2>1. CASE AcquireReplay(r)
    BY <2>1 DEF AcquireReplay
  <2>2. CASE AcquireWait(r)
    <3>1. entry' = [entry EXCEPT ![s].waiters = @ + 1]
      BY <1>1, <2>2 DEF AcquireWait
    <3> QED BY <3>1, WaiterSlot
  <2> QED BY <2>1, <2>2
<1>4. record' \in Contract!Forgotten
  BY <1>2, <1>3, PassForgets
<1>5. CASE AcquireReplay(r)
  <2>1. PICK key \in Keys : key = request[r].key
    BY DEF TypeOK
  <2>2. entries'[key] = s /\ entry[s].completed
    BY <1>1, <1>2, <1>5, <2>1 DEF Found, Key, AcquireReplay
  <2>3. /\ record'[key].owner = s /\ record'[key].done
        /\ record'[key].response = entry[s].response /\ record'[key].until = entry[s].expires
    BY <1>3, <2>2 DEF record, RecordOf
  <2>4. record'[key] # NoRecord
    BY <2>3 DEF NoRecord
  <2>5. outcome'[r] = Contract!Replayed(record'[key].response)
    <3>1. pc'[r] = "replaying" /\ current'[r] = s
      BY <1>2, <1>5 DEF AcquireReplay, TypeOK
    <3> QED BY <1>2, <1>3, <2>3, <3>1 DEF outcome, OutcomeOf, Owner, Contract!Replayed
  <2>6. Contract!Decide(r, Contract!Replayed(record'[key].response))
    BY <1>2, <2>5, StillPending, Decides
  <2>7. request[s].fingerprint = request[r].fingerprint /\ 0 < now[r] /\ now[r] < entry[s].expires
    BY <1>1, <1>2, <2>2 DEF Roles, Arrivals
  <2> QED BY <1>2, <1>4, <2>1, <2>3, <2>4, <2>6, <2>7 DEF Contract!Replay
<1>6. CASE AcquireWait(r)
  <2>1. outcome'[r] = Contract!Pending
    <3>1. pc'[r] = "waiting" /\ current'[r] = s /\ reply'[r] = reply[r] /\ reply[r].kind = "none"
      BY <1>2, <1>6 DEF AcquireWait, TypeOK, Arrivals
    <3> QED BY <1>2, <3>1 DEF outcome, OutcomeOf, Owner, Contract!Pending
  <2>2. \A q \in Requests : outcome'[q] = outcome[q]
    BY <1>2, <2>1, StillPending, OutcomeStays
  <2>3. outcome' = outcome
    BY <2>2 DEF outcome
  <2> QED BY <1>2, <1>4, <2>3 DEF Contract!LookUp
<1> QED BY <1>5, <1>6

\* complete ends the record of the owner's key.
LEMMA RecordRefines ==
  ASSUME IInv, Arrivals, [Next]_vars, NEW r \in Requests, Complete(r), MayComplete(r), Record(r)
  PROVE  \E k \in Keys : Contract!End(k)
<1> USE DEF IInv
<1> DEFINE response == Storable(captured[r])
           until == finished[r] + TTL
           Responses == [body : Bodies, size : Sizes \cup {0, TerminalSize}]
<1>1. PICK key \in Keys : key = request[r].key
  BY DEF TypeOK
<1>2. /\ current[r] = r /\ entries[key] = r /\ entries' = entries /\ ~entry[r].completed
      /\ UNCHANGED <<clock, request, now, current>>
  BY <1>1, RecordStep DEF MayComplete, Key, Complete
<1>3. /\ entry'[r].completed /\ entry'[r].response = response /\ entry'[r].expires = until
      /\ \A s \in Requests : s # r => entry'[s] = entry[s]
  <2>1. entry[r] \in Entry
    BY DEF TypeOK
  <2>2. entry' = [entry EXCEPT ![r] =
                    [@ EXCEPT !.response = response, !.completed = TRUE, !.expires = until]]
    BY <1>2 DEF Record
  <2>3. entry'[r].expires = until
    BY <2>1, <2>2 DEF TypeOK, Entry
  <2> QED BY <2>3, RecordStep
<1>4. response \in Responses
  BY DEF Storable, terminalResponse, Arrivals, Bodies
<1>5. until \in (now[r] + TTL) .. (clock + TTL)
  BY DEF Complete, Arrivals, History, TypeOK
<1> HIDE DEF response, until
<1>6. record[key] = [owner |-> r, done |-> entry[r].completed,
                     response |-> entry[r].response, until |-> entry[r].expires]
  BY <1>2 DEF record, RecordOf
<1>7. record[key] # NoRecord /\ ~record[key].done /\ record[key].owner = r
  <2>1. record[key].owner = r /\ record[key].done = entry[r].completed
    BY <1>6
  <2> QED BY <1>2, <2>1 DEF NoRecord
<1>8. record'[key] = [record[key] EXCEPT !.done = TRUE, !.response = response, !.until = until]
  <2>1. record'[key] = [owner |-> r, done |-> entry'[r].completed,
                        response |-> entry'[r].response, until |-> entry'[r].expires]
    BY <1>2 DEF record, RecordOf
  <2>2. entry'[r].completed = TRUE
    BY <1>3, RecordStep DEF Record, TypeOK, Entry
  <2>3. record'[key] = [owner |-> r, done |-> TRUE, response |-> response, until |-> until]
    BY <1>3, <2>1, <2>2
  <2> DEFINE Ended == [owner : {r}, done : BOOLEAN, response : Response, until : Nat]
             ended == [record[key] EXCEPT !.done = TRUE, !.response = response, !.until = until]
  <2>4. record[key] \in Ended
    BY <1>6 DEF TypeOK, Entry
  <2>5. response \in Response /\ until \in Nat
    BY StorableType DEF response, until, TypeOK
  <2>6. /\ ended \in Ended /\ ended.owner = r /\ ended.done = TRUE
        /\ ended.response = response /\ ended.until = until
    BY <2>4, <2>5
  <2>7. \A h \in Ended : h = [owner |-> h.owner, done |-> h.done,
                              response |-> h.response, until |-> h.until]
    OBVIOUS
  <2> HIDE DEF ended, Ended
  <2>8. ended = [owner |-> r, done |-> TRUE, response |-> response, until |-> until]
    BY <2>6, <2>7
  <2> QED BY <2>3, <2>8 DEF ended
<1>9. record' = [record EXCEPT ![key] =
                   [@ EXCEPT !.done = TRUE, !.response = response, !.until = until]]
  <2>1. ASSUME NEW k \in Keys, k # key PROVE record'[k] = record[k]
    <3>1. entries[k] # NoRequest => entries[k] \in Requests /\ entries[k] # r
      BY <1>1, <2>1 DEF Stored, TypeOK
    <3> QED BY <1>2, <1>3, <3>1, RecordStays
  <2>2. /\ record' = [k \in Keys |-> record'[k]]
        /\ record = [k \in Keys |-> record[k]]
    BY DEF record
  <2> QED BY <1>8, <2>1, <2>2
<1>10. outcome' = outcome
  <2>1. ASSUME NEW q \in Requests PROVE outcome'[q] = outcome[q]
    <3>1. CASE q = r
      BY <1>2, <3>1 DEF outcome, OutcomeOf, Owner
    <3>2. CASE q # r
      <4>1. pc'[q] = pc[q] /\ current'[q] = current[q] /\ reply'[q] = reply[q]
        BY <3>2 DEF Complete, Answer, TypeOK
      <4> QED BY <4>1, OutcomeStays
    <3> QED BY <3>1, <3>2
  <2> QED BY <2>1 DEF outcome
<1> QED BY <1>1, <1>2, <1>4, <1>5, <1>7, <1>9, <1>10 DEF Contract!End

\* Waking up, the handler and the writing of responses are of no concern to the
\* contract, nor is a complete that comes too late.
LEMMA StutterRefines ==
  ASSUME IInv, Arrivals, [Next]_vars, NEW r \in Requests,
         \/ Wake(r) \/ HandlerEnds(r) \/ WriteOwn(r) \/ WriteOwnPanics(r) \/ WriteReplay(r)
         \/ Complete(r) /\ UNCHANGED store
  PROVE  UNCHANGED <<clock, request, now, record, outcome>>
<1> USE DEF IInv
<1>1. /\ UNCHANGED <<clock, request, now, entries>>
      /\ \A q \in Requests : q # r => /\ pc'[q] = pc[q] /\ current'[q] = current[q]
                                      /\ reply'[q] = reply[q]
  BY DEF Wake, HandlerEnds, WriteOwn, WriteOwnPanics, WriteReplay, Complete, Answer, TypeOK, store
<1>2. \A s \in Requests : /\ entry'[s].completed = entry[s].completed
                          /\ entry'[s].expires = entry[s].expires
                          /\ entry'[s].response = entry[s].response
  <2>1. CASE Wake(r)
    <3>1. current[r] \in Requests /\ entry' = [entry EXCEPT ![current[r]].waiters = @ + (-1)]
      BY <2>1 DEF Wake, Roles
    <3> QED BY <3>1, WaiterSlot
  <2>2. CASE ~Wake(r)
    BY <2>2 DEF HandlerEnds, WriteOwn, WriteOwnPanics, WriteReplay, Complete, store
  <2> QED BY <2>1, <2>2
<1>3. record' = record
  <2>1. \A k \in Keys : record'[k] = record[k]
    BY <1>1, <1>2, RecordStays DEF TypeOK
  <2> QED BY <2>1 DEF record
<1>4. outcome'[r] = outcome[r]
  <2>1. CASE Wake(r)
    <3>1. /\ current[r] # r /\ current'[r] # r /\ reply'[r] = reply[r] /\ reply[r].kind # "panicked"
          /\ pc[r] # "replaying" /\ pc'[r] # "replaying" /\ reply[r].kind # "replayed"
      BY <2>1 DEF Wake, Roles, TypeOK
    <3> QED BY <3>1 DEF outcome, OutcomeOf, Owner
  <2>2. CASE WriteReplay(r)
    <3>1. /\ current[r] # r /\ current'[r] = current[r] /\ pc[r] = "replaying" /\ pc'[r] = "done"
          /\ entry' = entry
          /\ \/ reply'[r] = [kind |-> "replayed", response |-> entry[current[r]].response]
             \/ reply'[r].kind = "panicked"
      BY <2>2 DEF WriteReplay, Answer, Roles, TypeOK, store
    <3> QED BY <3>1 DEF outcome, OutcomeOf, Owner
  <2>3. CASE HandlerEnds(r) \/ WriteOwn(r) \/ WriteOwnPanics(r) \/ Complete(r)
    <3>1. current[r] = r /\ current'[r] = r
      BY <2>3 DEF HandlerEnds, WriteOwn, WriteOwnPanics, Complete, Roles
    <3> QED BY <3>1 DEF outcome, OutcomeOf, Owner
  <2> QED BY <2>1, <2>2, <2>3
<1>5. outcome' = outcome
  <2>1. \A q \in Requests : outcome'[q] = outcome[q]
    BY <1>1, <1>4, OutcomeStays
  <2> QED BY <2>1 DEF outcome
<1> QED BY <1>1, <1>3, <1>5

LEMMA StepRefines ==
  ASSUME IInv, Arrivals, [Next]_vars
  PROVE  [Contract!Next]_(Contract!vars)
<1>1. CASE UNCHANGED vars
  <2>1. record' = record /\ outcome' = outcome
    BY <1>1 DEF vars, store, record, RecordOf, outcome, OutcomeOf, Owner
  <2> QED BY <1>1, <2>1 DEF vars, Contract!vars
<1>2. CASE Tick
  <2>1. record' = record /\ outcome' = outcome
    BY <1>2 DEF Tick, store, record, RecordOf, outcome, OutcomeOf, Owner
  <2> QED BY <1>2, <2>1 DEF Tick, Contract!Next, Contract!Tick
<1>3. ASSUME NEW r \in Requests, Arrive(r)
      PROVE  Contract!Arrive(r)
  <2>1. outcome[r] = Contract!Pending /\ now[r] = 0
    BY <1>3, StillPending DEF Arrive, Arrivals
  <2>2. record' = record
    BY <1>3 DEF Arrive, store, record, RecordOf
  <2>3. outcome' = outcome
    <3>1. reply[r].kind = "none" /\ current[r] # r
      BY <1>3 DEF Arrive, Arrivals, IInv, Roles, TypeOK
    <3>2. outcome'[r] = outcome[r]
      BY <1>3, <3>1 DEF Arrive, outcome, OutcomeOf, Owner, IInv, TypeOK
    <3>3. \A q \in Requests : q # r => outcome'[q] = outcome[q]
      BY <1>3, OutcomeStays DEF Arrive, IInv, TypeOK
    <3> QED BY <3>2, <3>3 DEF outcome
  <2> QED BY <1>3, <2>1, <2>2, <2>3 DEF Arrive, Contract!Arrive
<1>4. ASSUME NEW r \in Requests, Complete(r), ~UNCHANGED store
      PROVE  \E k \in Keys : Contract!End(k)
  BY <1>4, RecordRefines DEF Complete
<1>5. ASSUME NEW r \in Requests, Step(r)
      PROVE  Contract!Next \/ UNCHANGED <<clock, request, now, record, outcome>>
  <2>1. CASE ScreenOut(r) \/ CancelWait(r) \/ AcquireUnavailable(r) \/ AcquireConflict(r)
    BY <2>1, RefusalRefines DEF Contract!Next
  <2>2. CASE AcquireOwn(r)
    BY <2>2, OwnRefines DEF Contract!Next
  <2>3. CASE AcquireReplay(r) \/ AcquireWait(r)
    BY <2>3, MatchRefines DEF Contract!Next
  <2>4. CASE Arrive(r)
    BY <1>3, <2>4 DEF Contract!Next
  <2>5. CASE Complete(r) /\ ~UNCHANGED store
    BY <1>4, <2>5 DEF Contract!Next
  <2>6. CASE \/ Wake(r) \/ HandlerEnds(r) \/ WriteOwn(r) \/ WriteOwnPanics(r) \/ WriteReplay(r)
             \/ Complete(r) /\ UNCHANGED store
    BY <2>6, StutterRefines
  <2> QED BY <1>5, <2>1, <2>2, <2>3, <2>4, <2>5, <2>6 DEF Step, Acquire
<1> QED BY <1>1, <1>2, <1>5 DEF Next, Contract!vars

\* The middleware implements its contract: locks, waiters, stale clocks, early
\* and late cleanups, budgets and panics add no behaviour a client could see.
THEOREM Implements == Spec => ImplementsContract
<1>1. Init => IInv /\ Arrivals
  <2>1. Init => Arrivals
    BY DEF Init, Arrivals, NoReply, NoResponse, Bodies
  <2> QED BY <2>1, InitInv
<1>2. IInv /\ Arrivals /\ [Next]_vars => IInv' /\ Arrivals'
  BY InductiveStep, ArrivalsStep
<1> QED BY <1>1, <1>2, InitRefines, StepRefines, PTL DEF Spec, ImplementsContract, Contract!Spec
=============================================================================
