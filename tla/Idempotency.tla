---------------------------- MODULE Idempotency ----------------------------
(***************************************************************************)
(* The idempotency middleware and its in-memory store                      *)
(* (core/http/plugins/idempotency/idempotency.go).                         *)
(*                                                                         *)
(* Every request is one goroutine that passes once through the middleware. *)
(* A critical section of memoryStore.mu is one action.  The two readings   *)
(* of plugin.now(), before acquire and before complete, are taken outside  *)
(* the lock, so each is a step of its own and may be stale when it is used.*)
(* An entry object is named by the request that created it: a request      *)
(* creates at most one.                                                    *)
(***************************************************************************)
EXTENDS Integers, FiniteSets

CONSTANTS
  Requests,      \* the requests of the run
  NoRequest,     \* the nil entry pointer
  Keys,          \* storage keys: scope and Idempotency-Key together
  Fingerprints,  \* hashes of method, URI, content type and body
  Sizes,         \* sizes a captured handler response can have
  TerminalSize,  \* size of a terminal 422 problem response
  TTL,           \* Config.TTL
  Minute,        \* the longest wait between two cleanups
  MaxEntries, MaxBytes, MaxWaiters,
  MaxTime        \* bound on the model's clock, no part of the code

ASSUME ConstantsAssumption ==
  /\ NoRequest \notin Requests
  /\ Sizes \subseteq Nat /\ TerminalSize \in Nat
  /\ TTL \in Nat \ {0} /\ Minute \in Nat \ {0}
  /\ MaxEntries \in Nat \ {0} /\ MaxBytes \in Nat \ {0}
  /\ MaxWaiters \in Nat \ {0} /\ MaxTime \in Nat

VARIABLES
  clock,       \* the wall clock; 0 is the zero time.Time, never read
  pc, request, now, current, captured, finished, reply,   \* per request
  entries,     \* store.entries: key -> the entry, named by its owner
  entry,       \* the entry objects, by owner
  usedBytes, nextCleanup

store == <<entries, entry, usedBytes, nextCleanup>>
vars == <<clock, pc, request, now, current, captured, finished, reply, store>>

-----------------------------------------------------------------------------
(* Responses.  Only what distinguishes one outcome from another is kept.   *)

\* "invalid" is a handler's response whose status cannot be written: net/http
\* panics in WriteHeader below 100 and above 999, the capture accepts it.
Bodies == {"none", "handler", "invalid", "overflow", "unknown", "unavailable", "bare"}
Response == [body : Bodies, size : Nat]
NoResponse == [body |-> "none", size |-> 0]

terminalResponse(detail) == [body |-> detail, size |-> TerminalSize]

Entry == [fingerprint : Fingerprints, expires : Nat, completed : BOOLEAN,
          response : Response, waiters : Int]

newEntry(fingerprint) ==
  [fingerprint |-> fingerprint, expires |-> 0, completed |-> FALSE,
   response |-> NoResponse, waiters |-> 0]

Locations == {"new", "acquire", "waiting", "replaying", "handler",
              "completing", "writing", "done"}
Replies == {"none", "screened", "unavailable", "conflict",
            "executed", "replayed", "panicked"}
NoReply == [kind |-> "none", response |-> NoResponse]

Key(r) == request[r].key

Init ==
  /\ clock = 1
  /\ pc = [r \in Requests |-> "new"]
  /\ request \in [Requests -> [key : Keys, fingerprint : Fingerprints]]
  /\ now = [r \in Requests |-> 0]
  /\ current = [r \in Requests |-> NoRequest]
  /\ captured = [r \in Requests |-> NoResponse]
  /\ finished = [r \in Requests |-> 0]
  /\ reply = [r \in Requests |-> NoReply]
  /\ entries = [k \in Keys |-> NoRequest]
  /\ entry = [r \in Requests |-> newEntry(request[r].fingerprint)]
  /\ usedBytes = 0
  /\ nextCleanup = 0

\* The goroutine ends, and its locals with it; now and current are kept as
\* the history of the run.
Answer(r, kind, response) ==
  /\ pc' = [pc EXCEPT ![r] = "done"]
  /\ reply' = [reply EXCEPT ![r] = [kind |-> kind, response |-> response]]
  /\ captured' = [captured EXCEPT ![r] = NoResponse]
  /\ finished' = [finished EXCEPT ![r] = 0]

-----------------------------------------------------------------------------
(* The middleware before the store.                                        *)

\* A valid key and a readable body: plugin.now() is evaluated, then acquire
\* is called and competes for the lock.
Arrive(r) ==
  /\ pc[r] = "new"
  /\ pc' = [pc EXCEPT ![r] = "acquire"]
  /\ now' = [now EXCEPT ![r] = clock]
  /\ UNCHANGED <<clock, request, current, captured, finished, reply, store>>

\* A method that is not covered, or a missing key that is not required, goes
\* to the handler unprotected; a missing or malformed key or body is refused.
ScreenOut(r) ==
  /\ pc[r] = "new"
  /\ Answer(r, "screened", NoResponse)
  /\ UNCHANGED <<clock, request, now, current, store>>

-----------------------------------------------------------------------------
(* memoryStore.cleanup, run at the head of acquire's critical section when *)
(* it is due at the caller's reading t of the clock.                       *)

cleanupDue(t) == nextCleanup = 0 \/ t >= nextCleanup

Present == {k \in Keys : entries[k] # NoRequest}
Completed == {k \in Present : entry[entries[k]].completed}
\* FAULT: the completed check is dropped, running entries expire at time 0.
ExpiredInFlight(t) == {k \in Present : t >= entry[entries[k]].expires}

\* FAULT: the cleanup also drops what would expire before the next one.
ExpiredAhead(t) == {k \in Completed : t + Minute >= entry[entries[k]].expires}

Expired(t) == {k \in Completed : t >= entry[entries[k]].expires}
Removed(t) == IF cleanupDue(t) THEN Expired(t) ELSE {}

Earliest(T) == {t \in T : \A u \in T : t <= u}

Remaining(t) == [k \in Keys |-> IF k \in Removed(t) THEN NoRequest ELSE entries[k]]

SizeAt(k) == entry[entries[k]].response.size

\* The sum of the sizes stored under the keys K, as a set that has one element
\* for each byte.
BytesOf(k) == {k} \X (1..SizeAt(k))
BytesAt(K) == UNION {BytesOf(k) : k \in K}

cleanup(t) ==
  /\ usedBytes' = usedBytes - Cardinality(BytesAt(Removed(t)))
  /\ IF cleanupDue(t)
       THEN nextCleanup' \in Earliest({t + Minute}
              \cup {entry[entries[k]].expires : k \in Completed \ Expired(t)})
       ELSE UNCHANGED nextCleanup

-----------------------------------------------------------------------------
(* memoryStore.acquire: one pass of its loop, by outcome.                  *)

Found(r) == Remaining(now[r])[Key(r)]

AcquirePass(r) ==
  /\ pc[r] = "acquire"
  /\ cleanup(now[r])
  /\ UNCHANGED <<clock, request, now>>

\* FAULT: the fingerprint is not compared.
MatchesAnyRequest(r) == Found(r) # NoRequest

Matches(r) ==
  /\ Found(r) # NoRequest
  /\ entry[Found(r)].fingerprint = request[r].fingerprint

StoreFull(r) == Cardinality(Present \ Removed(now[r])) >= MaxEntries

AcquireOwn(r) ==
  /\ AcquirePass(r)
  /\ Found(r) = NoRequest /\ ~StoreFull(r)
  /\ entries' = [Remaining(now[r]) EXCEPT ![Key(r)] = r]
  /\ entry' = [entry EXCEPT ![r] = newEntry(request[r].fingerprint)]
  /\ current' = [current EXCEPT ![r] = r]
  /\ pc' = [pc EXCEPT ![r] = "handler"]
  /\ UNCHANGED <<reply, captured, finished>>

TooManyWaiters(r) == entry[Found(r)].waiters >= MaxWaiters

AcquireUnavailable(r) ==
  /\ AcquirePass(r)
  /\ \/ Found(r) = NoRequest /\ StoreFull(r)
     \/ Matches(r) /\ ~entry[Found(r)].completed /\ TooManyWaiters(r)
  /\ entries' = Remaining(now[r])
  /\ Answer(r, "unavailable", NoResponse)
  /\ UNCHANGED <<entry, current>>

AcquireConflict(r) ==
  /\ AcquirePass(r)
  /\ Found(r) # NoRequest /\ ~Matches(r)
  /\ entries' = Remaining(now[r])
  /\ Answer(r, "conflict", NoResponse)
  /\ UNCHANGED <<entry, current>>

AcquireReplay(r) ==
  /\ AcquirePass(r)
  /\ Matches(r) /\ entry[Found(r)].completed
  /\ entries' = Remaining(now[r])
  /\ current' = [current EXCEPT ![r] = Found(r)]
  /\ pc' = [pc EXCEPT ![r] = "replaying"]
  /\ UNCHANGED <<entry, reply, captured, finished>>

AcquireWait(r) ==
  /\ AcquirePass(r)
  /\ Matches(r) /\ ~entry[Found(r)].completed /\ ~TooManyWaiters(r)
  /\ entries' = Remaining(now[r])
  /\ entry' = [entry EXCEPT ![Found(r)].waiters = @ + 1]
  /\ current' = [current EXCEPT ![r] = Found(r)]
  /\ pc' = [pc EXCEPT ![r] = "waiting"]
  /\ UNCHANGED <<reply, captured, finished>>

Acquire(r) ==
  \/ AcquireOwn(r) \/ AcquireUnavailable(r) \/ AcquireConflict(r)
  \/ AcquireReplay(r) \/ AcquireWait(r)

\* done is closed: give the waiter slot back and go round the loop again,
\* with the reading of the clock the request arrived with.
Wake(r) ==
  /\ pc[r] = "waiting" /\ entry[current[r]].completed
  /\ entry' = [entry EXCEPT ![current[r]].waiters = @ - 1]
  /\ current' = [current EXCEPT ![r] = NoRequest]
  /\ pc' = [pc EXCEPT ![r] = "acquire"]
  /\ UNCHANGED <<clock, request, now, captured, finished, reply,
                 entries, usedBytes, nextCleanup>>

\* FAULT: the waiter slot is not given back when the context ends.
CancelWaitKeepsSlot(r) ==
  /\ pc[r] = "waiting"
  /\ current' = [current EXCEPT ![r] = NoRequest]
  /\ Answer(r, "unavailable", NoResponse)
  /\ UNCHANGED <<clock, request, now, entry, entries, usedBytes, nextCleanup>>

\* ctx.Done is chosen, also when done is closed too.
CancelWait(r) ==
  /\ pc[r] = "waiting"
  /\ entry' = [entry EXCEPT ![current[r]].waiters = @ - 1]
  /\ current' = [current EXCEPT ![r] = NoRequest]
  /\ Answer(r, "unavailable", NoResponse)
  /\ UNCHANGED <<clock, request, now, entries, usedBytes, nextCleanup>>

-----------------------------------------------------------------------------
(* The owner: handler, complete, and the response to its own client.       *)

\* The handler returns (its response captured, or too long for the capture)
\* or panics; plugin.now() is read before complete takes the lock.
HandlerEnds(r) ==
  /\ pc[r] = "handler"
  /\ \E response \in [body : {"handler", "invalid"}, size : Sizes]
                      \cup {terminalResponse("overflow"), terminalResponse("unknown")} :
       captured' = [captured EXCEPT ![r] = response]
  /\ finished' = [finished EXCEPT ![r] = clock]
  /\ pc' = [pc EXCEPT ![r] = "completing"]
  /\ UNCHANGED <<clock, request, now, current, reply, store>>

Fits(size) == size <= MaxBytes /\ usedBytes + size <= MaxBytes

\* FAULT: the terminal response is stored without a second budget check.
StorableUnchecked(response) ==
  IF Fits(response.size) THEN response ELSE terminalResponse("unavailable")

\* What complete stores in place of a response that exceeds the byte budget.
Storable(response) ==
  IF Fits(response.size) THEN response
  ELSE IF usedBytes + TerminalSize <= MaxBytes THEN terminalResponse("unavailable")
  ELSE [body |-> "bare", size |-> 0]

\* FAULT: complete does not look whether the record is already completed.
MayCompleteAgain(r) == entries[Key(r)] = current[r]

\* FAULT: the deferred recover does not call complete.
MayCompleteUnlessPanic(r) ==
  entries[Key(r)] = current[r] /\ ~entry[current[r]].completed
  /\ captured[r].body # "unknown"

MayComplete(r) == entries[Key(r)] = current[r] /\ ~entry[current[r]].completed

\* FAULT: the new record's expiry does not bring the next cleanup forward.
RecordKeepsSchedule(r) ==
  /\ entry' = [entry EXCEPT ![current[r]] =
                 [@ EXCEPT !.response = Storable(captured[r]), !.completed = TRUE,
                           !.expires = finished[r] + TTL]]
  /\ usedBytes' = usedBytes + Storable(captured[r]).size
  /\ UNCHANGED <<entries, nextCleanup>>

Record(r) ==
  LET response == Storable(captured[r])
      expires  == finished[r] + TTL
  IN  /\ entry' = [entry EXCEPT ![current[r]] =
                     [@ EXCEPT !.response = response, !.completed = TRUE,
                               !.expires = expires]]
      /\ usedBytes' = usedBytes + response.size
      /\ nextCleanup' = IF nextCleanup = 0 \/ expires < nextCleanup
                          THEN expires ELSE nextCleanup
      /\ UNCHANGED entries

Panicking(r) == captured[r].body = "unknown"

Complete(r) ==
  /\ pc[r] = "completing"
  /\ \/ MayComplete(r) /\ Record(r)
     \/ ~MayComplete(r) /\ UNCHANGED store
  /\ \/ Panicking(r) /\ Answer(r, "panicked", NoResponse)
     \/ /\ ~Panicking(r)
        /\ pc' = [pc EXCEPT ![r] = "writing"]
        /\ UNCHANGED <<reply, captured, finished>>
  /\ UNCHANGED <<clock, request, now, current>>

\* The owner writes the response it captured, not the one that was stored.
WriteOwn(r) ==
  /\ pc[r] = "writing" /\ captured[r].body # "invalid"
  /\ Answer(r, "executed", captured[r])
  /\ UNCHANGED <<clock, request, now, current, store>>

\* Writing panics: the deferred function calls complete a second time, with
\* the terminal response.
WriteOwnPanics(r) ==
  /\ pc[r] = "writing" /\ captured[r].body = "invalid"
  /\ captured' = [captured EXCEPT ![r] = terminalResponse("unknown")]
  /\ finished' = [finished EXCEPT ![r] = clock]
  /\ pc' = [pc EXCEPT ![r] = "completing"]
  /\ UNCHANGED <<clock, request, now, current, reply, store>>

\* The replay reads the entry after the lock was released. A response that
\* could not be written to the owner cannot be written now.
WriteReplay(r) ==
  /\ pc[r] = "replaying"
  /\ LET response == entry[current[r]].response
     IN  \/ response.body # "invalid" /\ Answer(r, "replayed", response)
         \/ response.body = "invalid" /\ Answer(r, "panicked", NoResponse)
  /\ UNCHANGED <<clock, request, now, current, store>>

Tick ==
  /\ clock < MaxTime
  /\ clock' = clock + 1
  /\ UNCHANGED <<pc, request, now, current, captured, finished, reply, store>>

Step(r) ==
  \/ Arrive(r) \/ ScreenOut(r) \/ Acquire(r) \/ Wake(r) \/ CancelWait(r)
  \/ HandlerEnds(r) \/ Complete(r) \/ WriteOwn(r) \/ WriteOwnPanics(r)
  \/ WriteReplay(r)

Next == Tick \/ \E r \in Requests : Step(r)

Spec == Init /\ [][Next]_vars

\* The scheduler runs every goroutine that can run and handlers return.
\* No client need arrive, no context need end, the clock need not move.
Fairness ==
  \A r \in Requests : WF_vars(Acquire(r) \/ Wake(r) \/ HandlerEnds(r)
                              \/ Complete(r) \/ WriteOwn(r) \/ WriteOwnPanics(r)
                              \/ WriteReplay(r))

FairSpec == Spec /\ Fairness

-----------------------------------------------------------------------------
(* Properties.                                                             *)

TypeOK ==
  /\ clock \in Nat
  /\ pc \in [Requests -> Locations]
  /\ request \in [Requests -> [key : Keys, fingerprint : Fingerprints]]
  /\ now \in [Requests -> Nat]
  /\ current \in [Requests -> Requests \cup {NoRequest}]
  /\ captured \in [Requests -> Response]
  /\ finished \in [Requests -> Nat]
  /\ reply \in [Requests -> [kind : Replies, response : Response]]
  /\ entries \in [Keys -> Requests \cup {NoRequest}]
  /\ entry \in [Requests -> Entry]
  /\ nextCleanup \in Nat

Owner(r) == current[r] = r
Executing(r) == Owner(r) /\ ~entry[r].completed

\* Two requests with one key are never both in the handler or on the way from
\* it to complete: the map entry, not a lock held over the handler, keeps the
\* second one out (acquire, lines 257-284).
OneExecution ==
  \A r, s \in Requests : Executing(r) /\ Executing(s) /\ Key(r) = Key(s) => r = s

\* A mutation is not run again for a key until every earlier run of that key
\* has completed and the lifetime of its record is over on the real clock,
\* whatever stale readings of it the cleanups used (cleanup, lines 296-309).
NoReexecutionWithinTTL ==
  [][\A r, s \in Requests :
       /\ pc[r] # "handler" /\ pc'[r] = "handler"
       /\ s # r /\ Owner(s) /\ Key(s) = Key(r)
       => entry[s].completed /\ clock >= entry[s].expires]_vars

\* A replay answers the request it was recorded for, from a completed record
\* that was not past its lifetime when the replayed request arrived: acquire
\* does not look at expires, so this rests on nextCleanup never being later
\* than the earliest expiry (lines 252-254, 303-308 and 332-334).
ReplayFaithful ==
  \A r \in Requests :
    pc[r] = "replaying" \/ reply[r].kind = "replayed"
    => /\ Owner(current[r]) /\ entry[current[r]].completed
       /\ request[current[r]] = request[r]
       /\ now[r] < entry[current[r]].expires
       /\ reply[r].kind = "replayed" =>
            reply[r].response = entry[current[r]].response

\* A completed record never changes again and its done channel is closed only
\* once, also when writing the owner's response panics and the deferred
\* function calls complete a second time (lines 168-173 and 314-316).
RecordImmutable ==
  [][\A r \in Requests :
       entry[r].completed => entry'[r] = [entry[r] EXCEPT !.waiters = entry'[r].waiters]]_vars

\* No owner leaves its key in flight, and what it leaves agrees with what its
\* client was told. A client that was answered has its retries answered the
\* same, or terminally when the response did not fit; one that saw a panic, of
\* the handler or of the write, never has an ordinary response replayed: what
\* is recorded is terminal, or the one that cannot be written, although the
\* record is made before the write and complete is called again after it
\* (lines 167-180 and 314-326).
OwnerLeavesRecord ==
  \A r \in Requests :
    Owner(r) /\ pc[r] = "done" =>
      LET kept == entry[r].response
      IN  /\ entry[r].completed
          /\ reply[r].kind = "executed" =>
               kept = reply[r].response \/ kept.body \in {"unavailable", "bare"}
          /\ reply[r].kind = "panicked" =>
               kept.body \in {"unknown", "invalid", "unavailable", "bare"}

\* The map never holds more keys than MaxEntries, in flight or completed.
EntriesBounded == Cardinality(Present) <= MaxEntries

\* The store's limits hold and its byte counter is exactly the size of what it
\* keeps, over every order of completions, fallbacks and cleanups.
WithinLimits ==
  /\ usedBytes = Cardinality(BytesAt(Present))
  /\ usedBytes <= MaxBytes
  /\ EntriesBounded

Waiting(s) == {r \in Requests : pc[r] = "waiting" /\ current[r] = s}

\* The waiters counter of every entry counts the requests blocked on it, on
\* both ways out of the select, and respects MaxWaiters (lines 275-292).
WaitersCounted ==
  \A s \in Requests : entry[s].waiters = Cardinality(Waiting(s))
                      /\ entry[s].waiters <= MaxWaiters

\* What the store counts is what it holds: bytes, keys and waiters stay exact
\* and within Config's limits over every fallback, cleanup and cancelled wait.
LimitsKept == WithinLimits /\ WaitersCounted

\* Every request that reaches acquire is answered: closing done reaches every
\* waiter, and a waiter that goes round the loop cannot starve.
EveryRequestAnswered ==
  \A r \in Requests : pc[r] = "acquire" ~> pc[r] = "done"

-----------------------------------------------------------------------------
(* The middleware implements its contract.                                 *)

NoRecord == [owner |-> NoRequest]

RecordOf(k) ==
  IF entries[k] = NoRequest THEN NoRecord
  ELSE LET e == entry[entries[k]]
       IN  [owner |-> entries[k], done |-> e.completed,
            response |-> e.response, until |-> e.expires]

\* A replay is decided when its record is found, also if writing it panics.
OutcomeOf(r) ==
  IF Owner(r) THEN [kind |-> "owned"]
  ELSE IF pc[r] = "replaying" \/ reply[r].kind = "panicked"
    THEN [kind |-> "replayed", response |-> entry[current[r]].response]
  ELSE IF reply[r].kind = "replayed"
    THEN [kind |-> "replayed", response |-> reply[r].response]
  ELSE [kind |-> IF reply[r].kind = "none" THEN "pending" ELSE reply[r].kind]

record == [k \in Keys |-> RecordOf(k)]
outcome == [r \in Requests |-> OutcomeOf(r)]

Contract == INSTANCE IdempotencyContract WITH
  Responses <- [body : Bodies, size : Sizes \cup {0, TerminalSize}],
  arrival <- now

\* Every behaviour of the middleware and its store is one the contract allows.
ImplementsContract == Contract!Spec
=============================================================================
