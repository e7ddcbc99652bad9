------------------------ MODULE IdempotencyContract ------------------------
(***************************************************************************)
(* What the idempotency plugin promises its clients                        *)
(* (docs/http-idempotency.md and the middleware's four outcomes), with no  *)
(* lock, waiters, cleanup schedule or byte budget: at most one record per  *)
(* key, one execution per record, the record kept until its lifetime is    *)
(* over, and replays only of a record that matches the request and was     *)
(* alive when the request arrived.                                         *)
(***************************************************************************)
EXTENDS Integers

CONSTANTS Requests, Keys, Fingerprints, Responses, NoResponse, TTL, NoRecord

VARIABLES clock, request, arrival, record, outcome

vars == <<clock, request, arrival, record, outcome>>

\* A record says who executes or executed, whether it is done, what is
\* replayed and until when it must be kept.
Pending == [kind |-> "pending"]
Refusals == {[kind |-> k] : k \in {"screened", "unavailable", "conflict"}}
Owned == [kind |-> "owned"]
Replayed(response) == [kind |-> "replayed", response |-> response]

Dead(k) == /\ record[k] # NoRecord /\ record[k].done
           /\ clock >= record[k].until

\* Any set of dead records may be dropped by a step that looks at the store.
Forgotten == {[k \in Keys |-> IF k \in K THEN NoRecord ELSE record[k]] :
                K \in SUBSET {k \in Keys : Dead(k)}}

Init ==
  /\ clock = 1
  /\ request \in [Requests -> [key : Keys, fingerprint : Fingerprints]]
  /\ arrival = [r \in Requests |-> 0]
  /\ record = [k \in Keys |-> NoRecord]
  /\ outcome = [r \in Requests |-> Pending]

Arrive(r) ==
  /\ outcome[r] = Pending /\ arrival[r] = 0
  /\ arrival' = [arrival EXCEPT ![r] = clock]
  /\ UNCHANGED <<clock, request, record, outcome>>

Decide(r, o) == outcome[r] = Pending /\ outcome' = [outcome EXCEPT ![r] = o]

\* Nothing executes; only "conflict" says something about the record, that
\* it belongs to a different request.
Refuse(r) ==
  /\ record' \in Forgotten
  /\ \E o \in Refusals :
       /\ Decide(r, o)
       /\ o.kind = "conflict" =>
            LET held == record'[request[r].key]
            IN  held # NoRecord /\
                request[held.owner].fingerprint # request[r].fingerprint
  /\ UNCHANGED <<clock, request, arrival>>

Begin(r) ==
  /\ Decide(r, Owned) /\ arrival[r] > 0
  /\ \E record0 \in Forgotten :
       /\ record0[request[r].key] = NoRecord
       /\ record' = [record0 EXCEPT ![request[r].key] =
            [owner |-> r, done |-> FALSE, response |-> NoResponse, until |-> 0]]
  /\ UNCHANGED <<clock, request, arrival>>

End(k) ==
  /\ record[k] # NoRecord /\ ~record[k].done
  /\ \E response \in Responses,
        until \in (arrival[record[k].owner] + TTL) .. (clock + TTL) :
       record' = [record EXCEPT ![k] =
         [@ EXCEPT !.done = TRUE, !.response = response, !.until = until]]
  /\ UNCHANGED <<clock, request, arrival, outcome>>

Replay(r) ==
  /\ record' \in Forgotten
  /\ LET held == record'[request[r].key]
     IN  /\ held # NoRecord /\ held.done
         /\ request[held.owner].fingerprint = request[r].fingerprint
         /\ 0 < arrival[r] /\ arrival[r] < held.until
         /\ Decide(r, Replayed(held.response))
  /\ UNCHANGED <<clock, request, arrival>>

\* A request that goes on waiting may have dropped dead records too.
LookUp ==
  /\ record' \in Forgotten
  /\ UNCHANGED <<clock, request, arrival, outcome>>

Tick ==
  /\ clock' = clock + 1
  /\ UNCHANGED <<request, arrival, record, outcome>>

Next ==
  \/ Tick \/ LookUp
  \/ \E r \in Requests : Arrive(r) \/ Refuse(r) \/ Begin(r) \/ Replay(r)
  \/ \E k \in Keys : End(k)

Spec == Init /\ [][Next]_vars
=============================================================================
