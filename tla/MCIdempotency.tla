---------------------------- MODULE MCIdempotency ----------------------------
(* Instances of Idempotency for TLC. *)
EXTENDS Idempotency, TLC

CONSTANTS r1, r2, r3, k1, k2, k3, f1, f2

\* Requests, keys and fingerprints are interchangeable and fingerprints are
\* compared under one key only, so these initial requests stand for all: r1,
\* the one RequestAnswered follows, and two others around it.
Meet(a, b) == {<<a, b>>, <<a, [b EXCEPT !.fingerprint = f2]>>}
MCRequests ==
  LET of(k) == [key |-> k, fingerprint |-> f1]
      other == [key |-> k1, fingerprint |-> f2]
      Triples == {<<of(k1), p[1], p[2]>> : p \in Meet(of(k2), of(k2))}
            \cup {<<p[1], p[2], of(k2)>> : p \in Meet(of(k1), of(k1))}
            \cup {<<of(k1), p[1], p[2]>> : p \in Meet(of(k1), of(k1))}
            \cup {<<of(k1), other, other>>, <<of(k1), of(k2), of(k3)>>}
  IN  {(r1 :> t[1]) @@ (r2 :> t[2]) @@ (r3 :> t[3]) : t \in Triples}

MCInit == Init /\ request \in MCRequests
MCSpec == MCInit /\ [][Next]_vars /\ Fairness

\* Every request that reaches acquire is answered: closing done reaches every
\* waiter, and a waiter that goes round the loop does not starve (acquire,
\* lines 281-286). As no request leaves "done", this is EveryRequestAnswered
\* of r1.
RequestAnswered == []<>(pc[r1] \in {"new", "done"})
=============================================================================
