----------------------------- MODULE FixedWindow -----------------------------
(***************************************************************************)
(* What a rate limit store promises (core/http/plugins/ratelimit): every   *)
(* key has at most one window, a window lets at most Limit requests        *)
(* through, and it stays in force until its reset has passed on the        *)
(* store's clock, however old the readings are with which requests come.   *)
(* How a window is kept, when one that is over is forgotten, and when the  *)
(* store fails, is open.                                                   *)
(***************************************************************************)
EXTENDS Integers

CONSTANTS
  Requests, Keys,
  Limit,    \* requests a window lets through
  Longest   \* the longest a window may last

VARIABLES
  clock,    \* real time
  early,    \* how far the store's clock may be ahead of it
  key,      \* the key of each request
  windows,  \* the window of each key
  answer    \* what each request was told

vars == <<clock, early, key, windows, answer>>

NoWindow == [count |-> 0, reset |-> 0]

Init ==
  /\ clock = 0 /\ early \in Nat /\ key \in [Requests -> Keys]
  /\ windows = [k \in Keys |-> NoWindow]
  /\ answer = [r \in Requests |-> "none"]

Over(k) == windows[k].reset <= clock + early

\* A window stays as it is until it is over; then it may be forgotten.
Kept(k) ==
  \/ windows'[k] = windows[k]
  \/ Over(k) /\ windows'[k] = NoWindow

Told(r, a) ==
  /\ answer[r] = "none" /\ answer' = [answer EXCEPT ![r] = a]
  /\ UNCHANGED <<clock, early, key>>

\* The request is one of at most Limit in the window of its key, a running one
\* or a new one in the place of one that is over.
Counted(k) ==
  \/ windows[k].count \in 1..(Limit - 1)
     /\ windows'[k] = [windows[k] EXCEPT !.count = @ + 1]
  \/ Over(k) /\ windows'[k] \in [count : {1}, reset : 0..(clock + early + Longest)]

\* A store that fails may have counted the request all the same.
Consume(r) ==
  /\ Counted(key[r]) /\ \A k \in Keys \ {key[r]} : Kept(k)
  /\ Told(r, "allowed") \/ Told(r, "unavailable")

Deny(r) ==
  /\ windows[key[r]].count = Limit /\ windows'[key[r]] = windows[key[r]]
  /\ \A k \in Keys : Kept(k)
  /\ Told(r, "denied")

Fail(r) ==
  /\ \A k \in Keys : Kept(k)
  /\ Told(r, "unavailable")

Forget == (\A k \in Keys : Kept(k)) /\ UNCHANGED <<clock, early, key, answer>>

Tick == clock' = clock + 1 /\ UNCHANGED <<early, key, windows, answer>>

Next == Tick \/ Forget \/ \E r \in Requests : Consume(r) \/ Deny(r) \/ Fail(r)

Spec == Init /\ [][Next]_vars
=============================================================================
