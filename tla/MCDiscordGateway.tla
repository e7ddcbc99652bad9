-------------------------- MODULE MCDiscordGateway --------------------------
(* DiscordGateway with the small limits of the .cfg file.                   *)
EXTENDS DiscordGateway

\* A run in which Discord omits or repeats events has one session; a second
\* session has two events.
MCNext ==
  /\ Next
  /\ jumps' = {} \/ Len(events') <= 1
  /\ Len(events') = 2 => Len(events'[2]) <= 2
MCSpec == Init /\ [][MCNext]_vars /\ Fairness
=============================================================================
