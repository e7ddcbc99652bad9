--------------------------- MODULE MCDiscordLimits ---------------------------
(* Instances of DiscordLimits for TLC. *)
EXTENDS DiscordLimits

Sample == CHOOSE q \in Requests : TRUE

\* Every request comes to an end: through waits for permits, resets and 429s
\* each step of lock and requestWithAuth leads to the next, and no permit is
\* lost on the way. Requests are interchangeable, so one of them stands for
\* EveryRequestEnds.
RequestEnds == <>(pc[Sample] = "done")
=============================================================================
