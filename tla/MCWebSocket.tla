---------------------------- MODULE MCWebSocket ----------------------------
(* Whole and fragmented messages, one that is too large, control frames, and  *)
(* frames that are not allowed, over a network that holds one write.          *)
EXTENDS WebSocket

Frame(op, fin, size, data) == [op |-> op, fin |-> fin, size |-> size, data |-> data]

\* The first frame of a text ends inside a character that the second completes.
MCFrames ==
  { Frame("text", FALSE, 1, "head"), Frame("text", TRUE, 1, "head"),
    Frame("continuation", TRUE, 2, "tail"), Frame("continuation", TRUE, 1, "tail"),
    Frame("binary", TRUE, 3, "any"), Frame("ping", TRUE, 1, "any"),
    Frame("close", TRUE, 1, "any") }

MCUtf8 == { <<"head", "tail">> }

\* Where the dial context ends, the peer sends one frame at most.
MCNext == Next /\ (cancelled' => Len(peerSent') <= 1)
MCSpec == Init /\ [][MCNext]_vars /\ Fairness
=============================================================================
