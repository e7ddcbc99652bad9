----------------------- MODULE MCDiscordInteractions -----------------------
(* Two interactions, one slot, a private command with options or a public  *)
(* one, an unacceptable one, and an older definition left with Discord.    *)
EXTENDS DiscordInteractions

Defined(name, options, private) ==
  [type |-> 0, name |-> name, description |-> 1, options |-> options,
   dmPermission |-> TRUE, ephemeral |-> private]
Opt(name, required) ==
  [type |-> 3, name |-> name, description |-> 1, required |-> required]

MCCandidates == {Defined(1, <<Opt(1, TRUE), Opt(2, FALSE)>>, TRUE), Defined(1, <<>>, FALSE),
                 Defined(2, <<Opt(1, FALSE), Opt(2, TRUE)>>, FALSE)}
MCOlder == {definition(normalizeCommand(Defined(1, <<>>, FALSE)))}

\* The interactions are interchangeable, so i1 comes first; i2, which competes for
\* the slot, comes only where the command is private and no synchronization is
\* going on.
CONSTANTS i1, i2
MCNext ==
  /\ Next
  /\ phase'[i2] # "none" => /\ phase[i1] # "none" /\ sync.at \notin {"get", "put"}
                            /\ \A c \in commands : c.ephemeral
MCSpec == Init /\ [][MCNext]_vars /\ Fairness
=============================================================================
