-------------------------- MODULE DiscordCommands --------------------------
(***************************************************************************)
(* Slash command definitions (channels/discord/commands.go): which ones are*)
(* accepted, how they are normalized, what is compared with and sent to    *)
(* Discord.  A name is a natural number, 0 for one that validCommandName   *)
(* refuses; a description is its length; an absent value is None.          *)
(***************************************************************************)
EXTENDS Naturals, Sequences

CONSTANTS None

optionTypes == 3..7   \* string, integer, boolean, user, channel
commandChatInput == 1

normalizeCommand(command) ==
  [command EXCEPT !.type = IF @ = 0 THEN commandChatInput ELSE @,
                  !.dmPermission = IF @ = TRUE THEN None ELSE @]

validDescription(length) == length \in 1..100

\* Required options come first, and no two options have one name.
validateCommand(command) ==
  LET options == command.options IN
  /\ command.type = commandChatInput /\ command.name # 0
  /\ validDescription(command.description)
  /\ Len(options) <= 25
  /\ \A i \in DOMAIN options :
       /\ options[i].type \in optionTypes /\ options[i].name # 0
       /\ validDescription(options[i].description)
       /\ \A j \in 1..(i - 1) : /\ options[j].name # options[i].name
                                /\ options[i].required => options[j].required

\* Discord is not told whether automatic deferral is private.
definition(command) == [command EXCEPT !.ephemeral = FALSE]
commandDefinitions(commands) == {definition(c) : c \in commands}
=============================================================================
