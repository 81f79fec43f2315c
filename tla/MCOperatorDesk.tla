--------------------------- MODULE MCOperatorDesk ---------------------------
(* The operators' controls on a small instance.  The switch and the config *)
(* rows share no table and no transaction, and the bot and the engine meet *)
(* in the switch only: a behaviour exercises the commands with one of the  *)
(* two, or the config row.                                                 *)
EXTENDS TelegramCommands, ConfigStore, TLC

VARIABLE desk

MCDefaults == [f \in Fields |-> 0]

OperatorInit ==
    /\ DeskInit
    /\ ConfigInit
    /\ desk \in {"switch", "chat", "config"}

\* Commands and the engine, and a bot nobody writes to.
SwitchNext == desk = "switch" /\ DeskNext /\ chat' = chat /\ UNCHANGED <<desk, configVars>>
\* Commands that all come through the bot, and an engine without signals.
ChatNext ==
    /\ desk = "chat"
    /\ DeskNext
    /\ engine' = engine
    /\ issued' # issued => poll'.pc = "waiting" /\ poll.pc # "waiting"
    /\ UNCHANGED <<desk, configVars>>
PatchNext == desk = "config" /\ ConfigNext /\ UNCHANGED <<desk, deskVars>>

OperatorNext == SwitchNext \/ ChatNext \/ PatchNext

Awake(c) == DeskStep(c) /\ UNCHANGED <<desk, configVars>>
OperatorSpec ==
    /\ OperatorInit
    /\ [][OperatorNext]_<<deskVars, configVars, desk>>
    /\ \A c \in Commands : SF_deskVars(Awake(c))

(* The type invariants of the switch, the bot and the config row.          *)
ControlsTypeOK == TypeOK /\ BotTypeOK /\ ConfigTypeOK

=============================================================================
