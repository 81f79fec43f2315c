-------------------------- MODULE TelegramCommands --------------------------
(***************************************************************************)
(* The notifier's command poll: /killswitch_on and /killswitch_off sent to *)
(* the bot become requests to the admin API, each a transaction of         *)
(* KillSwitch.  Updates are fetched from the committed id on, handled in   *)
(* order, and the id of the last one is committed once for the whole       *)
(* batch.  The poll waits 15 s for the admin API; the request does not     *)
(* stop when the poll stops waiting.                                       *)
(***************************************************************************)
EXTENDS KillSwitch, FiniteSets

CONSTANTS
    MaxUpdates,  \* bound: messages in the bot's chats
    MaxDeaths    \* bound: batches that end without their commit

ASSUME TelegramAssumption == MaxUpdates \in Nat /\ MaxDeaths \in Nat

VARIABLES
    chat,     \* the bot's updates: "on", "off", or "other" (a stranger's, or no command)
    lastId,   \* notifier_state.last_telegram_update_id, committed; 0 is NULL
    poll,     \* the batch being handled
    serves,   \* the update that a request to the admin API was made for, or 0
    deaths,   \* batches that ended without their commit
    tried,    \* history: updates posted to the admin API
    carried,  \* history: how often an update's command was committed
    told      \* history: updates answered with success

bot == <<chat, lastId, poll, serves, deaths, tried, carried, told>>
deskVars == <<row, mirror, audit, lockedBy, tx, engine, issued, entries, slipped, bot>>

Updates == 1..MaxUpdates
Asleep == [pc |-> "asleep", at |-> 0, upto |-> 0, by |-> Nobody, result |-> "error"]

DeskInit ==
    /\ Init
    /\ chat = <<>>
    /\ lastId = 0
    /\ poll = Asleep
    /\ serves = [c \in Operators |-> 0]
    /\ deaths = 0
    /\ tried = {}
    /\ carried = [u \in Updates |-> 0]
    /\ told = {}

Polling(pc) == poll.pc = pc
Current == poll.at + 1

Message(text) ==
    /\ Len(chat) < MaxUpdates
    /\ chat' = Append(chat, text)
    /\ UNCHANGED <<vars, lastId, poll, serves, deaths, tried, carried, told>>

\* getUpdates from the committed id on; a poll that gets nothing rolls back.
GetUpdates ==
    /\ Polling("asleep")
    /\ lastId < Len(chat)
    /\ poll' = [Asleep EXCEPT !.pc = "batch", !.at = lastId, !.upto = Len(chat)]
    /\ UNCHANGED <<vars, chat, lastId, serves, deaths, tried, carried, told>>

HasUpdate == Polling("batch") /\ poll.at < poll.upto

IgnoreUpdate ==
    /\ HasUpdate
    /\ chat[Current] = "other"
    /\ poll' = [poll EXCEPT !.at = Current]
    /\ UNCHANGED <<vars, chat, lastId, serves, deaths, tried, carried, told>>

\* POST /killswitch/enable or /disable.
PostCommand(c) ==
    /\ HasUpdate
    /\ chat[Current] # "other"
    /\ Request(c, chat[Current] = "on")
    /\ serves' = [serves EXCEPT ![c] = Current]
    /\ poll' = [poll EXCEPT !.pc = "waiting", !.by = c]
    /\ tried' = tried \cup {Current}
    /\ UNCHANGED <<chat, lastId, deaths, carried, told>>

\* An operator calls the admin API directly.
DirectRequest(c, want) ==
    /\ Request(c, want)
    /\ serves' = [serves EXCEPT ![c] = 0]
    /\ UNCHANGED <<chat, lastId, poll, deaths, tried, carried, told>>

AwaitedBy(c) == Polling("waiting") /\ poll.by = c
Answer(c, results) ==
    IF AwaitedBy(c)
    THEN \E r \in results : poll' = [poll EXCEPT !.pc = "reply", !.result = r]
    ELSE UNCHANGED poll

\* The command is committed.  The answer to it may still be an error: the
\* state is read again after the commit, and the response can be lost.
CommitCommand(c) ==
    /\ Commit(c)
    /\ IF c \in Operators
       THEN /\ Answer(c, {"done", "error"})
            /\ carried' = [u \in Updates |->
                             IF u = serves[c] THEN carried[u] + 1 ELSE carried[u]]
       ELSE UNCHANGED <<poll, carried>>
    /\ UNCHANGED <<chat, lastId, serves, deaths, tried, told>>

\* The transaction failed: the API answers 500, or nothing.
AbortCommand(c) ==
    /\ Rollback(c)
    /\ IF c \in Operators THEN Answer(c, {"error"}) ELSE UNCHANGED poll
    /\ UNCHANGED <<chat, lastId, serves, deaths, tried, carried, told>>

\* 15 s without an answer: the request may go on.
StopWaiting ==
    /\ Polling("waiting")
    /\ poll' = [poll EXCEPT !.pc = "reply", !.result = "error"]
    /\ UNCHANGED <<vars, chat, lastId, serves, deaths, tried, carried, told>>

\* send_message swallows its own failures: the update counts as handled.
Reply ==
    /\ Polling("reply")
    /\ poll' = [poll EXCEPT !.pc = "batch", !.at = Current, !.by = Nobody]
    /\ told' = IF poll.result = "done" THEN told \cup {Current} ELSE told
    /\ UNCHANGED <<vars, chat, lastId, serves, deaths, tried, carried>>

\* Mutant: the id is lost with the session.
CommitOffset_Not ==
    /\ Polling("batch")
    /\ poll.at = poll.upto
    /\ poll' = Asleep
    /\ UNCHANGED <<vars, chat, lastId, serves, deaths, tried, carried, told>>

CommitOffset ==
    /\ Polling("batch")
    /\ poll.at = poll.upto
    /\ lastId' = poll.at
    /\ poll' = Asleep
    /\ UNCHANGED <<vars, chat, serves, deaths, tried, carried, told>>

\* The notifier restarts, or an exception leaves the batch.
BatchDies ==
    /\ ~Polling("asleep")
    /\ deaths < MaxDeaths
    /\ deaths' = deaths + 1
    /\ poll' = Asleep
    /\ UNCHANGED <<vars, chat, lastId, serves, tried, carried, told>>

-----------------------------------------------------------------------------
BotIdle == UNCHANGED bot

DeskStep(c) ==
    \/ Read(c) /\ BotIdle
    \/ Flush(c) /\ BotIdle
    \/ SetMirror(c) /\ BotIdle
    \/ CommitCommand(c)

Engine ==
    /\ EngineReads \/ EngineRejects \/ EngineTrips \/ EngineSubmits
    /\ BotIdle

DeskNext ==
    \/ \E c \in Operators, want \in BOOLEAN : DirectRequest(c, want)
    \/ \E c \in Commands : DeskStep(c) \/ AbortCommand(c)
    \/ Engine
    \/ \E text \in {"on", "off", "other"} : Message(text)
    \/ \E c \in Operators : PostCommand(c)
    \/ GetUpdates \/ IgnoreUpdate \/ StopWaiting \/ Reply \/ CommitOffset \/ BatchDies

DeskSpec == DeskInit /\ [][DeskNext]_deskVars

\* Every statement of a transaction returns; nothing is asked of the poll.
FairDesk == DeskSpec /\ \A c \in Commands : SF_deskVars(DeskStep(c))

-----------------------------------------------------------------------------
(* The poll, its offset and the history variables have their types.        *)
BotTypeOK ==
    /\ chat \in Seq({"on", "off", "other"}) /\ Len(chat) <= MaxUpdates
    /\ lastId \in 0..Len(chat)
    /\ poll \in [pc : {"asleep", "batch", "waiting", "reply"}, at : 0..Len(chat),
                 upto : 0..Len(chat), by : Operators \cup {Nobody}, result : {"done", "error"}]
    /\ serves \in [Operators -> 0..Len(chat)]
    /\ deaths \in 0..MaxDeaths
    /\ tried \subseteq 1..Len(chat) /\ told \subseteq tried
    /\ carried \in [Updates -> Nat]

(* What an operator may rely on when talking to the bot, whatever dies in  *)
(* between: no command is passed over without having been posted, an       *)
(* answer of success means that the command is in the audit table, and a   *)
(* command is carried out again only if a batch died (the offset is        *)
(* committed after the batch).                                             *)
ChatObeyed ==
    \A u \in 1..Len(chat) :
        /\ u <= lastId /\ chat[u] # "other" => u \in tried
        /\ u \in told => carried[u] > 0 /\ \E i \in DOMAIN audit : audit[i] = (chat[u] = "on")
        /\ carried[u] <= 1 + deaths

=============================================================================
