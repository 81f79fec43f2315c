----------------------------- MODULE AuditFeed ------------------------------
(***************************************************************************)
(* The audit log as a feed.  Every service writes `audit_events` rows      *)
(* inside its own transaction; created_at is the transaction's start, so   *)
(* rows become visible in another order than the one they are read in.     *)
(* The notifier's poll keeps a cursor in `notifier_state`, reads the rows  *)
(* past it, relays some of them to Telegram and commits the cursor once    *)
(* the batch is over.                                                      *)
(*                                                                         *)
(* An event is its position in the (created_at, id) order.                 *)
(***************************************************************************)
EXTENDS Naturals, Sequences, FiniteSets, SequencesExt

CONSTANTS
    BatchSize,    \* _AUDIT_BATCH_SIZE
    NoCursor,     \* notifier_state has no row yet
    MaxEvents,    \* bound: rows of audit_events
    MaxFailures   \* bound: refused or unanswered messages, and polls that died

ASSUME ConstantsAssumption ==
    /\ BatchSize \in Nat \ {0}
    /\ NoCursor \notin Nat
    /\ MaxEvents \in Nat
    /\ MaxFailures \in Nat

VARIABLES
    events,    \* the rows: the transaction of each, and whether Telegram gets it
    open,      \* transactions neither committed nor rolled back
    visible,   \* committed rows
    cursor,    \* (last_audit_created_at, last_audit_id), committed
    poll,      \* the poll under way: rows still to handle, cursor in the session
    chat,      \* the messages Telegram delivered
    failures,  \* history: sends that failed and polls that died
    behind     \* history: rows the poll had read past before they were visible

vars == <<events, open, visible, cursor, poll, chat, failures, behind>>

Events == 1..Len(events)
Idle == [pc |-> "idle", todo |-> <<>>, at |-> 0]
RowsOf(t) == {e \in Events : events[e].tx = t}
Relayed(e) == events[e].relayed

Init ==
    /\ events = <<>>
    /\ open = {}
    /\ visible = {}
    /\ cursor = NoCursor
    /\ poll = Idle
    /\ chat = <<>>
    /\ failures = 0
    /\ behind = {}

(***************************************************************************)
(* The writers.                                                            *)
(***************************************************************************)
\* A transaction writes one row, or two that share a created_at.
BeginTransaction(kinds) ==
    /\ Len(events) + Len(kinds) <= MaxEvents
    /\ LET t == Len(events) + 1 IN
          /\ events' = events \o [i \in 1..Len(kinds) |-> [tx |-> t, relayed |-> kinds[i]]]
          /\ open' = open \cup {t}
    /\ UNCHANGED <<visible, cursor, poll, chat, failures, behind>>

\* The newest row the poll has handled or read.
ReadTo ==
    IF poll.todo # <<>> THEN Last(poll.todo)
    ELSE IF poll.pc = "sending" THEN poll.at
    ELSE IF cursor = NoCursor THEN 0 ELSE cursor

CommitTransaction(t) ==
    /\ t \in open
    /\ open' = open \ {t}
    /\ visible' = visible \cup RowsOf(t)
    /\ behind' = behind \cup {e \in RowsOf(t) : e <= ReadTo}
    /\ UNCHANGED <<events, cursor, poll, chat, failures>>

RollBack(t) ==
    /\ t \in open
    /\ open' = open \ {t}
    /\ UNCHANGED <<events, visible, cursor, poll, chat, failures, behind>>

(***************************************************************************)
(* The poll.                                                               *)
(***************************************************************************)
\* Mutant: the cursor starts from now on every poll.
InitState_EveryPoll ==
    /\ poll = Idle
    /\ cursor' = Len(events)
    /\ behind' = behind
    /\ UNCHANGED <<events, open, visible, poll, chat, failures>>

\* A fresh notifier starts from now: the history is not relayed.
InitState ==
    /\ cursor = NoCursor
    /\ cursor' = Len(events)
    /\ behind' = Events
    /\ UNCHANGED <<events, open, visible, poll, chat, failures>>

Unread == {e \in visible : e > cursor}

\* Mutant: the LIMIT is left out.
ReadBatch_NoLimit ==
    /\ poll = Idle /\ cursor # NoCursor /\ Unread # {}
    /\ poll' = [pc |-> "sending", todo |-> SetToSortSeq(Unread, <), at |-> cursor]
    /\ UNCHANGED <<events, open, visible, cursor, chat, failures, behind>>

\* ORDER BY created_at, id LIMIT _AUDIT_BATCH_SIZE.
Limit(S) == IF Cardinality(S) > BatchSize THEN BatchSize ELSE Cardinality(S)
FirstRows(S) ==
    {rows \in [1..Limit(S) -> S] :
        /\ \A i, j \in DOMAIN rows : i < j => rows[i] < rows[j]
        /\ \A e \in S : e \in ToSet(rows) \/ \A i \in DOMAIN rows : rows[i] < e}

ReadBatch ==
    /\ poll = Idle /\ cursor # NoCursor /\ Unread # {}
    /\ \E rows \in FirstRows(Unread) :
          poll' = [pc |-> "sending", todo |-> rows, at |-> cursor]
    /\ UNCHANGED <<events, open, visible, cursor, chat, failures, behind>>

\* The session's cursor moves past the row just handled.
Advanced == [poll EXCEPT !.todo = Tail(@), !.at = Head(poll.todo)]

SkipRow ==
    /\ poll.todo # <<>> /\ ~Relayed(Head(poll.todo))
    /\ poll' = Advanced
    /\ UNCHANGED <<events, open, visible, cursor, chat, failures, behind>>

Send ==
    /\ poll.todo # <<>> /\ Relayed(Head(poll.todo))
    /\ chat' = Append(chat, Head(poll.todo))
    /\ poll' = Advanced
    /\ UNCHANGED <<events, open, visible, cursor, failures, behind>>

\* The failed send, whether the message was refused or only its reply lost.
Fails ==
    /\ failures < MaxFailures
    /\ failures' = failures + 1
    /\ UNCHANGED <<events, open, visible, cursor, behind>>

\* Mutants: the batch goes on past the failed row; it stops, but past that row.
SendFails_GoesOn ==
    /\ poll.todo # <<>> /\ Relayed(Head(poll.todo))
    /\ chat' \in {chat, Append(chat, Head(poll.todo))}
    /\ poll' = [poll EXCEPT !.todo = Tail(@)]
    /\ Fails
SendFails_MovesPast ==
    /\ poll.todo # <<>> /\ Relayed(Head(poll.todo))
    /\ chat' \in {chat, Append(chat, Head(poll.todo))}
    /\ poll' = [Advanced EXCEPT !.todo = <<>>]
    /\ Fails

SendFails ==
    /\ poll.todo # <<>> /\ Relayed(Head(poll.todo))
    /\ chat' \in {chat, Append(chat, Head(poll.todo))}
    /\ poll' = [poll EXCEPT !.todo = <<>>]
    /\ Fails

\* Mutant: the session is closed without a commit.
CommitCursor_Not ==
    /\ poll.pc = "sending" /\ poll.todo = <<>>
    /\ poll' = Idle
    /\ UNCHANGED <<events, open, visible, cursor, chat, failures, behind>>

CommitCursor ==
    /\ poll.pc = "sending" /\ poll.todo = <<>>
    /\ cursor' = poll.at
    /\ poll' = Idle
    /\ UNCHANGED <<events, open, visible, chat, failures, behind>>

\* An exception, or the notifier's crash, before the cursor is committed.
PollDies ==
    /\ poll.pc = "sending"
    /\ poll' = Idle
    /\ Fails
    /\ UNCHANGED chat

-----------------------------------------------------------------------------
Transactions ==
    \/ \E kinds \in {<<r>> : r \in BOOLEAN} \cup (BOOLEAN \X BOOLEAN) : BeginTransaction(kinds)
    \/ \E t \in open : CommitTransaction(t) \/ RollBack(t)
Poll == InitState \/ ReadBatch \/ SkipRow \/ Send \/ CommitCursor

Next == Transactions \/ Poll \/ SendFails \/ PollDies

Spec == Init /\ [][Next]_vars

\* The poll loop never ends; with failures bounded, Telegram answers again.
FairSpec == Spec /\ WF_vars(Poll)

-----------------------------------------------------------------------------
(* A poll never holds more rows than its LIMIT.                            *)
TypeOK ==
    /\ events \in Seq([tx : 1..MaxEvents, relayed : BOOLEAN])
    /\ open \subseteq 1..MaxEvents
    /\ visible \subseteq Events /\ behind \subseteq Events
    /\ cursor \in {NoCursor} \cup 0..MaxEvents
    /\ poll.pc \in {"idle", "sending"} /\ poll.at \in 0..MaxEvents
    /\ poll.todo \in Seq(Events) /\ Len(poll.todo) <= BatchSize
    /\ failures \in 0..MaxFailures

(* The committed cursor never passes a relayed row Telegram did not get,   *)
(* unless the row was committed after the poll had read past it            *)
(* (_poll_audit_events: deferred, not dropped).                            *)
NoneSkipped ==
    cursor # NoCursor =>
        \A e \in visible \ behind : Relayed(e) /\ e <= cursor => Contains(chat, e)

(* No message overtakes an earlier row of the log: a failed send holds     *)
(* back everything after it.                                               *)
RelayedInOrder ==
    [][chat' # chat =>
         \A f \in visible \ behind :
             f < Last(chat') /\ Relayed(f) => Contains(chat, f)]_vars

(* A message is repeated only because a send or a poll failed.             *)
RepeatsAreRetries ==
    \A e \in ToSet(chat) : Cardinality({i \in 1..Len(chat) : chat[i] = e}) <= 1 + failures

(* Every such row is relayed in the end, however many polls die first.     *)
EventuallyRelayed ==
    \A e \in 1..MaxEvents :
        (cursor # NoCursor /\ e \in visible \ behind /\ Relayed(e)) ~> Contains(chat, e)

=============================================================================
