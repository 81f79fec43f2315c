# TradeMind: specifications and proofs

TradeMind trades spot pairs from candles.  A scheduler asks an LLM service for a
decision on every closed candle, a risk engine accepts or rejects it and hands
orders to Freqtrade, an admin API records what Freqtrade reports, and a notifier
tells the operator.  This directory holds TLA+ models of the parts of that system
that are hard to test - the protocols between its processes, its two databases and
Freqtrade, the rules that decide and the tools that replay them over history - with TLC
configurations that check them and TLAPS proofs about all of them.

All paths below are relative to `src/`; `services/` holds the Python services.

## 1. The system

### Components, their state and their operations

| component | state | operations | hard behaviour |
|---|---|---|---|
| scheduler cycle (`scheduler/app/jobs.py`, `main.py`) | Redis `lock:cycle:*`, `idempotency:candle:*`; a transaction that inserts `signals` | lock, claim the candle, call `/analyze`, commit, publish | several replicas, a lock shorter than a cycle, crashes between the claim, the commit and the publication |
| risk-engine consumer (`risk_engine/app/main.py`) | consumer group on `signals:pending`, `idempotency:decision:*`, `risk_decisions`, `orders` | read, evaluate, call Freqtrade, commit, acknowledge | exceptions, restarts, duplicated messages; a remote call inside a transaction |
| order ledger: webhooks and reconciliation (`admin_api/app/routers/webhooks.py`, `risk_engine/app/reconciliation.py`) | `orders`, `positions`, alerts in `audit_events` | entry_fill, exit_fill, entry_cancel, exit_cancel; the reconciliation pass | lost, late and racing webhooks; replies without a trade id; reads that are stale when written |
| kill switch (`common/kill_switch.py`, `admin_api/app/routers/killswitch.py`) | row of `system_state`, Redis `killswitch:global`, audit events | enable, disable, automatic trip, the engine's rule 1 | overlapping transactions that read without a lock; a mirror written before the commit |
| notifier audit feed (`notifier/app/main.py`) | cursor in `notifier_state` | poll, send, commit the cursor | rows that become visible out of order; sends that fail after delivery; a crash before the cursor is saved |
| notifier commands (same file) | Telegram offset in `notifier_state` | `/killswitch_on`, `/killswitch_off` through the admin API | the offset is committed after the batch; the poll stops waiting after 15 s, the request does not |
| config overrides (`common/*_config_store.py`, `routers/config.py`) | a JSON column | PATCH /config and /config/llm | overlapping PATCHes read, merge and write the whole JSON; the confirmation is checked on a read of its own |
| LLM service (`llm_service/app`) | none | build the context, pre-filter, call the provider, validate, repair, apply the rubric, score | two places predict the same rules; retry, deadline and repair fail one after the other |
| LLM health streak (`jobs.py`, `_track_llm_analyze_health`) | Redis counter | count, alert, recover | INCR and EXPIRE against GET and DELETE, an INCR that is resent when its reply is lost, an alert in a transaction that may fail |
| entry rules, exit rules, sizing (`risk_engine/app/rules`, `evaluator.py`, `exit_evaluator.py`, `sizing.py`) | none (pure) | ordered rules, clamped size | boundaries, order of the rules |
| account state (`risk_engine/app/account_state.py`) | none (read of `positions`) | loss events, daily result, exposure | clusters of losses, operator reset |
| performance (`common/performance.py`, `admin_api/app/performance.py`, expectancy filter) | none (pure) | metrics, drawdown, breakdowns, expectancy of a setup | cohorts that overlap or lose a trade |
| backtests (`scripts/backtest`) | the in-memory ledger | replay candles through the rubric or the LLM service and the risk engine's rules | running totals that must agree with production's queries; fills in gaps |
| historical simulator (`tools/historical_replay`) | cash, positions, waiting orders, trades | replay synthetic signals | orders that wait for the next open; fees |
| strategy (`freqtrade/user_data/strategies`) | none of its own | ROI table, static and trailing stop | modelled as `ledger.py` mirrors it |
| balance snapshot (`balance_monitor.py`) | Redis value with a TTL | publish, invalidate | display only |
| reports, frontend, scripts | none the system depends on | | |

### How they interact

```
 exchange --> scheduler --(/analyze)--> LLM service
                 | commit signals      (Postgres)
                 | XADD signals:pending (Redis)
                 v
             risk engine --forceenter/forceexit--> Freqtrade
                 | commit risk_decisions, orders      |  webhooks, once, no retry
                 |<-- get_trade (reconciliation) -----|
                 v                                    v
             Postgres <--- orders, positions --- admin API <--- operator, Telegram
                 |                                    | system_state, killswitch:global
                 v
             notifier --> Telegram
                 `--(enable, disable)--> admin API

 history --> backtest ledger --> rubric, risk rules, performance metrics
         --> historical simulator --> risk rules
```

Processes share Postgres and Redis and nothing else; every handler is an asyncio
coroutine, so that between any two awaits other handlers, other replicas and
Freqtrade itself may act.  That is the granularity of the models: an action is
what happens up to the next point at which somebody else can see or change what
the handler relies on.

### What makes each component correct

- scheduler and consumer: at most one signal per candle and one submission per
  signal under every failure; nothing unreadable is published, nothing undecided
  is acknowledged; without failures every published signal is decided; no symbol
  stays locked.
- ledger: a recorded fill always has its position, a position always leads to the
  Freqtrade trade it stands for, a position is closed only when its own trade is,
  with that trade's result; what webhooks lose the reconciliation finds.
- kill switch: a bounded number of entries slips through, nothing moves unaudited,
  commands end.
- feed: nothing is skipped, order is kept, repetition only as retry.
- bot: no command is passed over, an answer of success is true, a command repeats only
  after a batch that died.
- config: no override is in force that nobody asked for, and `dry_run` moves only by a
  confirmed patch.
- LLM service: whatever fails, the result is HOLD; a trade needs a valid answer that the
  rubric confirms; the pre-filter changes no decision; an outage pages at most once and never early.
- replays: the simulated account is the one production would compute, money adds up,
  exits are filled at prices that traded, no trade is counted twice or under another's
  regime.
- rules and sizing: the size respects balance, cap and risk; the first failing rule
  in the documented order decides; the breaker counts what it is documented to count.

## 2. Modules

| module | models | mapped to |
|---|---|---|
| `OrderLifecycle` | the ledger: tables, the engine's order transaction, the four webhook handlers, the reconciliation loop, with Freqtrade as environment | `risk_engine/app/main.py`, `reconciliation.py`, `routers/webhooks.py`, `freqtrade_client.py` |
| `SignalPipeline` | scheduler replicas, the stream, the consumer | `jobs.py`, `scheduler/app/main.py`, `risk_engine/app/main.py` |
| `CandleOnce` | abstract specification: one signal and one submission per (symbol, candle) | PROJECT.md 14 rule 12 |
| `KillSwitch` | commands, the trip and the engine's evaluation as overlapping transactions | `common/kill_switch.py`, `routers/killswitch.py` |
| `AuditFeed` | writers of the audit log and the notifier's poll | `notifier/app/main.py` |
| `RiskRules` | account state, entry rules, sizing, exit rules and the automatic trips over a history of trades | `account_state.py`, `evaluator.py`, `rules/`, `sizing.py`, `exit_evaluator.py`, `risk_engine/app/main.py` |
| `TelegramCommands` | the bot's poll over `KillSwitch`, which it extends | `notifier/app/main.py`, `routers/killswitch.py` |
| `ConfigStore` | overlapping PATCH requests | `routers/config.py`, `common/risk_config_store.py`, `common/llm_config_store.py` |
| `MarketRubric` | confirmations, regime, volatility, score, the pre-filter's prediction and the semantic rubric, as operators | `llm_service/app/validators`, `services`, `scoring` |
| `LlmAnalysis` | an /analyze call from the context to the signal, and the health streak; extends `MarketRubric` | `llm_service/app/services`, `validators`, `scheduler/app/jobs.py` |
| `Performance` | metrics, breakdowns, expectancy of a setup, as operators | `common/performance.py`, `expectancy_state.py` |
| `Backtest` | the ledger and both replays; extends `MarketRubric` and `Performance`, instantiates `RiskRules` | `scripts/backtest` |
| `ReplaySimulator` | the simulator; instantiates `RiskRules` | `tools/historical_replay/simulator.py` |
| `M_proofs` | theorems about the module `M`, with their proofs: `OrderLifecycle`, `SignalPipeline`, `AuditFeed`, `RiskRules`, `LlmAnalysis` (with `MarketRubric`) | |
| `OperatorDesk_proofs` | theorems about `ConfigStore`, `KillSwitch`, `TelegramCommands` and the desk that composes them (`MCOperatorDesk`) | |
| `Replays_proofs` | theorems about the two offline tools and their composition (`MCReplays`) | |
| `IntegerLemmas` | lemmas the proofs share: least and greatest elements, sums over finite sets, division, clamps | |
| `MC*` | instances for TLC; `MCOperatorDesk` composes switch, bot and config, `MCReplays` the two offline tools | |

Operators whose name has the form `Def_Change` (`FindOrder_ByPair`) are variants of
`Def` with a plausible bug; they are used by no action.  Each property of each run
is violated when one of them replaces its `Def` (PROJECT.json, "mutants"): that is
how we know that the property depends on the code it is about.

### OrderLifecycle

State.  `orders` and `positions` are the tables, as functions from row ids to
rows; ids are handed out when a transaction begins, so their order is that of
`created_at`; 0 is NULL.  `alerted` holds the orders with a RECONCILIATION_REQUIRED
event.  `trades` is Freqtrade's own state (its field `by` is history: the order whose
forceenter opened the trade), `hooks` the webhooks under way, `eng` the
engine's open transaction, `rec` what the reconciliation pass has read and not yet
written, `used` the counters of ids.

| action | code |
|---|---|
| `EntryRefused`, `EntryAccepted` | `_handle_entry_signal` with `_submit_entry_order` up to the reply of forceenter; rule 7 as guard `MayEnter` |
| `ExitSignal` | `_handle_exit_signal` with `_submit_exit_order`: the position is read, the trade looked up, forceexit called |
| `EngineCommit`, `EngineAbort` | the commit of the same transaction, or its loss |
| `FillEntry`, `CancelEntry`, `SafetyExit`, `FillExit`, `CancelExit` | Freqtrade: external |
| `EntryFilled`, `ExitFilled`, `ExitUnknown`, `Incomplete`, `Cancelled`, `NoSuchOrder`, `LoseHook` | the webhook handlers with `_find_order` and its back-fill, the fallback on any OPEN position, and the synthetic exit order |
| `ReconcileScan` | `reconcile_submitted_orders` and `_reconcile_open_positions` up to their commit: one look-up per order and position, some of which may fail |
| `ReconcileCommit`, `ReconcileAbort` | the commit of the pass, or its loss |

A fault is a member of the constant `Faults`: `lostReply` (Freqtrade acted, the reply
was lost), `noTradeId` (the reply carries no id), `crash` (a transaction is lost before
its commit), `lookup` (get_trade fails, or answers with another pair or without the
fields the handler needs), `overtaken` (a webhook or a commit is delayed beyond the
pair's next entry).  Webhooks may always be lost.

Abstractions.  A webhook is one transaction without an await that matters, so one
action.  The look-ups of one pass are made at one moment; the window between reading
and writing, in which everything else moves, is kept.  Row locks are ignored: they
only remove interleavings.  A fill webhook without the rate or
amount its handler needs is `Incomplete`: the back-filled trade id is committed, nothing
else.  forceexit repeats its POST when it fails (`freqtrade_client.py:82-89`); a second exit
order for a trade that is leaving changes nothing Freqtrade reports, so the POSTs of one call
are one submission, here and in `SignalPipeline`'s `Submit`.  `entry_trade_id_missing` is unreachable: every position hangs on an entry
with a trade id (a theorem).  Prices, amounts, fees and r_multiple are left out; a
position's profit is the identity of the trade it came from, which is what the
properties tell apart.  Without `overtaken` a trade's webhooks and the engine's commit
are through before the pair's next entry, which is a candle (an hour) later.

### SignalPipeline and CandleOnce

`locks`, `candleKeys` and `decisionKeys` are the Redis keys; `cycle[<<r, s>>]` is the
cycle of symbol s in replica r; `signals` and `decisions` are tables, `stream`,
`delivered` and `acked` the stream and its group, `batch` and `work` the consumer's
memory.  `AcquireLock`, `ClaimCandle`, `CommitSignal`, `Publish`, `Leave` are the steps of
`_run_cycle`/`_run_locked_cycle`; `ReadBatch`, `TakeMessage`, `Evaluate`, `Submit`,
`CommitDecision`, `Acknowledge`, `GiveUp` those of `run_consumer`, `_handle_message` and
`process_signal`.  The lock may expire under a running cycle (`slow`), and `Leave`
deletes it whoever holds it.  A command whose reply is lost is sent again by the
client (`resent`): SET NX then reports that the key exists, XADD adds a second entry.
A restarted consumer reads new entries only, so what it had in memory is gone.

Fetching the candles and claiming the newest is one step: fetching takes seconds,
the key lives for two candles.  A failed `/analyze` counts as HOLD, as in the code.
The decision key's 24 hours never pass in a run.

`CandleOnce` is what PROJECT.md 14 rule 12 promises.  `SignalPipeline` implements it
with `generated[k]` the number of rows of key k and `submitted[k]` the number of
submissions for them; the run `pipeline_faults` checks the refinement under all faults.

### KillSwitch

A command goes through `start`, `read` (session.get), `flushed` (UPDATE, which takes the
row lock), `mirrored` (SET) and commits.  SQLAlchemy writes the columns whose value
changed since the read: `writes` says whether the switch itself is among them.
`disable` always changes `consecutive_loss_reset_at`, so always updates the row and
takes its lock; an `enable` that repeats the reason and the actor sends no UPDATE at all.
The row is assumed to exist.  The engine reads the row at the start of an evaluation
(`EngineReads`) and submits at its end; a trip (rules 9 and 10) rejects the entry and
runs `enable` in the engine's own transaction.

### AuditFeed

An event is its position in the (created_at, id) order: created_at is the start of the
writer's transaction, so rows get their position at `BeginTransaction` and become
visible at `CommitTransaction`.  `poll.at` is the cursor in the session, `cursor` the
committed one.  `behind` records the rows that were committed after the poll had read
past them, and those that existed when a fresh notifier set its cursor to now: the
code never relays them, and the properties say that these are the only ones.

### RiskRules

`positions` is the table, oldest first, with Freqtrade's side of each trade: `open`,
`closed` (at Freqtrade, the row still OPEN) and `booked` (the row CLOSED).  `switch` is the
reason the kill switch is on for, `resetAt` the operator's reset boundary, `now` a clock
of few instants, `DayLength` of which are a UTC day.

| action | code |
|---|---|
| `EntrySignal` | `process_signal` with the balance it fetches (`BalanceValid`), `load_account_state` (`Account`), `evaluate` (`Verdict`, one operator per rule), and what `_handle_entry_signal` does with it: an order, or the trip |
| `EvaluateExit` | `evaluate_exit`; forceexit acts if the trade still exists |
| `SafetyExit` | Freqtrade's stop-loss and ROI exits: external |
| `Book` | webhook or reconciliation: the row is CLOSED with Freqtrade's close time, or with the present time when it reports none |
| `Enable`, `Disable`, `Tick` | the operator, the clock |

Amounts are integers rounded down, percentages permille.  The balance is derived from
the trades: what is not staked is free, and open trades may be worth more than their
stake (`Drifts`).  Losses and wins with the same close time are read in either order.
An approved entry is filled and recorded in the same step; the window between the two is
in OrderLifecycle.  The expectancy rule (off by default) is left out here; what it
computes is in `Performance`.  Rejections change nothing the rules read and are not steps.

### TelegramCommands

`chat` are the updates, `lastId` the committed offset, `poll` the batch in the notifier's
memory, `serves` the update each request to the admin API was made for.

| action | code |
|---|---|
| `Message` | the operator's chat, or a stranger's: external |
| `GetUpdates`, `IgnoreUpdate`, `PostCommand`, `Reply`, `CommitOffset` | `_poll_telegram_commands` and `_handle_telegram_update`: one batch, in order, one commit at its end |
| `StopWaiting` | the 15 s of the HTTP client; the request goes on |
| `CommitCommand`, `AbortCommand` | the admin API's transaction and the answer to it, which may be an error although the command is committed |
| `BatchDies` | the notifier restarts, or an exception leaves the batch before its commit |
| `DirectRequest`, `DeskStep`, `Engine` | the steps of `KillSwitch`, which the bot's requests share |

`MCOperatorDesk` has a variable `desk` that picks the scene: commands and the engine with
a bot nobody writes to, commands that all come through the bot and an idle engine, or the
config row.
The three share no state besides the switch, and what each may do is not restricted
otherwise.

### ConfigStore

`stored` is the partial JSON of the row, a function on some of the fields; `patch[p]` is a
request's transaction.  `Patch`, `CheckConfirmed` (first read, 400 for an unconfirmed
change of `dry_run`), `MergeChanges` (second read), `FlushChanges` (INSERT or UPDATE, which
waits for another writer), `CommitChanges` and `AbortChanges` are the steps of
`patch_config` and of `apply_risk_config_patch`.  The validation of values is left out: the values are
those that pass it.

### MarketRubric and LlmAnalysis

A market is a record of whole numbers (price and averages per mille of each other, RSI,
MACD histogram, ATR, swing structure, volume) and of what is known of the open position:
whatever the rubric, the pre-filter, the regime and the score look at, and nothing else.

| action | code |
|---|---|
| `StartCycle`, `SkipLlm`, `CallLlm` | `AnalysisPipeline.run`: context, pre-filter, call |
| `ProviderAnswers`, `ProviderRaises`, `CallTimesOut` | `LLMClient.generate`: one retry if half the budget is left, a deadline over both |
| `ValidateText` | `ResponseValidator.validate` with its repairs: JSON, action, confidence, schema, then the rubric |
| `ServiceUnreachable` | `_post_analyze`: an exception at any moment becomes HOLD |
| `SkipTracking`, `CountFailure`, `LoseIncrReply`, `ReadStreak`, `ResetStreak`, `RedisFails`, `StreakExpires` | `_track_llm_analyze_health`, one action for each Redis command whose order with another cycle's matters; an INCR that took effect and whose reply was lost is followed by the client's second INCR or by an error |
| `EndCycle`, `AbortCycle` | the commit of the signal's transaction, with the alert in it, or its loss |

A text of the model is what the validator makes of it: whether it is JSON, its action, its
confidence, whether the other fields are there.  `streak` is the Redis counter; an outage
lasts as long as its key does, and the history variables say what became of the present one:
`failures` answered and `unheard` INCRs, alerts in open transactions (`paging`), committed
(`pages`) and lost (`missed`).  Time is counted in pauses before a
retry.  How the signal is stored afterwards is `SignalPipeline`.

### Performance

A cohort is the set of the indices of its trades.  Sums and counts stand for averages, so that
nothing is divided; drawdowns are permille.
Fees are part of a trade's result.  The `ExpectancyView` of a signal's setup and its three verdicts
are those of `expectancy_state.py`.

### Backtest and ReplaySimulator

Both tools run production's rules over an account of their own.  So do the models: each
instantiates `RiskRules` with its own `positions` and account, and `Verdict`, `Size` and
`ApprovedExit` are the operators `RiskRules` decides with.  Time counts candles, prices are
whole numbers, percentages permille, each rounded down; a price is at least one unit, as
`Candle` demands of it (`PriceAt`).

`Backtest`: `ledger` is the `Ledger`, `journal` the six dictionaries that carry an entry's
dimensions to its trade, `options` the command line.  At each close every symbol goes
through `check_static_exit` (`StopExit`, `RoiExit`, `StaysOpen`, `NotHeld`), then every
symbol is decided (`DecideEntry`, `DecideExit`, `DecideNothing`): the rubric alone for
`mechanical_replay.py`, any answer the service could give for `replay.py`.

`ReplaySimulator`: `FillCandle` is `_execute_pending` at the open with
`_apply_safety_exits` after it; `EntrySignal`, `ExitSignal` and `NoSignal` the signal of the
candle and the equity record at its end; `NextBars` the next candles, in the order of the
event queue.

## 3. Runs

PROJECT.json names the module of each `.cfg`.  Every run has `CHECK_DEADLOCK FALSE`: the
models stop where their bounds are exhausted.

| run | instance | shows |
|---|---|---|
| `ledger_books` | one pair, 3 signals, limit 1, crash, lookup, lostReply, noTradeId | what is recorded agrees with Freqtrade: `FilledEntryHasPosition`, `PositionHasEntry`, `ClosedWhenGone`, `ExitOfOwnTrade`, `ExitOrderClosesOne`; a back-fill gives a trade's id to its own order whenever that one waits: `OwnTradeFirst` |
| `ledger_repaired` | one pair, lookup faults, fairness | `ClosedTradeBooked`, `SubmittedSettled` |
| `claim_one_position` | no faults | VIOLATED: an order opens one position (PROJECT.md:885) |
| `pipeline_faults` | one symbol, two replicas, three candles, all faults | refinement of `CandleOnce`; `AckedIsDecided` |
| `pipeline_live` | two symbols, two replicas, scheduler crashes, fairness | `PublishedDecided`, `LockReleased` |
| `claim_redelivery` | one exception, fairness | VIOLATED: at-least-once delivery (PROJECT.md:239) |
| `switch_commands` | two operators and the engine, 4 commands, rollbacks; 2 updates and a dead batch; 3 patches of 2 fields; fairness | `OneEntrySlips`, `MovesAreAudited`, `CommandsEnd`, `ChatObeyed`, `OverridesAreAsked` |
| `claim_switch_on` | 3 commands, no rollback | VIOLATED: on until explicitly disabled (PROJECT.md:1088) |
| `feed_relay` | 4 rows, batches of 2, 2 failures, fairness | `NoneSkipped`, `RelayedInOrder`, `RepeatsAreRetries`, `EventuallyRelayed` |
| `risk_rules` | two pairs, 4 positions, 3 instants over two days, limits of 2 | `CooldownKept`, `DayLossBounded`, `StreakHalts`, `EntryWithinBounds` |
| `analyze_cycle` | two symbols, a grid of 1262 markets, every kind of answer, one repair, alert at 2, lost replies, rollbacks | `SkipChangesNothing`, `TradesAreEarned`, `OnePagePerOutage` |
| `replays` | two symbols, 5 candles of 6 kinds and 3 command lines; 4 bars of 4 kinds | `AccountMirrored`, `MoneyKept`, `HardLossIsCut`, `ReportAddsUp`, `ExitsAreReal` |

Bounds.  Ledger: a hazard needs an earlier trade whose message meets a later one, so
two trades of a pair; five order rows hold two entries, two exits and a synthetic
exit; three position rows hold the two positions and a doubled one.  That back-fill and
fallback stay within a pair is not run: it is part of what `SpecPositionHasEntry` proves
for any number of pairs.
`ledger_repaired` has more rows than its trades can use, so that no bound can block a
scan or a commit and spoil liveness.  Pipeline: three candles let a key expire and a
late cycle meet it; two replicas give the lock a thief; two messages and batches of
two leave one message in memory behind the one that fails.  Switch: four commands are
two pairs of overlapping ones, with the trip among them.  Bot: two updates are one
batch whose second command dies, or two batches; one dead batch repeats them.  Config:
three patches let two overlap over what a third has stored.  Feed: four rows in
transactions of one or two, batches of two, so that a transaction is split and a
commit can fall between two batches.  Rules: four positions of
two pairs let a pair be entered three times and a day lose four times, three instants
separate two loss events by more than the window and cross midnight once; the daily limit
lies between one loss and two, so that each of the two trips occurs; the operator acts at
one instant.  The window is 1: a window of 0, with which losses with equal close times
should be events of their own, is not run.  Analysis: the markets lie on both sides of every threshold of the rubric;
since what a market is has no bearing on the counters, the constraint `Alone` explores the
many markets and answers while the other symbol is idle and the streak is 0, and all pairs
of ordinary ones, with a market for each outcome of the pre-filter; the budget of 3 leaves a retry time or
not; `MaxFailures` is one past the
threshold, so that a resent INCR steps over it.  Replays: five candles hold an entry, a
gap through its stop, a second entry after the cooldown and its end; a day is two candles,
so that daily losses reset; four bars fill, exit and fill again; limits are small enough
for both trips and for orders that compete for the same cash.  The simulator's instance may
stake the whole account: with the default exposure limit of 20% no entry is ever short of
its fee, without it the second of two entries is, and is dropped at its open.  Symmetry is used for pairs
and replicas, and only in runs without liveness properties.

Fairness.  `OrderLifecycle!FairSpec`: the reconciliation loop catches every exception
and never ends, so its pass is taken again and again (WF on a scan whose look-ups
succeed, SF on its commit); nothing is assumed of webhooks, of the engine or of
Freqtrade.  `SignalPipeline!FairSpec`: a running cycle goes on, keys expire, the
consumer's loop turns.  `OperatorSpec`: SF for the steps of each command, because a
statement that waits for the row lock is served when the lock is released again and
again; nothing is assumed of the bot's poll or of a patch.  `AuditFeed!FairSpec`: the poll
loop never ends; failures are bounded, which stands for Telegram answering again.

### Where code and documents differ

1. `claim_one_position`: an `entry_fill` that arrives after reconciliation recorded the
   same fill inserts a second OPEN position for the order (webhooks.py:117).
2. `claim_redelivery`: a message whose handling raised is never read again
   (risk_engine/app/main.py:530, against the comment at 503).
3. `claim_switch_on`: an `enable` that found the switch on sends no UPDATE, and a
   `disable` that commits in between wins (common/kill_switch.py:31).

Met while modelling and kept out of the properties.  Ledger and pipeline: entries in
flight are not counted by rule 7, a lost transaction leaves a trade without an order, a
claimed candle may stay unprocessed, a duplicated message leaves a second decision row; an
entry that never learnt its own trade's id may be back-filled with that of the pair's next
one, if that webhook comes before the engine's commit (webhooks.py:72): `OwnTradeFirst`
speaks of orders that are committed and wait.
Switch, bot and config: a rolled-back command leaves the mirror changed; a `disable` that
is repeated after a dead batch undoes a trip made since; a command reported as failed may
be carried out later; of two overlapping patches one can be lost, and a stale merge can
put back a `dry_run` that a confirmed patch had changed, though PROJECT.md 14 rule 13 wants
it never changed as a side effect.  Notifier: audit rows committed late are not relayed.
Health streak: the page is due only where a reply of INCR is the threshold, so a resent INCR
steps over it or reaches it a failure early, and an error of EXPIRE or a failed commit
takes it, though the docstring says "once, the cycle the streak first reaches `threshold`"
(jobs.py:253-254); of two good cycles that read the same streak both report the recovery; a
failure counted between GET and DELETE is forgotten.  Rules: losses with
equal close times are one event even with a window of 0, and the daily result counts
booked results only.  Replays: the ledger counts every loss where production counts
clusters, though its docstring calls it a mirror; the simulator fills a stop at the stop
price when the candle opened below it (simulator.py:167), and its ROI table is not the
strategy's.

## 4. Proofs

Each theorem holds for every value of the constants that the module's named `ASSUME`
admits - any number of pairs, symbols, replicas, candles, rows, commands, markets and
retries - and, unless a hypothesis is named below, under every set of faults.  The
invariants were checked by TLC on the runs' instances before they were proved.

| module | theorem | statement |
|---|---|---|
| `OrderLifecycle_proofs` | `SpecLedgerWhole`, `SpecTypeOK`, `SpecFilledEntryHasPosition`, `SpecPositionHasEntry` | the ledger's invariant; types; a FILLED entry has its position; a position leads to a BUY order that names a trade of its pair |
| | `SpecExitOrderClosesOne` | no exit order closes two positions |
| | `SpecClosedWhenGone`, `SpecExitOfOwnTrade` | without `overtaken`: CLOSED only when the position's own trade is gone, with its profit and its exit order |
| | `SpecOwnTradeFirst` | without `overtaken`: a trade id is never replaced, and the back-fill never passes over the order whose forceenter opened the trade |
| `SignalPipeline_proofs` | `SpecPipelineInv`, `SpecTypeOK`, `SpecAckedIsDecided` | invariant; types; nothing undecided is acknowledged |
| | `SpecCandleOnce` | the pipeline implements `CandleOnce` |
| `OperatorDesk_proofs` | `SpecSwitchInv`, `SpecTypeOK`, `SpecOneEntrySlips`, `SpecMovesAreAudited` | invariant; types; the two guarantees of the switch |
| | `DeskImplementsSwitch` | the bot with the admin API implements `KillSwitch`, so the switch keeps its guarantees (`DeskKeepsSwitch`) |
| | `DeskChatInv`, `DeskChatObeyed` | invariant of the bot; commands are obeyed |
| | `ConfigSpecInv`, `ConfigSpecTypeOK`, `ConfigSpecOverridesAreAsked` | invariant; types; overrides were asked for, `dry_run` confirmed |
| | `OperatorImplementsBoth`, `OperatorControlsTypeOK`, `OperatorKeepsAll` | the composed desk implements the bot and the config rows, and keeps the types and the guarantees of all three |
| `AuditFeed_proofs` | `SpecFeedInv`, `SpecTypeOK`, `SpecNoneSkipped`, `SpecRepeatsAreRetries`, `SpecRelayedInOrder` | invariant; types; the guarantees of the feed |
| `RiskRules_proofs` | `SpecRiskInv`, `SpecTypeOK`, `SpecCooldownKept` | invariant; types; the cooldown of a pair |
| | `SpecEntryWithinBounds` | if `MinConfidenceScale <= 1000`: an entry's stake respects balance and caps |
| | `SpecStreakHalts` | the loss streak is counted as the code clusters it (the documented meaning but for a window of 0): it halts the entries, and nothing else trips that breaker |
| | `SpecDayLossBounded` | under `DayLossScope`: a day loses no more than its limit and what the open positions may still lose |
| `LlmAnalysis_proofs` | `SpecAnalysisInv`, `SpecTypeOK`, `SpecSkipChangesNothing`, `SpecTradesAreEarned`, `SpecOnePagePerOutage` | invariant; types; the pre-filter is exact; a trade is earned; an outage pages at most once, never early, and at the threshold unless a reply or that alert was lost |
| `Replays_proofs` | `TypesAreKept` | types of both tools; never more positions than allowed, no exit in the candle of the entry, the running total is the sum of the trades |
| | `MoneyIsAlwaysKept` | the compounding ledger never stakes what it has lost; the simulator's books balance to the unit, for any fees, prices and rounding, and what its waiting entries lack is never more than the fee of one of them |
| | `ExitsAreAlwaysReal` | a backtest's exit is filled at a price its candle traded at, beyond the stop only in a gap |
| | `AccountIsAlwaysMirrored` | the running totals the ledger hands to the rules are the account state `load_account_state` reads from the same trades, the streak at least as long |
| | `ReportAlwaysAddsUp` | at every close of a mechanical run each trade has the dimensions of its own entry and one cohort in each dimension; cohorts and setups add up to the whole, wins and losses to the expectancy; no mean drawdown is beyond the deepest; a setup is refused only where a trade of its regime fell short |
| | `HardLossIsAlwaysCut` | decided by the rubric alone, no position outlives a candle that closes beyond the hard loss cut |

### The invariants, and why they are needed

Ledger.  `FilledEntryHasPosition` is not inductive: the reconciliation pass commits
conclusions drawn from an earlier state of the tables, and the engine commits an order
whose trade id was learnt earlier.  `LedgerWhole` adds what those two transactions rely
on: `Reserved` (the ids they were given name no row), `TradesKnown` (a trade id in an
entry, or about to be, was given out by Freqtrade for the entry's pair) and
`PassConsistent` (the rows the pass will write exist, and an entry it will mark FILLED has
a position or is among those it opens one for).  Three more invariants stand on it:

- `ExitsDistinct`: two positions share no exit order, the one an engine transaction or a
  synthetic exit is about to write included.
- `OwnTrades` (without `overtaken`): by `OneTradeInPlay` at most one trade of a pair is open
  at Freqtrade, has webhooks under way, belongs to an OPEN position or is about to get
  one - which is why a fallback by pair cannot hit another trade's position - and what the
  engine and the pass are about to write is about the trade of the position it is for.
- `Home` (without `overtaken`): while Freqtrade holds a trade or has webhooks of it under way,
  the order that opened it is of its pair and unnamed or named by it, in the table or in the
  engine's hands, and no younger entry of the pair waits - so the newest unmatched order,
  which is what `_find_order` falls back on, is the trade's own as soon as that is committed.

The hypothesis `overtaken` is the one without which these three do not hold: with it TLC finds
the violation in a few steps, and the code has no step that repairs it.

Pipeline.  `PipelineInv` says for each (symbol, candle) that a key is Taken - in Redis, or
expired because the candle is so old that no cycle fetches it any more - for every row and
every cycle between its claim and its commit, that rows differ and that two claims differ
from each other and from the rows.  For the consumer: a submission's signal has its decision
key, a signal about to be submitted has the key and no submission, and an entry about to be
acknowledged is decided.  `CandleOnce` is then refined step by step: `CommitSignal` is its
Generate, `Submit` its Submit, everything else a stutter.

Switch and bot.  `OneEntrySlips` needs the one evaluation that may have read the switch
before it went on: with the row on and that evaluation still pending, nothing has slipped
through (`SwitchInv`).  `ChatInv` relates the batch, the offset and the requests: what lies
below the offset or before the batch's position was tried, an answer of success belongs to
a request that is committed with its event in the audit log, and the requests ever made for
an update, the pending ones included, are at most one more than the batches that died.  `TelegramCommands` extends `KillSwitch`, so `SwitchInv` is not
proved again: it follows from the refinement.  The desk of all three is proved the same
way: it implements the bot and it implements the config rows, so it keeps what they keep.

Config.  `ConfigInv` says of every transaction what backs the values it read, checked
and merged: a committed event, or its own request.  That is why overlapping patches may
lose an override and never invent one.

Feed.  `FeedInv` keeps the poll's rows in order, without a gap among the rows it could
see, and says of every relayed row up to the committed and the session's cursor that
Telegram got it unless it was committed behind the poll; it counts what was sent twice
against the failures.

Rules.  `RiskInv` adds to the types that a row's close lies between its opening and now,
and that a row of a pair has only booked rows of that pair before it, each closed at least
the cooldown before it opened (`InTurn`): rule 7 carries the cooldown over the time in
which a close is not yet recorded.

Loss streak.  `StreakHalts` compares two definitions: the walk of
`_count_consecutive_losses`, which lets every loss within the window of a cluster's first
join it, and `Apart`, the documented meaning for a window above 0 - so many losses pairwise further apart than the
window.  `WalkCounts` shows that the walk's count is the largest number that can be chosen
apart, from any instant on (`Exact`): the greedy choice is never worse than another one.  Then
an approved entry (its rule passed, `ApprovedViolatesNone`) has fewer events than the limit
whichever order the query returned equal times in, and a trip has at least the limit.

Day's loss.  The bound is not inductive: an entry may be let in just above the limit, and
its loss is booked later, on the day of its close time or of its booking.
`DayLossInv` therefore bounds, for every day up to now, what the day earned plus the worst
the positions can still add to it (`AtRisk`: staked, not booked, opened no later than that
day), and says that the rows not booked are no more than `MaxOpenPositions` - which rule 7
guarantees because it counts pairs and the rows not booked are of different ones
(`RiskInv`) - and that no trade lost more than it staked.  An entry is let in only above
the limit (`UnderLimit`: then everything open may lose), booking moves a trade from
the one term to the other (`BookDay`), and a new day has nothing booked.

Analysis.  `AnalysisInv` keeps with each signal that trades the market and the valid text
it was normalised from, with each call that the pre-filter let it pass, and says of Redis'
streak that it is the INCRs answered and unheard since the key was made, and of the alert
(`PageOK`) that below the threshold there is none, that there is never a second one, and that
without an unheard INCR there is one from the threshold on, committed, carried by one cycle or lost.  The lemmas about the rubric are case analyses of the validators, the
pre-filter and the regime over all whole-number markets.

Backtest.  `BacktestInv` is about one close after the other, symbol by symbol.  `LedgerOK`
says that what is staked is no more than a compounding account is worth, in the presence of
losses booked in between: the worst exit leaves the stake's worth of money in the equity
(`result >= -stake`), and an entry is sized to what is free.  `TurnsOK` says that a position
whose symbol has yet to have its turn was opened by an earlier candle, which is why no
position is closed by the candle that opened it; `CutsOK` that a position whose symbol has
been decided is not beyond the cut, whatever symbols come after it; `CandlesOK` that a
candle holds its open and its close, from which each of the fills of `check_static_exit` is
shown to lie in it.

Account.  `AccountMirrored` compares what the ledger keeps with what the queries of
`load_account_state` compute.  The rows of the table are the closed trades followed by the
open positions, each once (`TableOf`), so the sums of the one are sums of the other under
other names (`SumRenamed`).  For the last closes and the streak `MirrorInv` is needed: the
trades are in the order of their closes, what is kept for a pair is the newest close of its
trades, and the trade before the streak is no loss.  Then a loss the rule is certain of is
one of the newest trades, no more than the streak, and a walk finds no more clusters than
there are close times (`WalkCounts`).  Only an ignored trip breaks this: it forgets the streak.

Report.  `ReportAddsUp` needs of the run that the journal is right, and the rest is about
what the performance engine computes of any list of such trades (`MetricsOK`).  `JournalInv`
says that the journal has an entry for each open position and a key for each trade, with
the dimensions of a market (`Profile`; the score counts to 100, `DimsProfiled`).  No key is
written twice because no two trades share pair and candle of entry (`TradesOK`), and that
holds because a position was opened after every trade of its pair.  A dimension classifies the
trades, and adding up class by class is adding up (`SumPartition`); no class is a catch-all because
every score is in one bucket (`BucketOf`), and what the filter reads for a setup is the class of
the setup's trades because a bucket is the one of its least score (`ViewIsAverage`).  Wins and
losses add up to the expectancy because a trade that makes nothing has an R of 0 or none.
A drawdown is a number because a peak is never below the equity the run started with.

Simulator.  The books (`BooksOK`) balance through an execution and a safety exit in the same
candle because a close pays out exactly what it books.  `SeatsOK` counts the waiting entries
with the open positions: rule 7 does so too (`open_position_symbols`), and an execution only
moves one from the one set to the other.  `OnlyAFeeIsShort`, a part of `MoneyKept`, is not inductive: once the entry
that lacks its fee has been filled or dropped, another one might lack its own.  `FeesOK`
says which one lacks it - the youngest that stakes something, by `Rank`, the order in which
the candles will execute them: each entry was sized to what the older ones left free, the
older ones are executed first, and an execution or an exit takes from the account no more than was
reserved for it.

### What the proofs changed

- `SpecSkipChangesNothing` failed for a market whose `ema200` is 0: `_safe_ratio` then
  yields 0 and the market is not extended, which the model now says; and an exact
  pre-filter needs that the model may give a valid answer of each action, which is now
  part of `AnalysisAssumption`.
- `OverridesAreAsked` asked for a confirmation also of a `dry_run` stored with the
  environment's own value, which the code stores without one.
- `SpecEntryWithinBounds` assumes `MinConfidenceScale <= 1000`: `RiskConfig` bounds
  `min_confidence_size_scale` nowhere (it cannot be patched and is 0.5), and above 1 a low
  confidence would enlarge a position beyond its cap.
- `SpecDayLossBounded` needs what the property took for granted (`DayLossScope`): the
  account starts with money, the limit is above zero, and the outcomes are finitely many,
  one of them no win and one of them no loss - otherwise "the worst a position can lose" means
  nothing.  It also needs that an account without equity stakes nothing
  (`NothingToStake`), because the daily-loss rule then has no limit to compare with.
- In both offline tools rounding could take a price down to 0, by which the code then would
  divide; `Candle` refuses such a price (`gt=0`).  Prices are now at least one unit, and the
  assumptions on both tools' constants are stated in full.
- "Every waiting entry can be paid", checked until now under limits that left money over,
  is false when the whole account may be staked: sizing does not set aside the fee of the
  entry it sizes.  `OnlyAFeeIsShort` says what is true, and its run has the case.
- The day's result of the backtest is the sum over the trades that closed on the day, as the
  code's generator has it, instead of a fold over a filtered list.
- The performance engine takes its cohorts as sets of indices into the list of trades, and
  the trades up to one are those that closed before it or with it and stand no later in the list, which
  is what the stable sort by close time yields.  Folds over filtered and sorted lists
  cannot be reasoned about here.
- The report takes it that NULL is no number, regime, volatility or bucket
  (`NullAssumption`); without it a cohort could be the catch-all.
- The rows of a poll are defined by what ORDER BY and LIMIT say (`FirstRows`) instead of by a
  sort, so that what the query returns can be reasoned about.

### Induction

The library's induction theorems take an operator as parameter, which the installed
provers cannot instantiate.  Where a proof needs induction over naturals or over finite
sets it takes a least counterexample: `LeastNatural` and `GreatestInteger` are proved from
the library's facts on well-founded relations, and sums over finite sets
(`AddsInteger`, `SumRemove`, `SumAtMost`, `SumUnion`, `SumPartition`), all in `IntegerLemmas`, sums over the trades of a
session (`NetsAppend`) and the walk over loss clusters (`WalkExists`, `WalkCounts`) follow
from them.

### Only model-checked

- Liveness, which is out of reach of the provers: `PublishedDecided`, `LockReleased`,
  `CommandsEnd`, `EventuallyRelayed`, `SubmittedSettled`, `ClosedTradeBooked`.
- That the running sums of a drawdown are those of the code's loop is the definition of
  `EquityCurve`, not a theorem about a loop.

Every invariant and every action property of a passing run is stated by a theorem above;
`SpecClosedWhenGone`, `SpecExitOfOwnTrade`, `SpecOwnTradeFirst`, `SpecEntryWithinBounds` and
`SpecDayLossBounded` under the hypotheses named there.

## 5. Not modelled

- Market data, indicators and sentiment: floating-point arithmetic over candles and
  read-only HTTP calls; a market is a free choice in `LlmAnalysis` and `Backtest`.
- Prompts and the providers' HTTP: a call ends with any of the texts a model may give, an
  exception, or no answer in time.
- The balance snapshot: a display value with a TTL, written by two tasks; no decision
  reads it and the code has no guard a property could rest on.
- Daily and weekly summaries, archive, reports: queries rendered to text and mail.
- The expectancy rule as a rule of `RiskRules` (off by default), and the scheduled
  performance snapshot (one query, one insert).
- Fetching and caching of history, the tuning matrix and the files of the offline tools.
- Admin API reads and authentication, frontend, deployment scripts, migrations.
- Freqtrade beyond what its clients see of it; clock skew between hosts.

PROJECT.json gives the reason for each component.

## 6. Plan

The modules above stand, and what the provers can reach of what the runs check is proved.
What would come next is model, not proof:

1. The expectancy rule as a rule of `RiskRules`, with its own switch and the view that
   `Performance` already computes, and what an unknown sample does to an entry.
2. Entries accepted and not yet filled in rule 7, which counts OPEN rows only: that needs
   the order ledger and the rules in one composition.
3. The balance snapshot, once a decision reads it.
