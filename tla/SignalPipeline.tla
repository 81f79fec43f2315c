--------------------------- MODULE SignalPipeline ---------------------------
(***************************************************************************)
(* From a closed candle to a risk decision.  Scheduler replicas run cycles *)
(* under a Redis lock and a per-candle key, commit a `signals` row and     *)
(* publish its id on a Redis stream; the risk engine's single consumer     *)
(* reads the stream through a consumer group, decides, calls Freqtrade,    *)
(* commits and acknowledges.  The two sides share Redis and Postgres only. *)
(*                                                                         *)
(* A signal is the index of its row in `signals`; a message is an index    *)
(* into `stream`.                                                          *)
(***************************************************************************)
EXTENDS Naturals, Sequences, FiniteSets

CONSTANTS
    Symbols,      \* the traded symbols
    Replicas,     \* scheduler processes; APScheduler runs one cycle per symbol in each
    MaxCandles,   \* bound: closed candles
    MaxSignals,   \* bound: rows of `signals`
    MaxMessages,  \* bound: entries of the stream
    BatchSize,    \* XREADGROUP count
    Faults        \* the environment faults a run admits

FaultKinds ==
    {"schedulerCrash", "consumerCrash",   \* a process stops between two steps
     "exception",  \* Postgres, Redis or the exchange fails under a step
     "slow",       \* a cycle outlives the lock's TTL (300 s; /analyze may take 455 s)
     "resent"}     \* a lost Redis reply: the client sends the command again

ASSUME ConstantsAssumption ==
    /\ MaxCandles \in Nat
    /\ MaxSignals \in Nat
    /\ MaxMessages \in Nat
    /\ BatchSize \in Nat \ {0}
    /\ Faults \subseteq FaultKinds

VARIABLES
    now,          \* the newest closed candle
    locks,        \* symbols with a lock:cycle key
    candleKeys,   \* <<symbol, candle>> with an idempotency:candle key
    cycle,        \* each replica's cycle of each symbol
    signals,      \* table signals: the <<symbol, candle>> of each committed row
    stream,       \* signals:pending: the signal of each entry
    delivered,    \* entries the consumer group has handed out
    batch,        \* entries read and not yet handled, in the consumer's memory
    work,         \* the message being handled
    decisionKeys, \* signals with an idempotency:decision key
    submissions,  \* the calls to Freqtrade: the signal of each
    decisions,    \* table risk_decisions
    acked         \* acknowledged entries

scheduler == <<now, locks, candleKeys, cycle, signals>>
consumer == <<delivered, batch, work, decisionKeys, submissions, decisions, acked>>
vars == <<scheduler, stream, consumer>>

Candles == 1..MaxCandles
SignalIds == 1..MaxSignals
Cycles == Replicas \X Symbols
Outcomes == {"approved", "rejected", "duplicate", "noBalance"}

Idle == [pc |-> "idle", candle |-> 0, signal |-> 0]
NoWork == [pc |-> "idle", signal |-> 0, outcome |-> "rejected"]

Init ==
    /\ now = 0
    /\ locks = {}
    /\ candleKeys = {}
    /\ cycle = [c \in Cycles |-> Idle]
    /\ signals = <<>>
    /\ stream = <<>>
    /\ delivered = 0
    /\ batch = <<>>
    /\ work = NoWork
    /\ decisionKeys = {}
    /\ submissions = <<>>
    /\ decisions = {}
    /\ acked = {}

CandleCloses ==
    /\ now < MaxCandles
    /\ now' = now + 1
    /\ UNCHANGED <<locks, candleKeys, cycle, signals, stream, consumer>>

(***************************************************************************)
(* The scheduler's cycle.                                                  *)
(***************************************************************************)
At(c, pc) == cycle[c].pc = pc
Go(c, pc) == cycle' = [cycle EXCEPT ![c].pc = pc]

\* Mutant: SET without NX.
SetNX_Overwrites(held, key) == {[held |-> held \cup {key}, won |-> TRUE]}

\* SET NX of `key` into `held`: a client that had to resend the command may be
\* told that the key exists although it created it.
SetNX(held, key) ==
    {[held |-> held \cup {key}, won |-> key \notin held]}
    \cup {r \in {[held |-> held \cup {key}, won |-> FALSE]} : "resent" \in Faults}

\* `finally: delete(lock_key)`, whoever holds the lock by now.
Unlocked(c) == locks \ {c[2]}

AcquireLock(c) ==
    /\ now > 0
    /\ At(c, "idle")
    /\ \E r \in SetNX(locks, c[2]) :
          /\ locks' = r.held
          /\ Go(c, IF r.won THEN "locked" ELSE "idle")
    /\ UNCHANGED <<now, candleKeys, signals, stream, consumer>>

\* Mutant: the candle still running is taken for the newest closed one.
ClaimCandle_Running(c) ==
    /\ At(c, "locked")
    /\ <<c[2], now + 1>> \notin candleKeys
    /\ candleKeys' = candleKeys \cup {<<c[2], now + 1>>}
    /\ cycle' = [cycle EXCEPT ![c] = [pc |-> "claimed", candle |-> now + 1, signal |-> 0]]
    /\ UNCHANGED <<now, locks, signals, stream, consumer>>

\* The candles are fetched and the newest is claimed: fetching takes seconds,
\* the key lives for two candles.
ClaimCandle(c) ==
    /\ At(c, "locked")
    /\ \E r \in SetNX(candleKeys, <<c[2], now>>) :
          /\ candleKeys' = r.held
          /\ \/ /\ r.won
                /\ cycle' = [cycle EXCEPT ![c] = [pc |-> "claimed", candle |-> now, signal |-> 0]]
                /\ locks' = locks
             \/ /\ ~r.won                   \* cycle_skipped_already_processed
                /\ cycle' = [cycle EXCEPT ![c] = Idle]
                /\ locks' = Unlocked(c)
    /\ UNCHANGED <<now, signals, stream, consumer>>

\* /analyze answered (a failure counts as HOLD); the row is committed.
CommitSignal(c) ==
    /\ At(c, "claimed")
    /\ Len(signals) < MaxSignals
    /\ signals' = Append(signals, <<c[2], cycle[c].candle>>)
    /\ cycle' = [cycle EXCEPT ![c] = [@ EXCEPT !.pc = "committed", !.signal = Len(signals) + 1]]
    /\ UNCHANGED <<now, locks, candleKeys, stream, consumer>>

Publish(c) ==
    /\ At(c, "committed")
    /\ \E n \in {1} \cup {k \in {2} : "resent" \in Faults} :
          /\ Len(stream) + n <= MaxMessages
          /\ stream' = stream \o [i \in 1..n |-> cycle[c].signal]
    /\ Go(c, "published")
    /\ UNCHANGED <<now, locks, candleKeys, signals, consumer>>

\* The cycle is over, or an exception ended it.
Leave(c) ==
    /\ At(c, "published") \/ ("exception" \in Faults /\ ~At(c, "idle"))
    /\ cycle' = [cycle EXCEPT ![c] = Idle]
    /\ locks' = Unlocked(c)
    /\ UNCHANGED <<now, candleKeys, signals, stream, consumer>>

\* Mutant: the lock is taken without a TTL.
LockExpires_Never(s) == FALSE /\ UNCHANGED vars

\* The lock's TTL runs out under a cycle that never ended, or is too slow.
LockExpires(s) ==
    /\ s \in locks
    /\ "slow" \in Faults \/ \A r \in Replicas : At(<<r, s>>, "idle")
    /\ locks' = locks \ {s}
    /\ UNCHANGED <<now, candleKeys, cycle, signals, stream, consumer>>

CandleKeyExpires(k) ==
    /\ k \in candleKeys
    /\ now >= k[2] + 2
    /\ candleKeys' = candleKeys \ {k}
    /\ UNCHANGED <<now, locks, cycle, signals, stream, consumer>>

SchedulerCrash(r) ==
    /\ "schedulerCrash" \in Faults
    /\ \E s \in Symbols : ~At(<<r, s>>, "idle")
    /\ cycle' = [c \in Cycles |-> IF c[1] = r THEN Idle ELSE cycle[c]]
    /\ UNCHANGED <<now, locks, candleKeys, signals, stream, consumer>>

(***************************************************************************)
(* The consumer.  It asks the group for new entries only (">"), under a    *)
(* consumer name of its own process: what it once read is never handed out *)
(* again.                                                                  *)
(***************************************************************************)
Smaller(a, b) == IF a < b THEN a ELSE b

ReadBatch ==
    /\ batch = <<>>
    /\ work = NoWork
    /\ delivered < Len(stream)
    /\ LET n == Smaller(BatchSize, Len(stream) - delivered) IN
       /\ batch' = [i \in 1..n |-> delivered + i]
       /\ delivered' = delivered + n
    /\ UNCHANGED <<scheduler, stream, work, decisionKeys, submissions, decisions, acked>>

Handling(pc) == batch # <<>> /\ work.pc = pc
Decided(outcome) == [work EXCEPT !.pc = "decided", !.outcome = outcome]

\* Mutant: without a balance the message is dropped, not decided.
TakeMessage_NoBalanceDropped ==
    /\ Handling("idle")
    /\ LET s == stream[Head(batch)]
           readable == s \in DOMAIN signals
       IN \E next \in IF readable THEN {"balance", "ack"} ELSE {"ack"} :
            work' = [pc |-> next, signal |-> s, outcome |-> "rejected"]
    /\ UNCHANGED <<scheduler, stream, delivered, batch, decisionKeys, submissions, decisions, acked>>

\* A message whose signal cannot be read is acknowledged and forgotten
\* (signal_not_found); the balance is fetched before the signal is claimed.
TakeMessage ==
    /\ Handling("idle")
    /\ LET s == stream[Head(batch)]
           readable == s \in DOMAIN signals
       IN \E next \in IF readable THEN {"balance", "noBalance"} ELSE {"ack"} :
            work' = IF next = "noBalance"
                    THEN [pc |-> "decided", signal |-> s, outcome |-> "noBalance"]
                    ELSE [pc |-> next, signal |-> s, outcome |-> "rejected"]
    /\ UNCHANGED <<scheduler, stream, delivered, batch, decisionKeys, submissions, decisions, acked>>

\* The decision key, the account state and the rules.  The kill switch rejects
\* before the duplicate check does.
Evaluate ==
    /\ Handling("balance")
    /\ \E r \in SetNX(decisionKeys, work.signal) :
          /\ decisionKeys' = r.held
          /\ \/ r.won /\ work' = [work EXCEPT !.pc = "approved", !.outcome = "approved"]
             \/ work' = Decided("rejected")
             \/ ~r.won /\ work' = Decided("duplicate")
    /\ UNCHANGED <<scheduler, stream, delivered, batch, submissions, decisions, acked>>

\* forceenter or forceexit, inside the open transaction.  The repeated POSTs of
\* one forceexit ask for the same exit and count as one submission.
Submit ==
    /\ Handling("approved")
    /\ submissions' = Append(submissions, work.signal)
    /\ work' = Decided("approved")
    /\ UNCHANGED <<scheduler, stream, delivered, batch, decisionKeys, decisions, acked>>

CommitDecision ==
    /\ Handling("decided")
    /\ decisions' = decisions \cup {[message |-> Head(batch), signal |-> work.signal,
                                     outcome |-> work.outcome]}
    /\ work' = [work EXCEPT !.pc = "ack"]
    /\ UNCHANGED <<scheduler, stream, delivered, batch, decisionKeys, submissions, acked>>

\* Mutant: acknowledged before the transaction commits.
Acknowledge_Early ==
    /\ Handling("decided") \/ Handling("ack")
    /\ acked' = acked \cup {Head(batch)}
    /\ work' = NoWork
    /\ batch' = Tail(batch)
    /\ UNCHANGED <<scheduler, stream, delivered, decisionKeys, submissions, decisions>>

Acknowledge ==
    /\ Handling("ack")
    /\ acked' = acked \cup {Head(batch)}
    /\ work' = NoWork
    /\ batch' = Tail(batch)
    /\ UNCHANGED <<scheduler, stream, delivered, decisionKeys, submissions, decisions>>

\* _handle_message logs the exception and the loop takes the next message.
GiveUp ==
    /\ "exception" \in Faults
    /\ batch # <<>>
    /\ work' = NoWork
    /\ batch' = Tail(batch)
    /\ UNCHANGED <<scheduler, stream, delivered, decisionKeys, submissions, decisions, acked>>

ConsumerCrash ==
    /\ "consumerCrash" \in Faults
    /\ batch # <<>>
    /\ work' = NoWork
    /\ batch' = <<>>
    /\ UNCHANGED <<scheduler, stream, delivered, decisionKeys, submissions, decisions, acked>>

-----------------------------------------------------------------------------
CycleStep(c) == ClaimCandle(c) \/ CommitSignal(c) \/ Publish(c) \/ Leave(c)
Handle == TakeMessage \/ Evaluate \/ Submit \/ CommitDecision \/ Acknowledge

Next ==
    \/ CandleCloses
    \/ \E c \in Cycles : AcquireLock(c) \/ CycleStep(c)
    \/ \E s \in Symbols : LockExpires(s)
    \/ \E k \in candleKeys : CandleKeyExpires(k)
    \/ \E r \in Replicas : SchedulerCrash(r)
    \/ ReadBatch \/ Handle \/ GiveUp \/ ConsumerCrash

Spec == Init /\ [][Next]_vars

\* A running cycle goes on, Redis expires keys, the consumer's loop turns.
FairSpec ==
    /\ Spec
    /\ \A c \in Cycles : WF_vars(CycleStep(c))
    /\ \A s \in Symbols : WF_vars(LockExpires(s))
    /\ WF_vars(ReadBatch) /\ WF_vars(Handle)

-----------------------------------------------------------------------------
(* Keys, rows, messages and decisions have their types.                    *)
TypeOK ==
    /\ now \in 0..MaxCandles
    /\ locks \subseteq Symbols
    /\ candleKeys \subseteq Symbols \X Candles
    /\ cycle \in [Cycles -> [pc : {"idle", "locked", "claimed", "committed", "published"},
                             candle : 0..MaxCandles, signal : 0..MaxSignals]]
    /\ signals \in Seq(Symbols \X Candles) /\ Len(signals) <= MaxSignals
    /\ stream \in Seq(SignalIds) /\ Len(stream) <= MaxMessages
    /\ delivered \in 0..MaxMessages
    /\ batch \in Seq(1..MaxMessages) /\ Len(batch) <= MaxMessages
    /\ work \in [pc : {"idle", "balance", "approved", "decided", "ack"},
                 signal : 0..MaxSignals, outcome : Outcomes]
    /\ decisionKeys \subseteq SignalIds
    /\ submissions \in Seq(SignalIds)
    /\ decisions \subseteq [message : 1..MaxMessages, signal : SignalIds, outcome : Outcomes]
    /\ acked \subseteq 1..MaxMessages

(* An acknowledged message left a decision row for its signal: nothing is  *)
(* acknowledged before its outcome is durable.                             *)
AckedIsDecided ==
    \A m \in acked : \E d \in decisions : d.message = m /\ d.signal = stream[m]

(* Trading per candle as PROJECT.md 14 rule 12 promises it: one signal and *)
(* one order at most.                                                      *)
Promise == INSTANCE CandleOnce WITH
    Keys <- Symbols \X Candles,
    generated <- [k \in Symbols \X Candles |-> Cardinality({i \in DOMAIN signals : signals[i] = k})],
    submitted <- [k \in Symbols \X Candles |->
                    Cardinality({i \in DOMAIN submissions : signals[submissions[i]] = k})]
CandleOnceSpec == Promise!Spec

(* Every published signal is decided when no process stops or fails: the   *)
(* consumer skips nobody's message, and an unavailable balance or a        *)
(* duplicate still leaves a decision.                                      *)
PublishedDecided ==
    \A s \in SignalIds : (\E m \in DOMAIN stream : stream[m] = s) ~>
                            (\E d \in decisions : d.signal = s)

(* No symbol stays locked out, whatever crashes while it holds the lock.   *)
LockReleased ==
    \A s \in Symbols : s \in locks ~> s \notin locks

(* What the documents claim and the code does not keep.                    *)

(* PROJECT.md 5.1: the consumer group gives at-least-once delivery.        *)
AtLeastOnce == PublishedDecided

=============================================================================
