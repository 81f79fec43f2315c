----------------------- MODULE SignalPipeline_proofs -----------------------
(***************************************************************************)
(* Proofs about SignalPipeline, for any symbols, replicas, batch size and  *)
(* set of admitted faults: type correctness, that only durable outcomes    *)
(* are acknowledged, and that the pipeline implements CandleOnce.          *)
(***************************************************************************)
EXTENDS SignalPipeline, FiniteSetTheorems, TLAPS

USE ConstantsAssumption

Keys == Symbols \X Candles
CycleType == [pc : {"idle", "locked", "claimed", "committed", "published"},
              candle : 0..MaxCandles, signal : 0..MaxSignals]
WorkType == [pc : {"idle", "balance", "approved", "decided", "ack"},
             signal : 0..MaxSignals, outcome : Outcomes]
Decision == [message : 1..MaxMessages, signal : SignalIds, outcome : Outcomes]

-----------------------------------------------------------------------------
(* The scheduler's side of the invariant.  The lock guarantees nothing: it *)
(* may expire under its holder.  What keeps a candle from being analysed   *)
(* twice is its key, and that the key outlives the candle: it can only be  *)
(* gone once a newer candle is the newest.                                 *)

\* No cycle can claim key k any more.
Taken(keys, newest, k) == k \in keys \/ k[2] < newest

Key(c) == <<c[2], cycle[c].candle>>

SchedulerTypes ==
    /\ now \in 0..MaxCandles
    /\ locks \subseteq Symbols
    /\ candleKeys \subseteq Keys
    /\ cycle \in [Cycles -> CycleType]
    /\ signals \in Seq(Keys) /\ Len(signals) <= MaxSignals
    /\ stream \in Seq(SignalIds) /\ Len(stream) <= MaxMessages

\* What a cycle holds on to from step to step.
CyclesInTime ==
    \A c \in Cycles :
        /\ At(c, "locked") => now > 0
        /\ At(c, "claimed") => /\ cycle[c].candle \in Candles
                               /\ Taken(candleKeys, now, Key(c))
                               /\ \A i \in DOMAIN signals : signals[i] # Key(c)
        /\ At(c, "committed") => cycle[c].signal \in DOMAIN signals

ClaimsDiffer ==
    \A c, d \in Cycles : At(c, "claimed") /\ At(d, "claimed") /\ Key(c) = Key(d) => c = d

RowsDiffer ==
    \A i \in DOMAIN signals : /\ Taken(candleKeys, now, signals[i])
                              /\ \A j \in DOMAIN signals : signals[i] = signals[j] => i = j

EntriesAreRows == \A m \in DOMAIN stream : stream[m] \in DOMAIN signals

SchedulerInv ==
    /\ SchedulerTypes
    /\ CyclesInTime
    /\ ClaimsDiffer
    /\ RowsDiffer
    /\ EntriesAreRows

(* The consumer's side: the message in hand is the head of the batch, its  *)
(* signal is a row, and a signal approved for submission has its decision  *)
(* key and has not been submitted.                                         *)
ConsumerTypes ==
    /\ delivered \in 0..Len(stream)
    /\ batch \in Seq(1..MaxMessages) /\ Len(batch) <= MaxMessages
    /\ \A i \in DOMAIN batch : batch[i] <= delivered
    /\ work \in WorkType
    /\ decisionKeys \subseteq DOMAIN signals
    /\ submissions \in Seq(SignalIds)
    /\ decisions \subseteq Decision
    /\ acked \subseteq 1..delivered

DecidedMessage(m) == \E d \in decisions : d.message = m /\ d.signal = stream[m]

WorkInOrder ==
    work.pc # "idle" => /\ batch # <<>>
                        /\ work.signal = stream[Head(batch)]
                        /\ work.pc = "ack" => DecidedMessage(Head(batch))

SubmittedOnce ==
    /\ \A i \in DOMAIN submissions : submissions[i] \in decisionKeys
    /\ \A i, j \in DOMAIN submissions : submissions[i] = submissions[j] => i = j
    /\ work.pc = "approved" => /\ work.signal \in decisionKeys
                               /\ \A i \in DOMAIN submissions : submissions[i] # work.signal

ConsumerInv ==
    /\ ConsumerTypes
    /\ WorkInOrder
    /\ SubmittedOnce
    /\ AckedIsDecided

PipelineInv == SchedulerInv /\ ConsumerInv

-----------------------------------------------------------------------------
LEMMA InitPipeline == Init => PipelineInv
<1> SUFFICES ASSUME Init PROVE PipelineInv
  OBVIOUS
<1> USE DEF Init
<1>1. SchedulerTypes
  BY DEF SchedulerTypes, CycleType, Idle
<1>2. \A c \in Cycles : cycle[c].pc = "idle"
  BY DEF Idle
<1>3. SchedulerInv
  BY <1>1, <1>2 DEF SchedulerInv, CyclesInTime, ClaimsDiffer, RowsDiffer, EntriesAreRows, At
<1>4. work \in WorkType /\ work.pc = "idle"
  BY DEF WorkType, NoWork, Outcomes
<1>5. ConsumerInv
  BY <1>4 DEF ConsumerInv, ConsumerTypes, WorkInOrder, SubmittedOnce, AckedIsDecided
<1>6. QED
  BY <1>3, <1>5 DEF PipelineInv

-----------------------------------------------------------------------------
(* The scheduler's steps.  All but two leave the rows alone, claim nothing *)
(* and keep what is taken taken.                                           *)
LEMMA SchedulerMoves ==
  ASSUME SchedulerInv,
         now' \in now..MaxCandles, locks' \subseteq Symbols, candleKeys' \subseteq Keys,
         \A k \in Keys : Taken(candleKeys, now, k) => Taken(candleKeys', now', k),
         cycle' \in [Cycles -> CycleType],
         \A c \in Cycles : \/ cycle'[c] = cycle[c]
                           \/ cycle'[c].pc \in {"idle", "published"}
                           \/ cycle'[c].pc = "locked" /\ now > 0,
         signals' = signals,
         stream' \in Seq(SignalIds), Len(stream') <= MaxMessages,
         \A m \in DOMAIN stream' : stream'[m] \in DOMAIN signals
  PROVE  SchedulerInv'
<1>1. SchedulerTypes'
  BY DEF SchedulerInv, SchedulerTypes
<1>2. \A c \in Cycles : At(c, "claimed")' => /\ At(c, "claimed") /\ cycle'[c] = cycle[c]
                                             /\ Key(c)' = Key(c)
  BY DEF At, Key
<1>3. CyclesInTime'
  <2> SUFFICES ASSUME NEW c \in Cycles
               PROVE  /\ At(c, "locked")' => now' > 0
                      /\ At(c, "claimed")' => /\ cycle'[c].candle \in Candles
                                              /\ Taken(candleKeys, now, Key(c))'
                                              /\ \A i \in DOMAIN signals' : signals'[i] # Key(c)'
                      /\ At(c, "committed")' => cycle'[c].signal \in DOMAIN signals'
    BY DEF CyclesInTime
  <2>1. At(c, "locked")' => now' > 0
    BY DEF SchedulerInv, SchedulerTypes, CyclesInTime, At
  <2>2. ASSUME At(c, "claimed")'
        PROVE  /\ cycle'[c].candle \in Candles
               /\ Taken(candleKeys, now, Key(c))'
               /\ \A i \in DOMAIN signals' : signals'[i] # Key(c)'
    <3>1. At(c, "claimed") /\ cycle'[c] = cycle[c] /\ Key(c)' = Key(c)
      BY <1>2, <2>2
    <3>2. Key(c) \in Keys
      BY <3>1 DEF SchedulerInv, CyclesInTime, Key, Keys, Cycles
    <3>3. QED
      BY <3>1, <3>2 DEF SchedulerInv, CyclesInTime
  <2>3. At(c, "committed")' => cycle'[c].signal \in DOMAIN signals'
    BY DEF SchedulerInv, CyclesInTime, At
  <2>4. QED
    BY <2>1, <2>2, <2>3
<1>4. ClaimsDiffer'
  BY <1>2 DEF SchedulerInv, ClaimsDiffer
<1>5. RowsDiffer'
  <2>1. \A i \in DOMAIN signals : signals[i] \in Keys
    BY DEF SchedulerInv, SchedulerTypes
  <2>2. QED
    BY <2>1 DEF SchedulerInv, RowsDiffer
<1>6. EntriesAreRows'
  BY DEF EntriesAreRows
<1>7. QED
  BY <1>1, <1>3, <1>4, <1>5, <1>6 DEF SchedulerInv

\* What a step may take for granted, as facts of its own.
LEMMA SchedulerFacts ==
  ASSUME SchedulerInv
  PROVE  /\ now \in 0..MaxCandles /\ now \in now..MaxCandles
         /\ locks \subseteq Symbols /\ candleKeys \subseteq Keys
         /\ cycle \in [Cycles -> CycleType]
         /\ stream \in Seq(SignalIds) /\ Len(stream) <= MaxMessages
         /\ \A m \in DOMAIN stream : stream[m] \in DOMAIN signals
         /\ signals \in Seq(Keys) /\ Len(signals) <= MaxSignals
         /\ \A i \in DOMAIN signals : signals[i] \in Keys
BY DEF SchedulerInv, SchedulerTypes, EntriesAreRows

LEMMA StepCandleCloses == SchedulerInv /\ CandleCloses => SchedulerInv'
<1> SUFFICES ASSUME SchedulerInv, CandleCloses PROVE SchedulerInv'
  OBVIOUS
<1>1. now' \in now..MaxCandles /\ now' = now + 1
  BY SchedulerFacts DEF CandleCloses
<1>2. \A k \in Keys : Taken(candleKeys, now, k) => Taken(candleKeys', now', k)
  BY <1>1, SchedulerFacts DEF CandleCloses, Taken, Keys, Candles
<1>3. QED
  BY <1>1, <1>2, SchedulerFacts, SchedulerMoves DEF CandleCloses

\* One cycle moves to record r; keys may be added, never dropped.
LEMMA CycleMoves ==
  ASSUME SchedulerInv, NEW c \in Cycles, NEW r \in CycleType,
         cycle' = [cycle EXCEPT ![c] = r],
         r.pc \in {"idle", "published"} \/ (r.pc = "locked" /\ now > 0),
         UNCHANGED <<now, signals>>,
         locks' \subseteq Symbols, candleKeys \subseteq candleKeys', candleKeys' \subseteq Keys,
         stream' \in Seq(SignalIds), Len(stream') <= MaxMessages,
         \A m \in DOMAIN stream' : stream'[m] \in DOMAIN signals
  PROVE  SchedulerInv'
<1>1. \A k \in Keys : Taken(candleKeys, now, k) => Taken(candleKeys', now', k)
  BY DEF Taken
<1>2. cycle' \in [Cycles -> CycleType]
  BY SchedulerFacts
<1>3. \A d \in Cycles : \/ cycle'[d] = cycle[d]
                        \/ cycle'[d].pc \in {"idle", "published"}
                        \/ cycle'[d].pc = "locked" /\ now > 0
  BY SchedulerFacts
<1>4. QED
  BY <1>1, <1>2, <1>3, SchedulerFacts, SchedulerMoves

LEMMA CyclePieces ==
  ASSUME SchedulerInv, NEW c \in Cycles
  PROVE  /\ Idle \in CycleType /\ Idle.pc = "idle"
         /\ \A pc \in {"idle", "locked", "claimed", "committed", "published"} :
               [cycle[c] EXCEPT !.pc = pc] \in CycleType /\ [cycle[c] EXCEPT !.pc = pc].pc = pc
         /\ c[2] \in Symbols
         /\ Unlocked(c) \subseteq Symbols
BY SchedulerFacts DEF CycleType, Idle, Cycles, Unlocked

LEMMA StepAcquireLock ==
  ASSUME SchedulerInv, NEW c \in Cycles, AcquireLock(c)
  PROVE  SchedulerInv'
<1>1. PICK r \in SetNX(locks, c[2]) :
         locks' = r.held /\ Go(c, IF r.won THEN "locked" ELSE "idle")
  BY DEF AcquireLock
<1>2. r.held = locks \cup {c[2]}
  BY <1>1 DEF SetNX
<1> DEFINE next == [cycle[c] EXCEPT !.pc = IF r.won THEN "locked" ELSE "idle"]
<1>3. cycle' = [cycle EXCEPT ![c] = next]
  BY <1>1 DEF Go
<1>4. next \in CycleType /\ next.pc \in {"locked", "idle"}
  BY CyclePieces
<1> HIDE DEF next
<1>5. now > 0 /\ UNCHANGED <<now, candleKeys, signals, stream>>
  BY DEF AcquireLock
<1>6. QED
  BY <1>1, <1>2, <1>3, <1>4, <1>5, SchedulerFacts, CyclePieces, CycleMoves

LEMMA StepClaimCandle ==
  ASSUME SchedulerInv, NEW c \in Cycles, ClaimCandle(c)
  PROVE  SchedulerInv'
<1> DEFINE k == <<c[2], now>>
           next == [pc |-> "claimed", candle |-> now, signal |-> 0]
<1>1. PICK r \in SetNX(candleKeys, k) :
         /\ candleKeys' = r.held
         /\ \/ /\ r.won
               /\ cycle' = [cycle EXCEPT ![c] = next]
               /\ locks' = locks
            \/ /\ ~r.won
               /\ cycle' = [cycle EXCEPT ![c] = Idle]
               /\ locks' = Unlocked(c)
  BY DEF ClaimCandle
<1>2. r.held = candleKeys \cup {k} /\ (r.won => k \notin candleKeys)
  <2>1. \/ r = [held |-> candleKeys \cup {k}, won |-> k \notin candleKeys]
        \/ r = [held |-> candleKeys \cup {k}, won |-> FALSE]
    BY <1>1 DEF SetNX
  <2>2. r.held = candleKeys \cup {k} /\ (r.won = (k \notin candleKeys) \/ r.won = FALSE)
    BY <2>1
  <2>3. QED
    BY <2>2, Zenon
<1>3. now \in Candles /\ k \in Keys /\ UNCHANGED <<now, signals, stream>>
  <2>1. now > 0 /\ c[2] \in Symbols /\ now \in 0..MaxCandles
    BY CyclePieces, SchedulerFacts DEF ClaimCandle, SchedulerInv, CyclesInTime
  <2>2. QED
    BY <2>1 DEF ClaimCandle, Candles, Keys
<1> HIDE DEF k
<1>4. CASE ~r.won
  <2>1. cycle' = [cycle EXCEPT ![c] = Idle] /\ locks' = Unlocked(c) /\ candleKeys' = candleKeys \cup {k}
    BY <1>1, <1>2, <1>4
  <2>2. QED
    BY <1>3, <2>1, SchedulerFacts, CyclePieces, CycleMoves
<1>5. CASE r.won
  <2>1. /\ cycle' \in [Cycles -> CycleType]
        /\ cycle'[c] = next
        /\ \A d \in Cycles : d # c => cycle'[d] = cycle[d]
    <3>1. cycle' = [cycle EXCEPT ![c] = next]
      BY <1>1, <1>5
    <3>2. next \in CycleType
      BY <1>3 DEF CycleType, Candles
    <3>3. QED
      BY <3>1, <3>2, SchedulerFacts
  \* Nobody has taken the candle before: its key would be there, as it is the newest.
  <2>2. ~Taken(candleKeys, now, k)
    BY <1>2, <1>3, <1>5, SchedulerFacts DEF Taken, k
  <2>3. \A i \in DOMAIN signals : signals[i] # k
    BY <2>2 DEF SchedulerInv, RowsDiffer
  <2>4. \A d \in Cycles : At(d, "claimed") => Key(d) # k
    BY <2>2 DEF SchedulerInv, CyclesInTime
  <2>5. /\ At(c, "claimed")' /\ Key(c)' = k
        /\ \A d \in Cycles : d # c => /\ \A pc : At(d, pc)' <=> At(d, pc)
                                      /\ Key(d)' = Key(d)
    BY <1>3, <2>1 DEF At, Key, k
  <2>6. \A q : Taken(candleKeys', now', q) <=> Taken(candleKeys, now, q) \/ q = k
    BY <1>1, <1>2, <1>3 DEF Taken
  <2>7. SchedulerTypes'
    BY <1>1, <1>2, <1>3, <1>5, <2>1, SchedulerFacts DEF SchedulerTypes
  <2>8. CyclesInTime'
    BY <1>3, <2>1, <2>3, <2>5, <2>6 DEF SchedulerInv, CyclesInTime, At
  <2>9. ClaimsDiffer'
    BY <2>4, <2>5 DEF SchedulerInv, ClaimsDiffer
  <2>10. RowsDiffer'
    BY <1>3, <2>6 DEF SchedulerInv, RowsDiffer
  <2>11. EntriesAreRows'
    BY <1>3 DEF SchedulerInv, EntriesAreRows
  <2>12. QED
    BY <2>7, <2>8, <2>9, <2>10, <2>11 DEF SchedulerInv
<1>6. QED
  BY <1>4, <1>5

LEMMA StepCommitSignal ==
  ASSUME SchedulerInv, NEW c \in Cycles, CommitSignal(c)
  PROVE  SchedulerInv'
<1> DEFINE k == Key(c)
           n == Len(signals) + 1
           next == [cycle[c] EXCEPT !.pc = "committed", !.signal = n]
<1>1. /\ At(c, "claimed") /\ Len(signals) < MaxSignals
      /\ signals' = Append(signals, k)
      /\ cycle' = [cycle EXCEPT ![c] = next]
      /\ UNCHANGED <<now, locks, candleKeys, stream>>
  BY DEF CommitSignal, Key
<1>2. /\ k \in Keys /\ Taken(candleKeys, now, k)
      /\ \A i \in DOMAIN signals : signals[i] # k
      /\ \A d \in Cycles : At(d, "claimed") /\ Key(d) = k => d = c
  BY <1>1, CyclePieces DEF SchedulerInv, CyclesInTime, ClaimsDiffer, Key, Keys
<1> HIDE DEF k
<1>3. n \in 0..MaxSignals /\ next \in CycleType /\ next.pc = "committed" /\ next.signal = n
  <2>1. n \in 0..MaxSignals
    BY <1>1, SchedulerFacts
  <2>2. cycle[c] \in CycleType
    BY SchedulerFacts
  <2> HIDE DEF n
  <2>3. QED
    BY <2>1, <2>2 DEF CycleType
<1>4. /\ DOMAIN signals' = 1..n /\ n \in DOMAIN signals' /\ signals'[n] = k
      /\ \A i \in DOMAIN signals' : i # n => i \in DOMAIN signals /\ signals'[i] = signals[i]
      /\ signals' \in Seq(Keys) /\ Len(signals') <= MaxSignals
      /\ DOMAIN signals \subseteq DOMAIN signals'
  BY <1>1, <1>2, SchedulerFacts
<1>5. /\ cycle' \in [Cycles -> CycleType]
      /\ cycle'[c] = next
      /\ \A d \in Cycles : d # c => cycle'[d] = cycle[d]
  BY <1>1, <1>3, SchedulerFacts
<1> HIDE DEF n, next
<1>6. /\ ~At(c, "claimed")' /\ ~At(c, "locked")'
      /\ \A d \in Cycles : d # c => /\ \A pc : At(d, pc)' <=> At(d, pc)
                                    /\ Key(d)' = Key(d)
  BY <1>3, <1>5 DEF At, Key
<1>7. SchedulerTypes'
  BY <1>1, <1>4, <1>5, SchedulerFacts DEF SchedulerTypes
<1>8. CyclesInTime'
  <2> SUFFICES ASSUME NEW d \in Cycles
               PROVE  /\ At(d, "locked")' => now' > 0
                      /\ At(d, "claimed")' => /\ cycle'[d].candle \in Candles
                                              /\ Taken(candleKeys, now, Key(d))'
                                              /\ \A i \in DOMAIN signals' : signals'[i] # Key(d)'
                      /\ At(d, "committed")' => cycle'[d].signal \in DOMAIN signals'
    BY DEF CyclesInTime
  <2>1. CASE d = c
    BY <1>3, <1>4, <1>5, <1>6, <2>1
  <2>2. CASE d # c
    <3>1. At(d, "locked")' => now' > 0
      BY <1>1, <1>6, <2>2 DEF SchedulerInv, CyclesInTime
    <3>2. At(d, "claimed")' => /\ cycle'[d].candle \in Candles
                               /\ Taken(candleKeys', now', Key(d)')
                               /\ \A i \in DOMAIN signals' : signals'[i] # Key(d)'
      BY <1>1, <1>2, <1>4, <1>5, <1>6, <2>2 DEF SchedulerInv, CyclesInTime
    <3>3. At(d, "committed")' => cycle'[d].signal \in DOMAIN signals'
      BY <1>4, <1>5, <1>6, <2>2 DEF SchedulerInv, CyclesInTime
    <3>4. QED
      BY <3>1, <3>2, <3>3
  <2>3. QED
    BY <2>1, <2>2
<1>9. ClaimsDiffer'
  BY <1>6 DEF SchedulerInv, ClaimsDiffer
<1>10. RowsDiffer'
  BY <1>1, <1>2, <1>4 DEF SchedulerInv, RowsDiffer
<1>11. EntriesAreRows'
  BY <1>1, <1>4 DEF SchedulerInv, EntriesAreRows
<1>12. QED
  BY <1>7, <1>8, <1>9, <1>10, <1>11 DEF SchedulerInv

LEMMA StepPublish ==
  ASSUME SchedulerInv, NEW c \in Cycles, Publish(c)
  PROVE  SchedulerInv'
<1> DEFINE s == cycle[c].signal
           next == [cycle[c] EXCEPT !.pc = "published"]
<1>1. PICK n \in {1, 2} : Len(stream) + n <= MaxMessages /\ stream' = stream \o [i \in 1..n |-> s]
  BY DEF Publish
<1>2. s \in DOMAIN signals /\ s \in SignalIds
  BY SchedulerFacts DEF Publish, SchedulerInv, CyclesInTime, SignalIds
<1>3. UNCHANGED <<now, locks, candleKeys, signals>> /\ cycle' = [cycle EXCEPT ![c] = next]
  BY DEF Publish, Go
<1>4. next \in CycleType /\ next.pc = "published"
  BY CyclePieces
<1> HIDE DEF s, next
<1>5. /\ stream' \in Seq(SignalIds) /\ Len(stream') <= MaxMessages
      /\ \A m \in DOMAIN stream' : stream'[m] = s \/ (m \in DOMAIN stream /\ stream'[m] = stream[m])
  <2>1. [i \in 1..n |-> s] \in Seq(SignalIds) /\ Len([i \in 1..n |-> s]) = n
    BY <1>2
  <2>2. QED
    BY <1>1, <2>1, SchedulerFacts
<1>6. QED
  BY <1>2, <1>3, <1>4, <1>5, SchedulerFacts, CycleMoves

LEMMA StepLeave ==
  ASSUME SchedulerInv, NEW c \in Cycles, Leave(c)
  PROVE  SchedulerInv'
BY CyclePieces, SchedulerFacts, CycleMoves DEF Leave

LEMMA StepExpires ==
  ASSUME SchedulerInv, (\E s \in Symbols : LockExpires(s)) \/ (\E k \in candleKeys : CandleKeyExpires(k))
  PROVE  SchedulerInv'
<1>1. /\ UNCHANGED <<now, cycle, signals, stream>>
      /\ locks' \subseteq Symbols /\ candleKeys' \subseteq Keys
  BY SchedulerFacts DEF LockExpires, CandleKeyExpires
<1>2. \A k \in Keys : Taken(candleKeys, now, k) => Taken(candleKeys', now', k)
  BY SchedulerFacts DEF LockExpires, CandleKeyExpires, Taken, Keys, Candles
<1>3. QED
  BY <1>1, <1>2, SchedulerFacts, SchedulerMoves

LEMMA StepSchedulerCrash ==
  ASSUME SchedulerInv, NEW r \in Replicas, SchedulerCrash(r)
  PROVE  SchedulerInv'
<1>1. /\ cycle' \in [Cycles -> CycleType]
      /\ \A c \in Cycles : cycle'[c] = cycle[c] \/ cycle'[c].pc = "idle"
  BY SchedulerFacts DEF SchedulerCrash, CycleType, Idle
<1>2. UNCHANGED <<now, locks, candleKeys, signals, stream>>
  BY DEF SchedulerCrash
<1>3. QED
  BY <1>1, <1>2, SchedulerFacts, SchedulerMoves

LEMMA SchedulerStutters == SchedulerInv /\ UNCHANGED <<scheduler, stream>> => SchedulerInv'
BY DEF scheduler, SchedulerInv, SchedulerTypes, CyclesInTime, ClaimsDiffer, RowsDiffer,
       EntriesAreRows, At, Key, Taken

-----------------------------------------------------------------------------
(* The consumer's steps.                                                   *)

\* Rows and entries are only added, so the scheduler disturbs nothing here.
LEMMA ConsumerUndisturbed ==
  ASSUME ConsumerInv, UNCHANGED consumer,
         stream \in Seq(SignalIds), stream' \in Seq(SignalIds),
         Len(stream) <= Len(stream'),
         \A m \in DOMAIN stream : stream'[m] = stream[m],
         DOMAIN signals \subseteq DOMAIN signals'
  PROVE  ConsumerInv'
<1>1. \A m \in DOMAIN stream : DecidedMessage(m) => DecidedMessage(m)'
  BY DEF consumer, DecidedMessage
<1>2. ConsumerTypes'
  BY DEF consumer, ConsumerInv, ConsumerTypes
<1>3. batch # <<>> => Head(batch) \in DOMAIN stream
  BY DEF ConsumerInv, ConsumerTypes
<1>4. WorkInOrder'
  BY <1>1, <1>3 DEF consumer, ConsumerInv, WorkInOrder
<1>5. SubmittedOnce'
  BY DEF consumer, ConsumerInv, SubmittedOnce
<1>6. acked \subseteq DOMAIN stream
  BY DEF ConsumerInv, ConsumerTypes
<1>7. AckedIsDecided'
  BY <1>1, <1>6 DEF consumer, ConsumerInv, AckedIsDecided, DecidedMessage
<1>8. QED
  BY <1>2, <1>4, <1>5, <1>7 DEF ConsumerInv

LEMMA ConsumerFacts ==
  ASSUME PipelineInv
  PROVE  /\ stream \in Seq(SignalIds) /\ Len(stream) <= MaxMessages
         /\ \A m \in DOMAIN stream : stream[m] \in DOMAIN signals
         /\ DOMAIN signals \subseteq SignalIds
         /\ delivered \in 0..Len(stream)
         /\ batch \in Seq(1..MaxMessages) /\ Len(batch) <= MaxMessages
         /\ \A i \in DOMAIN batch : batch[i] <= delivered
         /\ work \in WorkType
         /\ decisionKeys \subseteq DOMAIN signals
         /\ submissions \in Seq(SignalIds)
         /\ decisions \subseteq Decision
         /\ acked \subseteq 1..delivered
BY DEF PipelineInv, SchedulerInv, SchedulerTypes, EntriesAreRows, ConsumerInv, ConsumerTypes,
       SignalIds

\* What is true of the message in hand.
LEMMA HeadFacts ==
  ASSUME PipelineInv, batch # <<>>
  PROVE  /\ Head(batch) \in 1..delivered /\ Head(batch) \in DOMAIN stream
         /\ Head(batch) \in 1..MaxMessages
         /\ stream[Head(batch)] \in DOMAIN signals /\ stream[Head(batch)] \in 1..MaxSignals
         /\ Tail(batch) \in Seq(1..MaxMessages) /\ Len(Tail(batch)) <= MaxMessages
         /\ \A i \in DOMAIN Tail(batch) : Tail(batch)[i] <= delivered
<1>1. /\ Len(batch) \in Nat \ {0} /\ Head(batch) = batch[1] /\ 1 \in DOMAIN batch
      /\ \A i \in DOMAIN Tail(batch) : Tail(batch)[i] = batch[i + 1] /\ i + 1 \in DOMAIN batch
      /\ Tail(batch) \in Seq(1..MaxMessages) /\ Len(Tail(batch)) <= MaxMessages
  BY ConsumerFacts
<1>2. Head(batch) \in 1..delivered
  BY <1>1, ConsumerFacts
<1>3. Head(batch) \in DOMAIN stream
  BY <1>2, ConsumerFacts
<1>4. QED
  BY <1>1, <1>2, <1>3, ConsumerFacts DEF SignalIds

LEMMA NoWorkType == NoWork \in WorkType /\ NoWork.pc = "idle"
BY DEF NoWork, WorkType, Outcomes

\* The message in hand is dropped, whole batch or not.
LEMMA DropWork ==
  ASSUME PipelineInv,
         batch' \in Seq(1..MaxMessages), Len(batch') <= MaxMessages,
         delivered' \in delivered..Len(stream),
         \A i \in DOMAIN batch' : batch'[i] <= delivered',
         work' = NoWork,
         UNCHANGED <<scheduler, stream, decisionKeys, submissions, decisions>>,
         acked' = acked \/ (batch # <<>> /\ work.pc = "ack" /\ acked' = acked \cup {Head(batch)})
  PROVE  ConsumerInv'
<1>1. signals' = signals
  BY DEF scheduler
<1>2. acked' \subseteq 1..delivered /\ 1..delivered \subseteq 1..delivered'
  BY HeadFacts, ConsumerFacts
<1>3. ConsumerTypes'
  BY <1>1, <1>2, ConsumerFacts, NoWorkType DEF ConsumerTypes
<1>4. WorkInOrder'
  BY NoWorkType DEF WorkInOrder
<1>5. SubmittedOnce'
  BY NoWorkType DEF PipelineInv, ConsumerInv, SubmittedOnce
<1>6. \A m \in acked' : DecidedMessage(m)
  BY DEF PipelineInv, ConsumerInv, WorkInOrder, AckedIsDecided, DecidedMessage
<1>7. AckedIsDecided'
  BY <1>6 DEF AckedIsDecided, DecidedMessage
<1>8. QED
  BY <1>3, <1>4, <1>5, <1>7 DEF ConsumerInv

LEMMA StepReadBatch == PipelineInv /\ ReadBatch => ConsumerInv'
<1> SUFFICES ASSUME PipelineInv, ReadBatch PROVE ConsumerInv'
  OBVIOUS
<1> DEFINE n == Smaller(BatchSize, Len(stream) - delivered)
<1>1. n \in 1..(Len(stream) - delivered)
  BY ConsumerFacts DEF ReadBatch, Smaller
<1>2. batch' = [i \in 1..n |-> delivered + i] /\ delivered' = delivered + n
  BY DEF ReadBatch
<1> HIDE DEF n
<1>3. delivered' \in delivered..Len(stream)
  BY <1>1, <1>2, ConsumerFacts
<1>4. /\ batch' \in Seq(1..MaxMessages) /\ Len(batch') = n /\ n <= MaxMessages
      /\ \A i \in DOMAIN batch' : batch'[i] <= delivered'
  BY <1>1, <1>2, <1>3, ConsumerFacts
<1>5. QED
  BY <1>3, <1>4, DropWork DEF ReadBatch

LEMMA StepDrop == PipelineInv /\ (Acknowledge \/ GiveUp \/ ConsumerCrash) => ConsumerInv'
<1> SUFFICES ASSUME PipelineInv, Acknowledge \/ GiveUp \/ ConsumerCrash PROVE ConsumerInv'
  OBVIOUS
<1>1. /\ batch # <<>> /\ work' = NoWork /\ delivered' = delivered
      /\ UNCHANGED <<scheduler, stream, decisionKeys, submissions, decisions>>
      /\ acked' = acked \/ (work.pc = "ack" /\ acked' = acked \cup {Head(batch)})
      /\ batch' = Tail(batch) \/ batch' = <<>>
  BY DEF Acknowledge, GiveUp, ConsumerCrash, Handling
<1>2. /\ batch' \in Seq(1..MaxMessages) /\ Len(batch') <= MaxMessages
      /\ \A i \in DOMAIN batch' : batch'[i] <= delivered
  <2>1. CASE batch' = Tail(batch)
    BY <1>1, <2>1, HeadFacts
  <2>2. CASE batch' = <<>>
    BY <2>2
  <2>3. QED
    BY <1>1, <2>1, <2>2
<1>3. delivered \in delivered..Len(stream)
  BY ConsumerFacts
<1>4. QED
  BY <1>1, <1>2, <1>3, DropWork

\* The message in hand stays in hand; keys and decisions may be added.
LEMMA WorkMoves ==
  ASSUME PipelineInv, batch # <<>>, work' \in WorkType, work'.pc # "idle",
         work'.signal = stream[Head(batch)],
         UNCHANGED <<scheduler, stream, delivered, batch, acked>>,
         decisionKeys \subseteq decisionKeys', decisionKeys' \subseteq DOMAIN signals,
         decisions \subseteq decisions', decisions' \subseteq Decision,
         work'.pc = "ack" => DecidedMessage(Head(batch))',
         submissions' \in Seq(SignalIds),
         SubmittedOnce'
  PROVE  ConsumerInv'
<1>1. signals' = signals
  BY DEF scheduler
<1>2. ConsumerTypes'
  BY <1>1, ConsumerFacts DEF ConsumerTypes
<1>3. WorkInOrder'
  BY DEF WorkInOrder
<1>4. AckedIsDecided'
  BY DEF PipelineInv, ConsumerInv, AckedIsDecided
<1>5. QED
  BY <1>2, <1>3, <1>4 DEF ConsumerInv

LEMMA StepTakeMessage == PipelineInv /\ TakeMessage => ConsumerInv'
<1> SUFFICES ASSUME PipelineInv, TakeMessage PROVE ConsumerInv'
  OBVIOUS
<1> DEFINE s == stream[Head(batch)]
<1>1. batch # <<>> /\ s \in DOMAIN signals /\ s \in 1..MaxSignals
  BY HeadFacts DEF TakeMessage, Handling
\* Every entry names a committed row: the message is readable.
<1>2. PICK next \in {"balance", "noBalance"} :
        work' = IF next = "noBalance"
                THEN [pc |-> "decided", signal |-> s, outcome |-> "noBalance"]
                ELSE [pc |-> next, signal |-> s, outcome |-> "rejected"]
  BY <1>1 DEF TakeMessage
<1>3. /\ work' \in WorkType /\ work'.pc \in {"balance", "decided"} /\ work'.signal = s
  BY <1>1, <1>2 DEF WorkType, Outcomes
<1>4. UNCHANGED <<scheduler, stream, delivered, batch, decisionKeys, submissions, decisions, acked>>
  BY DEF TakeMessage
<1>5. SubmittedOnce'
  BY <1>3, <1>4 DEF PipelineInv, ConsumerInv, SubmittedOnce
<1>6. QED
  BY <1>1, <1>3, <1>4, <1>5, ConsumerFacts, WorkMoves

LEMMA StepEvaluate == PipelineInv /\ Evaluate => ConsumerInv'
<1> SUFFICES ASSUME PipelineInv, Evaluate PROVE ConsumerInv'
  OBVIOUS
<1>1. /\ batch # <<>> /\ work.pc = "balance" /\ work.signal = stream[Head(batch)]
      /\ work.signal \in DOMAIN signals
  BY HeadFacts DEF Evaluate, Handling, PipelineInv, ConsumerInv, WorkInOrder
<1>2. PICK r \in SetNX(decisionKeys, work.signal) :
         /\ decisionKeys' = r.held
         /\ \/ r.won /\ work' = [work EXCEPT !.pc = "approved", !.outcome = "approved"]
            \/ work' = Decided("rejected")
            \/ ~r.won /\ work' = Decided("duplicate")
  BY DEF Evaluate
<1>3. r.held = decisionKeys \cup {work.signal} /\ (r.won => work.signal \notin decisionKeys)
  <2>1. \/ r = [held |-> decisionKeys \cup {work.signal}, won |-> work.signal \notin decisionKeys]
        \/ r = [held |-> decisionKeys \cup {work.signal}, won |-> FALSE]
    BY <1>2 DEF SetNX
  <2>2. /\ r.held = decisionKeys \cup {work.signal}
        /\ r.won = (work.signal \notin decisionKeys) \/ r.won = FALSE
    BY <2>1
  <2>3. QED
    BY <2>2, Zenon
<1>4. /\ work' \in WorkType /\ work'.pc \in {"approved", "decided"} /\ work'.signal = work.signal
      /\ work'.pc = "approved" => work.signal \notin decisionKeys
  <2>1. work \in WorkType
    BY ConsumerFacts
  <2>2. CASE r.won /\ work' = [work EXCEPT !.pc = "approved", !.outcome = "approved"]
    BY <1>3, <2>1, <2>2 DEF WorkType, Outcomes
  <2>3. CASE work' = Decided("rejected") \/ work' = Decided("duplicate")
    BY <2>1, <2>3 DEF WorkType, Outcomes, Decided
  <2>4. QED
    BY <1>2, <2>2, <2>3
<1>5. UNCHANGED <<scheduler, stream, delivered, batch, submissions, decisions, acked>>
  BY DEF Evaluate
<1>6. SubmittedOnce'
  BY <1>2, <1>3, <1>4, <1>5 DEF PipelineInv, ConsumerInv, SubmittedOnce
<1>7. QED
  BY <1>1, <1>2, <1>3, <1>4, <1>5, <1>6, ConsumerFacts, WorkMoves

LEMMA StepSubmit == PipelineInv /\ Submit => ConsumerInv'
<1> SUFFICES ASSUME PipelineInv, Submit PROVE ConsumerInv'
  OBVIOUS
<1>1. /\ batch # <<>> /\ work.pc = "approved" /\ work.signal = stream[Head(batch)]
      /\ work.signal \in DOMAIN signals /\ work.signal \in SignalIds
  BY HeadFacts DEF Submit, Handling, PipelineInv, ConsumerInv, WorkInOrder, SignalIds
<1>2. /\ UNCHANGED <<scheduler, stream, delivered, batch, decisionKeys, decisions, acked>>
      /\ submissions' = Append(submissions, work.signal) /\ work' = Decided("approved")
  BY DEF Submit
<1>3. work' \in WorkType /\ work'.pc = "decided" /\ work'.signal = work.signal
  BY <1>2, ConsumerFacts DEF Decided, WorkType, Outcomes
<1> DEFINE n == Len(submissions) + 1
<1>4. /\ submissions' \in Seq(SignalIds) /\ submissions'[n] = work.signal
      /\ \A i \in DOMAIN submissions' :
            i = n \/ (i \in DOMAIN submissions /\ submissions'[i] = submissions[i])
  BY <1>1, <1>2, ConsumerFacts
<1> HIDE DEF n
<1>5. SubmittedOnce'
  BY <1>1, <1>2, <1>3, <1>4 DEF PipelineInv, ConsumerInv, SubmittedOnce
<1>6. QED
  BY <1>1, <1>2, <1>3, <1>4, <1>5, ConsumerFacts, WorkMoves

LEMMA StepCommitDecision == PipelineInv /\ CommitDecision => ConsumerInv'
<1> SUFFICES ASSUME PipelineInv, CommitDecision PROVE ConsumerInv'
  OBVIOUS
<1> DEFINE d == [message |-> Head(batch), signal |-> work.signal, outcome |-> work.outcome]
<1>1. /\ batch # <<>> /\ work.pc = "decided" /\ work.signal = stream[Head(batch)]
      /\ work.signal \in DOMAIN signals /\ work.signal \in SignalIds
      /\ Head(batch) \in 1..MaxMessages
  BY HeadFacts DEF CommitDecision, Handling, PipelineInv, ConsumerInv, WorkInOrder, SignalIds
<1>2. /\ UNCHANGED <<scheduler, stream, delivered, batch, decisionKeys, submissions, acked>>
      /\ decisions' = decisions \cup {d} /\ work' = [work EXCEPT !.pc = "ack"]
  BY DEF CommitDecision
<1>3. /\ work' \in WorkType /\ work'.pc = "ack" /\ work'.signal = work.signal
      /\ work.outcome \in Outcomes
  BY <1>2, ConsumerFacts DEF WorkType
<1>4. d \in Decision
  BY <1>1, <1>3 DEF Decision
<1>5. DecidedMessage(Head(batch))'
  <2>1. d.message = Head(batch') /\ d.signal = stream'[Head(batch')] /\ d \in decisions'
    BY <1>1, <1>2
  <2>2. QED
    BY <2>1 DEF DecidedMessage
<1> HIDE DEF d
<1>6. SubmittedOnce'
  BY <1>2, <1>3 DEF PipelineInv, ConsumerInv, SubmittedOnce
<1>7. QED
  BY <1>1, <1>2, <1>3, <1>4, <1>5, <1>6, ConsumerFacts, WorkMoves

-----------------------------------------------------------------------------
SchedulerStep ==
    \/ CandleCloses
    \/ \E c \in Cycles : AcquireLock(c) \/ CycleStep(c)
    \/ \E s \in Symbols : LockExpires(s)
    \/ \E k \in candleKeys : CandleKeyExpires(k)
    \/ \E r \in Replicas : SchedulerCrash(r)

ConsumerStep == ReadBatch \/ Handle \/ GiveUp \/ ConsumerCrash

LEMMA SchedulerKeeps ==
  ASSUME PipelineInv, SchedulerStep
  PROVE  SchedulerInv'
<1>1. SchedulerInv
  BY DEF PipelineInv
<1>2. CASE CandleCloses
  BY <1>1, <1>2, StepCandleCloses
<1>3. CASE \E c \in Cycles : AcquireLock(c)
  BY <1>1, <1>3, StepAcquireLock
<1>4. CASE \E c \in Cycles : ClaimCandle(c)
  BY <1>1, <1>4, StepClaimCandle
<1>5. CASE \E c \in Cycles : CommitSignal(c)
  BY <1>1, <1>5, StepCommitSignal
<1>6. CASE \E c \in Cycles : Publish(c)
  BY <1>1, <1>6, StepPublish
<1>7. CASE \E c \in Cycles : Leave(c)
  BY <1>1, <1>7, StepLeave
<1>8. CASE (\E s \in Symbols : LockExpires(s)) \/ (\E k \in candleKeys : CandleKeyExpires(k))
  BY <1>1, <1>8, StepExpires
<1>9. CASE \E r \in Replicas : SchedulerCrash(r)
  BY <1>1, <1>9, StepSchedulerCrash
<1>10. QED
  BY <1>2, <1>3, <1>4, <1>5, <1>6, <1>7, <1>8, <1>9 DEF SchedulerStep, CycleStep

\* Rows and entries are only added, and not by the same step.
LEMMA SchedulerAdds ==
  ASSUME PipelineInv, SchedulerStep
  PROVE  /\ UNCHANGED consumer
         /\ \/ signals' = signals
            \/ \E c \in Cycles : At(c, "claimed") /\ signals' = Append(signals, Key(c))
         /\ \/ stream' = stream
            \/ \E n \in {1, 2}, s \in SignalIds : stream' = stream \o [i \in 1..n |-> s]
<1>1. CASE \E c \in Cycles : CommitSignal(c)
  BY <1>1 DEF CommitSignal, Key
<1>2. CASE \E c \in Cycles : Publish(c)
  <2>1. PICK c \in Cycles : Publish(c)
    BY <1>2
  <2>2. cycle[c].signal \in SignalIds
    BY <2>1, ConsumerFacts DEF PipelineInv, SchedulerInv, CyclesInTime, Publish
  <2>3. PICK n \in {1, 2} : stream' = stream \o [i \in 1..n |-> cycle[c].signal]
    BY <2>1 DEF Publish
  <2>4. QED
    BY <2>1, <2>2, <2>3 DEF Publish
<1>3. CASE ~(\E c \in Cycles : CommitSignal(c) \/ Publish(c))
  BY <1>3 DEF SchedulerStep, CycleStep, CandleCloses, AcquireLock, ClaimCandle, Leave, LockExpires,
              CandleKeyExpires, SchedulerCrash
<1>4. QED
  BY <1>1, <1>2, <1>3

LEMMA NextPipeline == PipelineInv /\ [Next]_vars => PipelineInv'
<1> SUFFICES ASSUME PipelineInv, [Next]_vars PROVE PipelineInv'
  OBVIOUS
<1>1. CASE SchedulerStep
  <2>1. SchedulerInv'
    BY <1>1, SchedulerKeeps
  <2>2. /\ signals \in Seq(Keys) /\ stream \in Seq(SignalIds)
        /\ signals' \in Seq(Keys) /\ stream' \in Seq(SignalIds)
    BY <2>1 DEF PipelineInv, SchedulerInv, SchedulerTypes
  <2>3. DOMAIN signals \subseteq DOMAIN signals'
    <3>1. CASE signals' = signals
      BY <3>1
    <3>2. CASE \E c \in Cycles : signals' = Append(signals, Key(c))
      BY <2>2, <3>2
    <3>3. QED
      BY <1>1, <3>1, <3>2, SchedulerAdds
  <2>4. Len(stream) <= Len(stream') /\ \A m \in DOMAIN stream : stream'[m] = stream[m]
    <3>1. CASE stream' = stream
      BY <2>2, <3>1
    <3>2. CASE \E n \in {1, 2}, s \in SignalIds : stream' = stream \o [i \in 1..n |-> s]
      <4>1. PICK n \in {1, 2}, s \in SignalIds : stream' = stream \o [i \in 1..n |-> s]
        BY <3>2
      <4>2. [i \in 1..n |-> s] \in Seq(SignalIds)
        OBVIOUS
      <4>3. QED
        BY <2>2, <4>1, <4>2
    <3>3. QED
      BY <1>1, <3>1, <3>2, SchedulerAdds
  <2>5. ConsumerInv'
    BY <1>1, <2>2, <2>3, <2>4, SchedulerAdds, ConsumerUndisturbed DEF PipelineInv
  <2>6. QED
    BY <2>1, <2>5 DEF PipelineInv
<1>2. CASE ConsumerStep
  <2>1. UNCHANGED <<scheduler, stream>>
    BY <1>2 DEF ConsumerStep, Handle, ReadBatch, TakeMessage, Evaluate, Submit, CommitDecision,
                Acknowledge, GiveUp, ConsumerCrash
  <2>2. SchedulerInv'
    BY <2>1, SchedulerStutters DEF PipelineInv
  <2>3. ConsumerInv'
    BY <1>2, StepReadBatch, StepTakeMessage, StepEvaluate, StepSubmit, StepCommitDecision, StepDrop
       DEF ConsumerStep, Handle
  <2>4. QED
    BY <2>2, <2>3 DEF PipelineInv
<1>3. CASE UNCHANGED vars
  <2>1. SchedulerInv'
    BY <1>3, SchedulerStutters DEF vars, PipelineInv
  <2>2. UNCHANGED consumer /\ stream' = stream /\ signals' = signals
    BY <1>3 DEF vars, scheduler
  <2>3. Len(stream) <= Len(stream') /\ stream \in Seq(SignalIds) /\ stream' \in Seq(SignalIds)
    BY <2>2, ConsumerFacts
  <2>4. ConsumerInv'
    BY <2>2, <2>3, ConsumerUndisturbed DEF PipelineInv
  <2>5. QED
    BY <2>1, <2>4 DEF PipelineInv
<1>4. QED
  BY <1>1, <1>2, <1>3 DEF Next, SchedulerStep, ConsumerStep

(* The invariant of the pipeline: a candle's key outlives every claim to   *)
(* the candle, and a decision key every submission of its signal.          *)
THEOREM SpecPipelineInv == Spec => []PipelineInv
<1>1. QED
  BY InitPipeline, NextPipeline, PTL DEF Spec

(* Keys, cycles, rows, entries and decisions keep their types.             *)
THEOREM SpecTypeOK == Spec => []TypeOK
<1>1. ASSUME PipelineInv PROVE TypeOK
  <2>1. delivered \in 0..MaxMessages /\ acked \subseteq 1..MaxMessages /\ decisionKeys \subseteq SignalIds
    BY <1>1, ConsumerFacts
  <2>2. QED
    BY <1>1, <2>1, ConsumerFacts
       DEF TypeOK, PipelineInv, SchedulerInv, SchedulerTypes, CycleType, WorkType, Decision, Keys
<1>2. QED
  BY <1>1, SpecPipelineInv, PTL

(* Nothing is acknowledged before its outcome is durable, whatever crashes,*)
(* fails or is sent again.                                                 *)
THEOREM SpecAckedIsDecided == Spec => []AckedIsDecided
<1>1. PipelineInv => AckedIsDecided
  BY DEF PipelineInv, ConsumerInv
<1>2. QED
  BY <1>1, SpecPipelineInv, PTL

-----------------------------------------------------------------------------
(* The refinement.  The state of CandleOnce counts rows and submissions.   *)
RowsOf(k) == {i \in DOMAIN signals : signals[i] = k}
CallsOf(k) == {i \in DOMAIN submissions : signals[submissions[i]] = k}

Generated == [k \in Symbols \X Candles |-> Cardinality({i \in DOMAIN signals : signals[i] = k})]
Submitted == [k \in Symbols \X Candles |->
                Cardinality({i \in DOMAIN submissions : signals[submissions[i]] = k})]

LEMMA CountOnce ==
  ASSUME NEW S, \A i, j \in S : i = j
  PROVE  Cardinality(S) = IF S = {} THEN 0 ELSE 1
<1>1. CASE S = {}
  BY <1>1, FS_EmptySet
<1>2. CASE S # {}
  <2>1. PICK i : S = {i}
    BY <1>2
  <2>2. QED
    BY <2>1, FS_Singleton
<1>3. QED
  BY <1>1, <1>2

\* Rows and submissions are 0 or 1 for each candle.
AtMostOnce ==
    \A k \in Keys : /\ Generated[k] = IF RowsOf(k) = {} THEN 0 ELSE 1
                    /\ Submitted[k] = IF CallsOf(k) = {} THEN 0 ELSE 1

LEMMA Counts == PipelineInv => AtMostOnce
<1> SUFFICES ASSUME PipelineInv, NEW k \in Keys
             PROVE  /\ Generated[k] = IF RowsOf(k) = {} THEN 0 ELSE 1
                    /\ Submitted[k] = IF CallsOf(k) = {} THEN 0 ELSE 1
  BY DEF AtMostOnce
<1>1. Generated[k] = Cardinality(RowsOf(k)) /\ Submitted[k] = Cardinality(CallsOf(k))
  BY DEF Generated, Submitted, RowsOf, CallsOf, Keys
<1>2. \A i, j \in RowsOf(k) : i = j
  BY DEF PipelineInv, SchedulerInv, RowsDiffer, RowsOf
<1>3. \A i, j \in CallsOf(k) : i = j
  <2>1. \A i \in DOMAIN submissions : submissions[i] \in DOMAIN signals
    BY ConsumerFacts DEF PipelineInv, ConsumerInv, SubmittedOnce
  <2>2. QED
    BY <2>1 DEF PipelineInv, SchedulerInv, RowsDiffer, ConsumerInv, SubmittedOnce, CallsOf
<1>4. QED
  BY <1>1, <1>2, <1>3, CountOnce

LEMMA InitCandleOnce == Init => Promise!Init
<1> SUFFICES ASSUME Init PROVE Promise!Init
  OBVIOUS
<1>1. \A k \in Keys : RowsOf(k) = {} /\ CallsOf(k) = {}
  BY DEF Init, RowsOf, CallsOf
<1>2. \A k \in Keys : Generated[k] = 0 /\ Submitted[k] = 0
  BY <1>1, InitPipeline, Counts DEF AtMostOnce
<1>3. Generated = [k \in Keys |-> 0] /\ Submitted = [k \in Keys |-> 0]
  BY <1>2 DEF Generated, Submitted, Keys
<1>4. QED
  BY <1>3 DEF Promise!Init, Generated, Submitted, Keys

\* The step of CandleOnce that a step of the pipeline is.
LEMMA CommitSignalGenerates ==
  ASSUME PipelineInv, PipelineInv', NEW k \in Keys, signals' = Append(signals, k),
         submissions' = submissions
  PROVE  /\ Generated[k] = 0 /\ Generated' = [Generated EXCEPT ![k] = 1]
         /\ Submitted' = Submitted
<1> DEFINE n == Len(signals) + 1
<1>1. /\ DOMAIN signals' = 1..n /\ n \in DOMAIN signals' /\ signals'[n] = k
      /\ \A i \in DOMAIN signals : i # n /\ i \in DOMAIN signals' /\ signals'[i] = signals[i]
      /\ \A i \in DOMAIN signals' : i # n => i \in DOMAIN signals
  BY DEF PipelineInv, SchedulerInv, SchedulerTypes
<1> HIDE DEF n
<1>2. RowsOf(k) = {}
  <2>1. \A i \in DOMAIN signals : signals[i] # k
    BY <1>1 DEF PipelineInv, SchedulerInv, RowsDiffer
  <2>2. QED
    BY <2>1 DEF RowsOf
<1>3. RowsOf(k)' # {} /\ \A q \in Keys : q # k => RowsOf(q)' = RowsOf(q)
  BY <1>1 DEF RowsOf
<1>4. \A i \in DOMAIN submissions : signals'[submissions[i]] = signals[submissions[i]]
  BY <1>1, ConsumerFacts DEF PipelineInv, ConsumerInv, SubmittedOnce
<1>5. \A q \in Keys : CallsOf(q)' = CallsOf(q)
  BY <1>4 DEF CallsOf
<1>6. \A q \in Keys : /\ Generated[q] = IF RowsOf(q) = {} THEN 0 ELSE 1
                      /\ Generated'[q] = IF RowsOf(q)' = {} THEN 0 ELSE 1
  <2>1. AtMostOnce /\ AtMostOnce'
    BY Counts, PTL
  <2>2. QED
    BY <2>1 DEF AtMostOnce
<1>7. Generated[k] = 0 /\ \A q \in Keys : Generated'[q] = IF q = k THEN 1 ELSE Generated[q]
  BY <1>2, <1>3, <1>6
<1>8. /\ Generated = [q \in Keys |-> Generated[q]]
      /\ Generated' = [q \in Keys |-> Generated'[q]]
  BY DEF Generated, Keys
<1>9. Submitted' = Submitted
  BY <1>5 DEF Submitted, CallsOf, Keys
<1>10. QED
  BY <1>7, <1>8, <1>9

LEMMA SubmitSubmits ==
  ASSUME PipelineInv, PipelineInv', Submit
  PROVE  \E k \in Keys : /\ Generated[k] = 1 /\ Submitted[k] = 0
                         /\ Submitted' = [Submitted EXCEPT ![k] = 1]
                         /\ Generated' = Generated
<1> DEFINE n == Len(submissions) + 1
<1>1. PICK s \in DOMAIN signals :
         /\ s = work.signal /\ submissions' = Append(submissions, s)
         /\ \A i \in DOMAIN submissions : submissions[i] # s
  BY HeadFacts DEF Submit, Handling, PipelineInv, ConsumerInv, WorkInOrder, SubmittedOnce
<1>2. signals' = signals
  BY DEF Submit, scheduler
<1>3. PICK k \in Keys : signals[s] = k
  BY <1>1, SchedulerFacts DEF PipelineInv
<1>4. /\ n \in DOMAIN submissions' /\ submissions'[n] = s
      /\ \A i \in DOMAIN submissions : i # n /\ i \in DOMAIN submissions'
                                       /\ submissions'[i] = submissions[i]
      /\ \A i \in DOMAIN submissions' : i # n => i \in DOMAIN submissions
  BY <1>1, ConsumerFacts
<1> HIDE DEF n
\* Another submission of the candle would be of another row of the candle.
<1>5. CallsOf(k) = {}
  <2>1. \A i \in DOMAIN submissions : submissions[i] \in DOMAIN signals
    BY ConsumerFacts DEF PipelineInv, ConsumerInv, SubmittedOnce
  <2>2. \A i \in DOMAIN submissions : signals[submissions[i]] # k
    BY <1>1, <1>3, <2>1 DEF PipelineInv, SchedulerInv, RowsDiffer
  <2>3. QED
    BY <2>2 DEF CallsOf
<1>6. RowsOf(k) # {} /\ \A q \in Keys : RowsOf(q)' = RowsOf(q)
  BY <1>2, <1>3 DEF RowsOf
<1>7. CallsOf(k)' # {} /\ \A q \in Keys : q # k => CallsOf(q)' = CallsOf(q)
  BY <1>2, <1>3, <1>4 DEF CallsOf
<1>8. AtMostOnce /\ AtMostOnce'
  BY Counts, PTL
<1>9. /\ Generated[k] = 1 /\ Submitted[k] = 0
      /\ \A q \in Keys : Submitted'[q] = IF q = k THEN 1 ELSE Submitted[q]
  BY <1>3, <1>5, <1>6, <1>7, <1>8 DEF AtMostOnce
<1>10. /\ Submitted = [q \in Keys |-> Submitted[q]]
       /\ Submitted' = [q \in Keys |-> Submitted'[q]]
  BY DEF Submitted, Keys
<1>11. Submitted' = [Submitted EXCEPT ![k] = 1]
  BY <1>9, <1>10
<1>12. Generated' = Generated
  BY <1>2 DEF Generated
<1>13. QED
  BY <1>3, <1>9, <1>11, <1>12

LEMMA StepCandleOnce ==
  ASSUME PipelineInv, PipelineInv', [Next]_vars
  PROVE  [Promise!Next]_Promise!vars
<1>1. CASE signals' = signals /\ submissions' = submissions
  <2>1. Generated' = Generated /\ Submitted' = Submitted
    BY <1>1 DEF Generated, Submitted
  <2>2. QED
    BY <2>1 DEF Promise!vars, Generated, Submitted
<1>2. CASE SchedulerStep
  <2>1. submissions' = submissions
    BY <1>2, SchedulerAdds DEF consumer
  <2>2. CASE \E c \in Cycles : At(c, "claimed") /\ signals' = Append(signals, Key(c))
    <3>1. PICK k \in Keys : signals' = Append(signals, k)
      BY <2>2 DEF PipelineInv, SchedulerInv, CyclesInTime, Key, Keys, Cycles
    <3>2. /\ Generated[k] = 0 /\ Generated' = [Generated EXCEPT ![k] = 1]
          /\ Submitted' = Submitted
      BY <2>1, <3>1, CommitSignalGenerates
    <3>3. Promise!Generate(k)
      BY <3>2 DEF Promise!Generate, Generated, Submitted
    <3>4. QED
      BY <3>3 DEF Promise!Next, Keys
  <2>3. QED
    BY <1>1, <1>2, <2>1, <2>2, SchedulerAdds
<1>3. CASE Submit
  <2>1. PICK k \in Keys : /\ Generated[k] = 1 /\ Submitted[k] = 0
                          /\ Submitted' = [Submitted EXCEPT ![k] = 1]
                          /\ Generated' = Generated
    BY <1>3, SubmitSubmits
  <2>2. Promise!Submit(k)
    BY <2>1 DEF Promise!Submit, Generated, Submitted
  <2>3. QED
    BY <2>2 DEF Promise!Next, Keys
<1>4. CASE ConsumerStep /\ ~Submit
  BY <1>1, <1>4 DEF ConsumerStep, Handle, ReadBatch, TakeMessage, Evaluate, CommitDecision,
                    Acknowledge, GiveUp, ConsumerCrash, scheduler
<1>5. CASE UNCHANGED vars
  BY <1>1, <1>5 DEF vars, scheduler, consumer
<1>6. QED
  BY <1>2, <1>3, <1>4, <1>5 DEF Next, SchedulerStep, ConsumerStep

(* The pipeline implements CandleOnce: at most one signal for each candle  *)
(* of each symbol and at most one order for it, under every combination of *)
(* crashes, exceptions, expired locks and commands sent twice              *)
(* (PROJECT.md 14 rule 12).                                                *)
THEOREM SpecCandleOnce == Spec => CandleOnceSpec
<1>1. PipelineInv /\ PipelineInv' /\ [Next]_vars => [Promise!Next]_Promise!vars
  BY StepCandleOnce
<1>2. QED
  BY <1>1, InitCandleOnce, SpecPipelineInv, PTL DEF Spec, CandleOnceSpec, Promise!Spec

=============================================================================
