----------------------------- MODULE LlmAnalysis -----------------------------
(***************************************************************************)
(* One /analyze call per trading cycle: pre-filter, the provider with its  *)
(* one retry and its deadline, the validator with its repairs, and what    *)
(* the scheduler makes of the reply, with the counter of failed calls in   *)
(* Redis and the alerts it raises.  Cycles of different symbols overlap;   *)
(* a symbol has one cycle at a time.                                       *)
(*                                                                         *)
(* How the signal is stored and published afterwards is the subject of     *)
(* SignalPipeline.                                                         *)
(***************************************************************************)
EXTENDS MarketRubric

CONSTANTS
    Symbols,
    Markets,      \* the markets each symbol may be analysed in
    Texts,        \* what the model may answer
    Prefilter,    \* llm_prefilter_enabled
    MaxRepairs,   \* max_repair_attempts, 0 by default
    Budget,       \* analyze_timeout_seconds, in units of the pause before a retry
    Threshold,    \* llm_timeout_alert_threshold
    MaxFailures   \* bound: how far the counter of failed calls can go

ASSUME AnalysisAssumption ==
    /\ \A s \in Symbols : Markets[s] \subseteq MarketType
    /\ Texts \subseteq [json : BOOLEAN, action : Actions \cup {"other"},
                        confidence : Int, whole : BOOLEAN]
    /\ \A a \in Actions :              \* the prompt offers every action
          \E text \in Texts : /\ text.action = a /\ text.confidence \in 0 .. 1000
                              /\ text.json /\ text.whole
    /\ Prefilter \in BOOLEAN
    /\ {MaxRepairs, Budget, MaxFailures} \subseteq Nat
    /\ Threshold \in Nat \ {0}

VARIABLES
    cycles,    \* the cycle of each symbol
    streak,    \* llm:timeout_streak; 0 stands for no key
    \* An outage lasts as long as its key does.  History of the present one:
    failures,  \* failed calls whose INCR was answered
    unheard,   \* INCRs that took effect and whose reply was lost
    paging,    \* symbols whose uncommitted cycle carries its LLM_TIMEOUT_STREAK
    pages,     \* such alerts committed
    missed     \* such alerts lost to an error of EXPIRE or with their transaction

outage == <<failures, unheard, paging, pages, missed>>
counters == <<streak, outage>>
vars == <<cycles, counters>>

NoMarket == [price |-> 0]    \* of a cycle that has not begun
NoText == [json |-> FALSE, action |-> "other", confidence |-> 0, whole |-> FALSE]
NoSignal == [action |-> "HOLD", confidence |-> 0, reason |-> "none", score |-> 0]
Idle == [pc |-> "idle", market |-> NoMarket, text |-> NoText, spent |-> 0,
         repairs |-> 0, signal |-> NoSignal, previous |-> 0, alert |-> "none"]

\* _LLM_TIMEOUT_REASONS.
TimeoutReasons == {"llm_timeout", "llm_service_unreachable", "provider_error"}

Init ==
    /\ cycles = [s \in Symbols |-> Idle]
    /\ streak = 0
    /\ failures = 0 /\ unheard = 0
    /\ paging = {} /\ pages = 0 /\ missed = 0

At(s, pcs) == cycles[s].pc \in pcs

\* Next state of the cycle of s, the counters untouched.
Becomes(s, cycle) ==
    /\ cycles' = [cycles EXCEPT ![s] = cycle]
    /\ UNCHANGED counters

Replies(s, signal) ==
    Becomes(s, [cycles[s] EXCEPT !.pc = "signal", !.signal = signal, !.spent = 0, !.repairs = 0])

\* --- AnalysisPipeline.run ------------------------------------------------
StartCycle(s) ==
    /\ At(s, {"idle"})
    /\ \E m \in Markets[s] : Becomes(s, [Idle EXCEPT !.pc = "built", !.market = m])

\* SignalGenerator.build_hold and build_signal: either carries the score.
BuildHold(s, reason) ==
    [action |-> "HOLD", confidence |-> 0, reason |-> reason,
     score |-> TradeScore(cycles[s].market)]
BuildSignal(s, output) ==
    [action |-> output.action, confidence |-> output.confidence, reason |-> "model",
     score |-> TradeScore(cycles[s].market)]

ShouldSkipLlm(m) == Prefilter /\ ~LlmCanChangeOutcome(m)

SkipLlm(s) ==
    /\ At(s, {"built"})
    /\ ShouldSkipLlm(cycles[s].market)
    /\ Replies(s, BuildHold(s, "prefilter"))

CallLlm(s) ==
    /\ At(s, {"built"})
    /\ ~ShouldSkipLlm(cycles[s].market)
    /\ Becomes(s, [cycles[s] EXCEPT !.pc = "call"])

\* --- LLMClient.generate --------------------------------------------------
ProviderAnswers(s) ==
    /\ At(s, {"call", "retry"})
    /\ cycles[s].spent < Budget
    /\ \E text \in Texts : Becomes(s, [cycles[s] EXCEPT !.pc = "text", !.text = text,
                                                              !.spent = 0])

\* The reason a text is refused for; the checks run in this order.
Refusals(text) ==
    {r \in {[order |-> 1, reason |-> "malformed_json",     fails |-> ~text.json],
            [order |-> 2, reason |-> "invalid_action",     fails |-> text.action = "other"],
            [order |-> 3, reason |-> "invalid_confidence", fails |-> text.confidence \notin 0 .. 1000],
            [order |-> 4, reason |-> "schema_invalid",     fails |-> ~text.whole]} : r.fails}
Valid(text) == Refusals(text) = {}
Refusal(text) ==
    (CHOOSE r \in Refusals(text) : \A q \in Refusals(text) : r.order <= q.order).reason

\* Mutant: when the repair call fails, the answer it was to repair is used.
Fails_UsesBadText(s, reason) ==
    IF cycles[s].repairs = 0
    THEN Replies(s, BuildHold(s, reason))
    ELSE Replies(s, BuildSignal(s, cycles[s].text))

\* The call ends without a text.  A repair call that does leaves the reason of
\* the text it was to repair.
Fails(s, reason) ==
    Replies(s, BuildHold(s, IF cycles[s].repairs = 0 THEN reason ELSE Refusal(cycles[s].text)))

\* One retry after a pause, if at least half of the budget is left.
ProviderRaises(s) ==
    \/ /\ At(s, {"call"})
       /\ \E at \in 0 .. Budget - 1 :
            IF 2 * (Budget - at) < Budget
            THEN Fails(s, "provider_error")
            ELSE Becomes(s, [cycles[s] EXCEPT !.pc = "retry", !.spent = at + 1])
    \/ /\ At(s, {"retry"})
       /\ cycles[s].spent < Budget
       /\ Fails(s, "provider_error")

CallTimesOut(s) ==
    /\ At(s, {"call", "retry"})
    /\ Fails(s, "llm_timeout")

\* --- ResponseValidator.validate ------------------------------------------
ValidateText(s) ==
    /\ At(s, {"text"})
    /\ LET text == cycles[s].text
           reply == Normalised(cycles[s].market, text)
       IN  \/ /\ Valid(text)
              /\ Replies(s, BuildSignal(s, reply))
           \/ /\ ~Valid(text)
              /\ cycles[s].repairs < MaxRepairs
              /\ Becomes(s, [cycles[s] EXCEPT !.pc = "call", !.repairs = @ + 1])
           \/ /\ ~Valid(text)
              /\ cycles[s].repairs = MaxRepairs
              /\ Replies(s, BuildHold(s, Refusal(text)))

\* --- _post_analyze: the service is down, too slow, or replies nonsense ---
ServiceUnreachable(s) ==
    /\ At(s, {"built", "call", "retry", "text"})
    /\ Replies(s, [NoSignal EXCEPT !.reason = "llm_service_unreachable"])

\* --- _track_llm_analyze_health -------------------------------------------
Tracks(s) == At(s, {"signal"}) /\ cycles[s].signal.reason # "prefilter"
TimedOut(s) == cycles[s].signal.reason \in TimeoutReasons

\* The signal's row is in the transaction by now; the alert joins it.
Tracked(s, alert) ==
    cycles' = [cycles EXCEPT ![s] = [Idle EXCEPT !.pc = "tracked", !.alert = alert]]

SkipTracking(s) ==
    /\ At(s, {"signal"})
    /\ cycles[s].signal.reason = "prefilter"
    /\ Tracked(s, "none")
    /\ UNCHANGED counters

\* INCR took effect; the count goes on from what the others left.
Counted(s) ==
    /\ Tracks(s) /\ TimedOut(s)
    /\ streak < MaxFailures
    /\ streak' = streak + 1

\* Its reply is lost.  The client sends it once more, or raises: RedisFails.
LoseIncrReply(s) ==
    /\ Counted(s)
    /\ unheard' = unheard + 1
    /\ UNCHANGED <<cycles, failures, paging, pages, missed>>

\* Mutant: every failed call from the threshold on pages.
CountFailure_AlwaysPages(s) ==
    /\ Counted(s)
    /\ failures' = failures + 1
    /\ IF streak' >= Threshold
       THEN Tracked(s, "STREAK") /\ paging' = paging \cup {s}
       ELSE Tracked(s, "none") /\ UNCHANGED paging
    /\ UNCHANGED <<unheard, pages, missed>>

\* Its reply arrives; an error of EXPIRE afterwards leaves the count, not the
\* alert.
CountFailure(s) ==
    /\ Counted(s)
    /\ failures' = failures + 1
    /\ UNCHANGED <<unheard, pages>>
    /\ \/ /\ streak' = Threshold
          /\ paging' = paging \cup {s}
          /\ UNCHANGED missed
          /\ Tracked(s, "STREAK")
       \/ /\ streak' = Threshold
          /\ missed' = missed + 1
          /\ UNCHANGED paging
          /\ Tracked(s, "none")
       \/ /\ streak' # Threshold
          /\ UNCHANGED <<paging, missed>>
          /\ Tracked(s, "none")

ReadStreak(s) ==
    /\ Tracks(s) /\ ~TimedOut(s)
    /\ Becomes(s, [cycles[s] EXCEPT !.pc = IF streak = 0 THEN "tracked" ELSE "read",
                                    !.previous = streak])

KeyGone ==
    /\ streak' = 0
    /\ failures' = 0 /\ unheard' = 0
    /\ paging' = {} /\ pages' = 0 /\ missed' = 0

\* DELETE, whatever was counted since the GET; it may take effect and fail.
ResetStreak(s) ==
    /\ At(s, {"read"})
    /\ KeyGone
    /\ \/ cycles[s].previous >= Threshold /\ Tracked(s, "RECOVERED")
       \/ Tracked(s, "none")

RedisFails(s) ==
    /\ Tracks(s) \/ At(s, {"read"})
    /\ Tracked(s, "none")
    /\ UNCHANGED counters

StreakExpires ==
    /\ streak > 0
    /\ KeyGone
    /\ UNCHANGED cycles

\* The cycle is over; a page of this outage that it carried is `written` or not.
Over(s, written) ==
    /\ cycles' = [cycles EXCEPT ![s] = Idle]
    /\ paging' = paging \ {s}
    /\ LET carried == IF s \in paging THEN 1 ELSE 0 IN
       IF written THEN pages' = pages + carried /\ UNCHANGED missed
                  ELSE missed' = missed + carried /\ UNCHANGED pages
    /\ UNCHANGED <<streak, failures, unheard>>

EndCycle(s) ==
    /\ At(s, {"tracked"})
    /\ Over(s, TRUE)

\* An exception, a failed commit or a restart ends the transaction.
AbortCycle(s) ==
    /\ ~At(s, {"idle"})
    /\ Over(s, FALSE)

Next ==
    \/ \E s \in Symbols :
          \/ StartCycle(s) \/ SkipLlm(s) \/ CallLlm(s)
          \/ ProviderAnswers(s) \/ ProviderRaises(s) \/ CallTimesOut(s)
          \/ ValidateText(s) \/ ServiceUnreachable(s)
          \/ SkipTracking(s) \/ LoseIncrReply(s) \/ CountFailure(s)
          \/ ReadStreak(s) \/ ResetStreak(s) \/ RedisFails(s)
          \/ EndCycle(s) \/ AbortCycle(s)
    \/ StreakExpires

Spec == Init /\ [][Next]_vars

-----------------------------------------------------------------------------
(* Properties. *)

Signal == [action : Actions, confidence : 0 .. 1000, score : 0 .. 100,
           reason : TimeoutReasons \cup {"none", "model", "prefilter", "malformed_json",
                                         "invalid_action", "invalid_confidence", "schema_invalid"}]

\* Type correctness.  Every signal has a confidence from 0 to 1 and a trade
\* score from 0 to 100, whatever the market was (TradeScorer, TradingSignal).
TypeOK ==
    /\ \A s \in Symbols :
        LET c == cycles[s]
        IN  /\ c.pc \in {"idle", "built", "call", "retry", "text", "signal", "read", "tracked"}
            /\ c.pc \notin {"idle", "tracked"} => c.market \in Markets[s]
            /\ c.pc = "text" => c.text \in Texts
            /\ c.spent \in 0 .. Budget /\ c.repairs \in 0 .. MaxRepairs
            /\ c.signal \in Signal
            /\ c.previous \in 0 .. MaxFailures
            /\ c.alert \in {"none", "STREAK", "RECOVERED"}
    /\ {streak, failures, unheard} \subseteq 0 .. MaxFailures
    /\ paging \subseteq Symbols
    /\ {pages, missed} \subseteq {0, 1}

Answered(s) == At(s, {"signal", "read"})

\* The pre-filter saves calls and changes no decision: where it answers HOLD,
\* every valid answer would have become HOLD, and where it lets the call pass,
\* some answer trades (prefilter.py: "cost control only, never a different
\* decision").
SkipChangesNothing ==
    \A s \in Symbols :
        LET Trading == {text \in Texts : Valid(text)
                            /\ Normalised(cycles[s].market, text).action # "HOLD"}
        IN  /\ Answered(s) /\ cycles[s].signal.reason = "prefilter" => Trading = {}
            /\ Prefilter /\ At(s, {"call", "retry"}) => Trading # {}

\* What the rubric asks for, read off the market itself.
Rises(m) == (m.price > m.ema50 /\ m.price > m.ema200) \/ m.ema50 > m.ema200
Extended(m) ==
    m.ema200 > 0 /\ 1000 * (m.ema50 - m.ema200) >= 15 * m.ema200 /\ m.price > m.ema50
BearishKinds(m) ==
    Points((m.price < m.ema50 /\ m.price < m.ema200) \/ m.ema50 < m.ema200, 1)
      + Points(m.hist < 0 \/ m.rsi < 45, 1)
      + Points(m.swing = "down" \/ (m.move = -1 /\ m.busy), 1)

\* The service fails closed: a trade needs a valid answer of the model, given
\* within the budget of its call and not only awaited by a failed repair; it
\* enters only what is not held, rises and is not extended, and leaves only
\* what is held, on the model's word with bearish evidence of two kinds and a
\* result beyond the cushion, or on the hard loss cut alone (PROJECT.md 14
\* rule 3, semantic.py).
TradesAreEarned ==
    \A s \in Symbols : Answered(s) /\ cycles[s].signal.action # "HOLD" =>
        LET m == cycles[s].market
            text == cycles[s].text
        IN  /\ Valid(text)
            /\ cycles[s].signal.action = "BUY" =>
                  /\ text.action = "BUY"
                  /\ ~m.open
                  /\ Rises(m) /\ ~Extended(m)
            /\ cycles[s].signal.action = "SELL" =>
                  /\ m.open /\ m.known
                  /\ \/ m.pnl <= -HardLossCut
                     \/ /\ text.action = "SELL"
                        /\ BearishKinds(m) >= 2
                        /\ m.pnl \notin -MinExitLoss .. MinExitProfit

\* An outage pages at most once, however the cycles' commands interleave with
\* those of others, with replies that are lost and with transactions that fail:
\* the alerts committed, those still in an open transaction and those lost are
\* no more than one together.  It never pages before that many INCRs took
\* effect; and as long as no reply was lost, the failed call that reaches the
\* threshold has paged, unless an error of EXPIRE or the end of its transaction
\* took this very alert (_track_llm_analyze_health: "once, the cycle the streak
\* first reaches `threshold`"; a Redis error is swallowed).
Raised == pages + Cardinality(paging) + missed
OnePagePerOutage ==
    /\ Raised <= 1
    /\ Raised = 1 => failures + unheard >= Threshold
    /\ unheard = 0 /\ failures >= Threshold => Raised = 1

=============================================================================
