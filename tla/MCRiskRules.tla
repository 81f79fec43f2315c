----------------------------- MODULE MCRiskRules -----------------------------
(* RiskRules on a small instance. *)
EXTENDS RiskRules, TLC

CONSTANTS btc, eth

\* A sound signal, and signals with one defect or with another size.
Sound(pair) == [pair |-> pair, action |-> "BUY", confidence |-> 1000, stop |-> 10,
                stale |-> FALSE, duplicate |-> FALSE]

MCSignals ==
    UNION {{Sound(p),
            [Sound(p) EXCEPT !.stop = 90, !.confidence = 700],
            [Sound(p) EXCEPT !.confidence = 650],
            [Sound(p) EXCEPT !.stale = TRUE],
            [Sound(p) EXCEPT !.duplicate = TRUE],
            [Sound(p) EXCEPT !.action = "HOLD"],
            [Sound(p) EXCEPT !.action = "SELL"]} : p \in Pairs}

MCOutcomes == {[result |-> -4, known |-> TRUE], [result |-> -4, known |-> FALSE],
               [result |-> 2, known |-> TRUE]}
MCDrifts == {0, 5}

Symmetry == Permutations(Pairs)
=============================================================================
