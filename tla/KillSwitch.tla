----------------------------- MODULE KillSwitch -----------------------------
(***************************************************************************)
(* The kill switch: one row of Postgres (`system_state`), a mirror in      *)
(* Redis, an audit event per command.  Operators (the admin API, or        *)
(* Telegram through it) and the risk engine's automatic trip all run       *)
(* enable / disable of common/kill_switch.py in transactions of their own: *)
(* read the row, flush the UPDATE, flush the audit event, SET the mirror,  *)
(* and only then commit.                                                   *)
(*                                                                         *)
(* The session writes the columns whose value differs from what it read,   *)
(* so a command that read the value it wants does not write the switch.    *)
(***************************************************************************)
EXTENDS Naturals, Sequences

CONSTANTS
    Operators,     \* requests that may be under way at the same time
    System,        \* the automatic trip, inside the engine's transaction
    MaxCommands,   \* bound: commands issued
    MaxEntries,    \* bound: entries submitted
    Crashes        \* whether a transaction may end without its commit

ASSUME ConstantsAssumption ==
    /\ System \notin Operators
    /\ MaxCommands \in Nat
    /\ MaxEntries \in Nat
    /\ Crashes \in BOOLEAN

VARIABLES
    row,       \* system_state.killswitch_enabled, committed
    mirror,    \* killswitch:global
    audit,     \* committed KILLSWITCH_ENABLED (TRUE) and KILLSWITCH_DISABLED (FALSE) events
    lockedBy,  \* the transaction that holds the row lock, or Nobody
    tx,        \* each command's transaction
    engine,    \* the evaluation of an entry signal
    issued,    \* commands issued
    entries,   \* entries submitted to Freqtrade
    slipped    \* history: entries submitted since the row was last switched on

vars == <<row, mirror, audit, lockedBy, tx, engine, issued, entries, slipped>>

Commands == Operators \cup {System}
Nobody == "nobody"
Done == [pc |-> "done", want |-> FALSE, writes |-> FALSE]

Init ==
    /\ row = FALSE
    /\ mirror = FALSE
    /\ audit = <<>>
    /\ lockedBy = Nobody
    /\ tx = [c \in Commands |-> Done]
    /\ engine = "idle"
    /\ issued = 0
    /\ entries = 0
    /\ slipped = 0

At(c, pc) == tx[c].pc = pc
Go(c, pc) == tx' = [tx EXCEPT ![c].pc = pc]

Start(c, want) ==
    /\ At(c, "done")
    /\ issued < MaxCommands
    /\ issued' = issued + 1
    /\ tx' = [tx EXCEPT ![c] = [pc |-> "start", want |-> want, writes |-> FALSE]]

Request(c, want) ==
    /\ Start(c, want)
    /\ UNCHANGED <<row, mirror, audit, lockedBy, engine, entries, slipped>>

\* session.get: the committed value, without a lock.
Read(c) ==
    /\ At(c, "start")
    /\ tx' = [tx EXCEPT ![c] = [@ EXCEPT !.pc = "read", !.writes = (row # tx[c].want)]]
    /\ UNCHANGED <<row, mirror, audit, lockedBy, engine, issued, entries, slipped>>

\* The UPDATE waits for the row lock.  An enable that changes nothing, not
\* even the reason, sends no UPDATE and takes no lock.
Flush(c) ==
    /\ At(c, "read")
    /\ \/ lockedBy = Nobody /\ lockedBy' = c
       \/ ~tx[c].writes /\ tx[c].want /\ UNCHANGED lockedBy
    /\ Go(c, "flushed")
    /\ UNCHANGED <<row, mirror, audit, engine, issued, entries, slipped>>

SetMirror(c) ==
    /\ At(c, "flushed")
    /\ mirror' = tx[c].want
    /\ Go(c, "mirrored")
    /\ UNCHANGED <<row, audit, lockedBy, engine, issued, entries, slipped>>

\* Mutants: the row lock outlives its transaction; the session is not reset.
Released_Never(c) == lockedBy

Released(c) == IF lockedBy = c THEN Nobody ELSE lockedBy
Ended_NotReset(c) ==
    /\ Go(c, "ended")
    /\ lockedBy' = Released(c)
    /\ engine' = IF c = System THEN "idle" ELSE engine

Ended(c) ==
    /\ Go(c, "done")
    /\ lockedBy' = Released(c)
    /\ engine' = IF c = System THEN "idle" ELSE engine

\* Mutant: no audit event when the switch goes off.
Commit_OnlyEnableAudited(c) ==
    /\ At(c, "mirrored")
    /\ row' = IF tx[c].writes THEN tx[c].want ELSE row
    /\ slipped' = IF row' # row THEN 0 ELSE slipped
    /\ audit' = IF tx[c].want THEN Append(audit, TRUE) ELSE audit
    /\ Ended(c)
    /\ UNCHANGED <<mirror, issued, entries>>

Commit(c) ==
    /\ At(c, "mirrored")
    /\ row' = IF tx[c].writes THEN tx[c].want ELSE row
    /\ slipped' = IF row' # row THEN 0 ELSE slipped
    /\ audit' = Append(audit, tx[c].want)
    /\ Ended(c)
    /\ UNCHANGED <<mirror, issued, entries>>

Rollback(c) ==
    /\ Crashes
    /\ ~At(c, "done")
    /\ Ended(c)
    /\ UNCHANGED <<row, mirror, audit, issued, entries, slipped>>

\* Mutant: rule 1 is left out.
EngineReads_NoRule1 ==
    /\ engine = "idle"
    /\ engine' = "checked"
    /\ UNCHANGED <<row, mirror, audit, lockedBy, tx, issued, entries, slipped>>

(***************************************************************************)
(* The engine evaluates one entry signal at a time.  Rule 1 reads the row; *)
(* the rules that trip the switch come later, and a trip rejects.          *)
(***************************************************************************)
EngineReads ==
    /\ engine = "idle"
    /\ ~row
    /\ engine' = "checked"
    /\ UNCHANGED <<row, mirror, audit, lockedBy, tx, issued, entries, slipped>>

EngineRejects ==
    /\ engine = "checked"
    /\ engine' = "idle"
    /\ UNCHANGED <<row, mirror, audit, lockedBy, tx, issued, entries, slipped>>

EngineTrips ==
    /\ engine = "checked"
    /\ Start(System, TRUE)
    /\ engine' = "tripping"
    /\ UNCHANGED <<row, mirror, audit, lockedBy, entries, slipped>>

EngineSubmits ==
    /\ engine = "checked"
    /\ entries < MaxEntries
    /\ entries' = entries + 1
    /\ slipped' = slipped + 1
    /\ engine' = "idle"
    /\ UNCHANGED <<row, mirror, audit, lockedBy, tx, issued>>

-----------------------------------------------------------------------------
Step(c) == Read(c) \/ Flush(c) \/ SetMirror(c) \/ Commit(c)
Next ==
    \/ \E c \in Operators, want \in BOOLEAN : Request(c, want)
    \/ \E c \in Commands : Step(c) \/ Rollback(c)
    \/ EngineReads \/ EngineRejects \/ EngineTrips \/ EngineSubmits

Spec == Init /\ [][Next]_vars

\* Every statement of a transaction returns.
FairSpec == Spec /\ \A c \in Commands : SF_vars(Step(c))

-----------------------------------------------------------------------------
(* The switch, its mirror and the transactions have their types.           *)
TypeOK ==
    /\ row \in BOOLEAN /\ mirror \in BOOLEAN
    /\ audit \in Seq(BOOLEAN)
    /\ lockedBy \in Commands \cup {Nobody}
    /\ tx \in [Commands -> [pc : {"done", "start", "read", "flushed", "mirrored"},
                            want : BOOLEAN, writes : BOOLEAN]]
    /\ engine \in {"idle", "checked", "tripping"}
    /\ issued \in 0..MaxCommands /\ entries \in 0..MaxEntries /\ slipped \in 0..MaxEntries

(* Once the row is on, at most one more entry reaches Freqtrade: the one   *)
(* whose evaluation had read the row before.                               *)
OneEntrySlips == row => slipped <= 1

(* The switch never moves without its audit event, written in the same     *)
(* commit and saying what it moved to (PROJECT.md 14 rule 7).              *)
MovesAreAudited ==
    [][row' # row => Len(audit') = Len(audit) + 1 /\ audit'[Len(audit')] = row']_vars

LastCommand == audit # <<>> /\ audit[Len(audit)]

(* Every command comes to its end: nobody waits for the row lock for good. *)
CommandsEnd == \A c \in Commands : ~At(c, "done") ~> At(c, "done")

(* What the documents claim and the code does not keep.                    *)

(* PROJECT.md 13: the switch blocks entries until explicitly disabled.     *)
LastCommandWins == LastCommand => row

=============================================================================
