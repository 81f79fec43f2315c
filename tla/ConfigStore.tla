----------------------------- MODULE ConfigStore -----------------------------
(***************************************************************************)
(* PATCH /config and PATCH /config/llm: a row of Postgres with a partial   *)
(* JSON of overrides over the defaults of the environment, changed by      *)
(* read, merge and write of the whole JSON in overlapping transactions     *)
(* that lock the row only when they write it.  Changing dry_run asks for a *)
(* confirmation.  The store of the LLM settings is the same without        *)
(* DryRun among its fields.                                                *)
(***************************************************************************)
EXTENDS Naturals, Sequences, Functions

CONSTANTS
    Fields,      \* the settings that may be overridden
    DryRun,      \* the one whose change has to be confirmed
    Values,      \* the values a patch may ask for
    Defaults,    \* the environment's value of each field
    Patchers,    \* PATCH requests that may be under way at the same time
    MaxPatches   \* bound: requests

ASSUME ConfigAssumption ==
    /\ Defaults \in [Fields -> Values]
    /\ MaxPatches \in Nat

VARIABLES
    stored,     \* the row's overrides, committed: a function on some of the fields
    exists,     \* whether the row has been inserted
    changed,    \* committed CONFIG_CHANGED events, with the confirmation of the request
    writer,     \* the transaction that has written the row and not ended, or {}
    patch,      \* each request's transaction
    patched     \* requests made

configVars == <<stored, exists, changed, writer, patch, patched>>

Partial == UNION {[D -> Values] : D \in SUBSET Fields}
Nothing == [f \in {} |-> 0]
NoPatch == [pc |-> "none", changes |-> Nothing, confirmed |-> FALSE, merged |-> Nothing,
            new |-> FALSE, writes |-> FALSE]

\* load_effective_risk_config: the overrides over the environment.
Merge(overrides, changes) ==
    [f \in DOMAIN overrides \cup DOMAIN changes |->
        IF f \in DOMAIN changes THEN changes[f] ELSE overrides[f]]
Effective(overrides) == Merge(Defaults, overrides)

ConfigInit ==
    /\ stored = Nothing
    /\ exists = FALSE
    /\ changed = <<>>
    /\ writer = {}
    /\ patch = [p \in Patchers |-> NoPatch]
    /\ patched = 0

In(p, pc) == patch[p].pc = pc
Stop(p) ==
    /\ patch' = [patch EXCEPT ![p] = NoPatch]
    /\ writer' = writer \ {p}

\* A request without changes is refused at once and is not modelled further.
Patch(p, changes, confirmed) ==
    /\ In(p, "none")
    /\ patched < MaxPatches
    /\ DOMAIN changes # {}
    /\ patch' = [patch EXCEPT ![p] = [NoPatch EXCEPT !.pc = "asked", !.changes = changes,
                                                     !.confirmed = confirmed]]
    /\ patched' = patched + 1
    /\ UNCHANGED <<stored, exists, changed, writer>>

\* Mutant: setting dry_run for the first time needs no confirmation.
NeedsConfirmation_OnceSet(changes) ==
    DryRun \in DOMAIN changes /\ DryRun \in DOMAIN stored /\ changes[DryRun] # stored[DryRun]

NeedsConfirmation(changes) ==
    DryRun \in DOMAIN changes /\ changes[DryRun] # Effective(stored)[DryRun]

\* The first read of the row: 400 for a change of dry_run nobody confirmed.
CheckConfirmed(p) ==
    /\ In(p, "asked")
    /\ IF NeedsConfirmation(patch[p].changes) /\ ~patch[p].confirmed
       THEN Stop(p)
       ELSE patch' = [patch EXCEPT ![p].pc = "checked"] /\ UNCHANGED writer
    /\ UNCHANGED <<stored, exists, changed, patched>>

\* The second read, and the merge.  A JSON equal to the one read is not written.
MergeChanges(p) ==
    /\ In(p, "checked")
    /\ LET merged == Merge(stored, patch[p].changes)
       IN  patch' = [patch EXCEPT ![p] = [@ EXCEPT !.pc = "merged", !.merged = merged, !.new = ~exists,
                                                   !.writes = ~exists \/ merged # stored]]
    /\ UNCHANGED <<stored, exists, changed, writer, patched>>

\* The flush: INSERT or UPDATE waits for another writer of the row, and an
\* INSERT that lost the race fails (IntegrityError, 500).
FlushChanges(p) ==
    /\ In(p, "merged")
    /\ patch[p].writes => writer = {}
    /\ IF patch[p].new /\ exists
       THEN Stop(p)
       ELSE /\ patch' = [patch EXCEPT ![p].pc = "flushed"]
            /\ writer' = IF patch[p].writes THEN {p} ELSE writer
    /\ UNCHANGED <<stored, exists, changed, patched>>

Event(p) == [changes |-> patch[p].changes, confirmed |-> patch[p].confirmed]

CommitChanges(p) ==
    /\ In(p, "flushed")
    /\ stored' = IF patch[p].writes THEN patch[p].merged ELSE stored
    /\ exists' = TRUE
    /\ changed' = Append(changed, Event(p))
    /\ Stop(p)
    /\ UNCHANGED patched

AbortChanges(p) ==
    /\ ~In(p, "none")
    /\ Stop(p)
    /\ UNCHANGED <<stored, exists, changed, patched>>

ConfigNext ==
    \/ \E p \in Patchers, changes \in Partial, confirmed \in BOOLEAN : Patch(p, changes, confirmed)
    \/ \E p \in Patchers : \/ CheckConfirmed(p) \/ MergeChanges(p) \/ FlushChanges(p)
                           \/ CommitChanges(p) \/ AbortChanges(p)

ConfigSpec == ConfigInit /\ [][ConfigNext]_configVars

-----------------------------------------------------------------------------
(* The row, the events and the transactions have their types.              *)
ConfigTypeOK ==
    /\ stored \in Partial /\ exists \in BOOLEAN
    /\ changed \in Seq([changes : Partial, confirmed : BOOLEAN])
    /\ writer \subseteq Patchers
    /\ patch \in [Patchers -> [pc : {"none", "asked", "checked", "merged", "flushed"},
                              changes : Partial, confirmed : BOOLEAN, merged : Partial,
                              new : BOOLEAN, writes : BOOLEAN]]
    /\ \A p \in Patchers : patch[p].writes /\ In(p, "flushed") => writer = {p}
    /\ patched \in 0..MaxPatches

(* Whatever patches overlap and overwrite each other, each override in     *)
(* force was asked for by an audited patch, and dry_run is what the        *)
(* environment says or what a confirmed patch asked for (PROJECT.md 14     *)
(* rules 7 and 13).                                                        *)
OverridesAreAsked ==
    /\ \A f \in DOMAIN stored :
          \E i \in DOMAIN changed : f \in DOMAIN changed[i].changes
                                    /\ changed[i].changes[f] = stored[f]
    /\ DryRun \in DOMAIN stored /\ stored[DryRun] # Defaults[DryRun] =>
          \E i \in DOMAIN changed :
             /\ changed[i].confirmed /\ DryRun \in DOMAIN changed[i].changes
             /\ changed[i].changes[DryRun] = stored[DryRun]

=============================================================================
