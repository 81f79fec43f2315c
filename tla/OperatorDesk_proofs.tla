------------------------- MODULE OperatorDesk_proofs -------------------------
(***************************************************************************)
(* Proofs about the operators' controls: the config rows, the kill switch, *)
(* the Telegram bot as one more client of the switch, and the desk that    *)
(* holds all three, for any settings and values, and any number of         *)
(* operators, overlapping requests, updates and deaths of the bot.         *)
(***************************************************************************)
EXTENDS MCOperatorDesk, FiniteSetTheorems, TLAPS

-----------------------------------------------------------------------------
(* CONFIG ROWS. *)

USE ConfigAssumption

-----------------------------------------------------------------------------
(* What a merge is.                                                        *)

LEMMA MergePartial ==
  ASSUME NEW a \in Partial, NEW b \in Partial
  PROVE  /\ Merge(a, b) \in Partial
         /\ DOMAIN Merge(a, b) = DOMAIN a \cup DOMAIN b
         /\ \A f \in DOMAIN Merge(a, b) : Merge(a, b)[f] = IF f \in DOMAIN b THEN b[f] ELSE a[f]
<1>1. PICK A \in SUBSET Fields : a \in [A -> Values]
  BY DEF Partial
<1>2. PICK B \in SUBSET Fields : b \in [B -> Values]
  BY DEF Partial
<1>3. Merge(a, b) \in [A \cup B -> Values]
  BY <1>1, <1>2 DEF Merge
<1>4. Merge(a, b) \in Partial
  BY <1>3 DEF Partial
<1>5. QED
  BY <1>4 DEF Merge

LEMMA NothingPartial == Nothing \in Partial /\ DOMAIN Nothing = {}
<1>1. Nothing \in [{} -> Values]
  BY DEF Nothing
<1>2. QED
  BY <1>1 DEF Partial, Nothing

-----------------------------------------------------------------------------
(* The invariant.  A stale read is harmless for what the properties say    *)
(* because events are never taken back: what was asked for, or confirmed,  *)
(* when a request read the row still is when it writes.                    *)

\* Some committed patch set field f to v.
Asked(events, f, v) ==
    \E i \in DOMAIN events : f \in DOMAIN events[i].changes /\ events[i].changes[f] = v

\* dry_run = v is the environment's, or was confirmed.
Sanctioned(events, v) ==
    \/ v = Defaults[DryRun]
    \/ \E i \in DOMAIN events : /\ events[i].confirmed /\ DryRun \in DOMAIN events[i].changes
                                /\ events[i].changes[DryRun] = v

\* The request itself asks for f = v.
AsksFor(p, f, v) == f \in DOMAIN patch[p].changes /\ patch[p].changes[f] = v

StoredIsAsked ==
    /\ \A f \in DOMAIN stored : Asked(changed, f, stored[f])
    /\ DryRun \in DOMAIN stored => Sanctioned(changed, stored[DryRun])

\* A request that passed the check.
CheckedIsSanctioned ==
    \A p \in Patchers :
        patch[p].pc \in {"checked", "merged", "flushed"} /\ DryRun \in DOMAIN patch[p].changes =>
            patch[p].confirmed \/ Sanctioned(changed, patch[p].changes[DryRun])

\* What a request is about to write.
MergedIsAsked ==
    \A p \in Patchers : patch[p].pc \in {"merged", "flushed"} =>
        /\ \A f \in DOMAIN patch[p].merged :
              Asked(changed, f, patch[p].merged[f]) \/ AsksFor(p, f, patch[p].merged[f])
        /\ DryRun \in DOMAIN patch[p].merged =>
              \/ Sanctioned(changed, patch[p].merged[DryRun])
              \/ patch[p].confirmed /\ AsksFor(p, DryRun, patch[p].merged[DryRun])

\* Whoever waits for the row lock has flushed nothing.
WriterFlushed == \A p \in writer : patch[p].pc = "flushed"

ConfigInv ==
    /\ ConfigTypeOK
    /\ WriterFlushed
    /\ StoredIsAsked
    /\ CheckedIsSanctioned
    /\ MergedIsAsked

Patching == [pc : {"none", "asked", "checked", "merged", "flushed"}, changes : Partial,
             confirmed : BOOLEAN, merged : Partial, new : BOOLEAN, writes : BOOLEAN]
CONFIG == [changes : Partial, confirmed : BOOLEAN]

LEMMA NoPatchType == NoPatch \in Patching /\ NoPatch.pc = "none" /\ NoPatch.writes = FALSE
BY NothingPartial DEF NoPatch, Patching

LEMMA InitConfig == ConfigInit => ConfigInv
<1> SUFFICES ASSUME ConfigInit PROVE ConfigInv
  OBVIOUS
<1> USE NothingPartial, NoPatchType DEF ConfigInit
<1>1. /\ changed \in Seq(CONFIG) /\ DOMAIN changed = {}
      /\ patch \in [Patchers -> Patching]
      /\ \A p \in Patchers : patch[p].pc = "none" /\ patch[p].writes = FALSE
  OBVIOUS
<1>2. exists \in BOOLEAN
  BY Zenon
<1>3. ConfigTypeOK
  BY <1>1, <1>2 DEF ConfigTypeOK, In, Patching, CONFIG
<1>4. WriterFlushed /\ StoredIsAsked /\ CheckedIsSanctioned /\ MergedIsAsked
  BY <1>1 DEF WriterFlushed, StoredIsAsked, CheckedIsSanctioned, MergedIsAsked
<1>5. QED
  BY <1>3, <1>4 DEF ConfigInv

-----------------------------------------------------------------------------
(* One lemma for each action.  Most of them leave the row and the events   *)
(* alone, so only the request that moved has to be looked at.              *)

\* The request p moved to record r; the row and the events did not.
LEMMA RequestMoves ==
  ASSUME ConfigInv, NEW p \in Patchers, NEW r \in Patching,
         patch' = [patch EXCEPT ![p] = r],
         UNCHANGED <<stored, exists, changed>>,
         patched' \in 0..MaxPatches,
         writer' \in {writer, {p}, writer \ {p}},
         p \in writer' => r.pc = "flushed",
         r.writes /\ r.pc = "flushed" => writer' = {p},
         writer' = {p} => \A q \in Patchers : q # p => ~(patch[q].writes /\ patch[q].pc = "flushed"),
         r.pc \in {"checked", "merged", "flushed"} /\ DryRun \in DOMAIN r.changes =>
            r.confirmed \/ Sanctioned(changed, r.changes[DryRun]),
         r.pc \in {"merged", "flushed"} =>
            /\ \A f \in DOMAIN r.merged :
                  \/ Asked(changed, f, r.merged[f])
                  \/ f \in DOMAIN r.changes /\ r.changes[f] = r.merged[f]
            /\ DryRun \in DOMAIN r.merged =>
                  \/ Sanctioned(changed, r.merged[DryRun])
                  \/ /\ r.confirmed /\ DryRun \in DOMAIN r.changes
                     /\ r.changes[DryRun] = r.merged[DryRun]
  PROVE  ConfigInv'
<1>1. /\ patch'[p] = r
      /\ \A q \in Patchers : q # p => patch'[q] = patch[q]
      /\ patch' \in [Patchers -> Patching]
  BY DEF ConfigInv, ConfigTypeOK, Patching
<1>2. changed' = changed
  OBVIOUS
<1>3. ConfigTypeOK'
  <2>1. writer' \subseteq Patchers
    BY DEF ConfigInv, ConfigTypeOK
  <2>2. \A q \in Patchers : patch'[q].writes /\ patch'[q].pc = "flushed" => writer' = {q}
    <3> SUFFICES ASSUME NEW q \in Patchers, patch'[q].writes, patch'[q].pc = "flushed"
                 PROVE  writer' = {q}
      OBVIOUS
    <3>1. CASE q = p
      BY <1>1, <3>1
    <3>2. CASE q # p
      BY <1>1, <3>2 DEF ConfigInv, ConfigTypeOK, In
    <3>3. QED
      BY <3>1, <3>2
  <2>3. QED
    BY <1>1, <2>1, <2>2 DEF ConfigInv, ConfigTypeOK, In, Patching
<1>4. WriterFlushed'
  BY <1>1 DEF ConfigInv, WriterFlushed, ConfigTypeOK
<1>5. StoredIsAsked'
  BY <1>2 DEF ConfigInv, StoredIsAsked
<1>6. CheckedIsSanctioned'
  BY <1>1, <1>2 DEF ConfigInv, CheckedIsSanctioned
<1>7. MergedIsAsked'
  BY <1>1, <1>2 DEF ConfigInv, MergedIsAsked, AsksFor
<1>8. QED
  BY <1>3, <1>4, <1>5, <1>6, <1>7 DEF ConfigInv

LEMMA RequestType ==
  ASSUME ConfigInv, NEW p \in Patchers
  PROVE  /\ patch[p] \in Patching
         /\ patch[p].changes \in Partial /\ patch[p].merged \in Partial
         /\ stored \in Partial
BY DEF ConfigInv, ConfigTypeOK, Patching

LEMMA StepStop ==
  ASSUME ConfigInv, NEW p \in Patchers, Stop(p), UNCHANGED <<stored, exists, changed, patched>>
  PROVE  ConfigInv'
<1>1. patched' \in 0..MaxPatches
  BY DEF ConfigInv, ConfigTypeOK
<1>2. p \notin writer' /\ writer' = writer \ {p}
  BY DEF Stop
<1>3. writer' # {p}
  BY <1>2
<1>4. QED
  BY <1>1, <1>2, <1>3, NoPatchType, RequestMoves DEF Stop

LEMMA StepPatch ==
  ASSUME ConfigInv, NEW p \in Patchers, NEW changes \in Partial, NEW confirmed \in BOOLEAN,
         Patch(p, changes, confirmed)
  PROVE  ConfigInv'
<1> DEFINE r == [NoPatch EXCEPT !.pc = "asked", !.changes = changes, !.confirmed = confirmed]
<1>1. r \in Patching /\ r.pc = "asked"
  BY NoPatchType DEF Patching
<1>2. patched' \in 0..MaxPatches
  BY DEF Patch, ConfigInv, ConfigTypeOK
<1>3. p \notin writer
  BY DEF Patch, In, ConfigInv, WriterFlushed
<1>4. writer' # {p} /\ p \notin writer' /\ writer' = writer
  BY <1>3 DEF Patch
<1>5. patch' = [patch EXCEPT ![p] = r] /\ UNCHANGED <<stored, exists, changed>>
  BY DEF Patch
<1> HIDE DEF r
<1>6. QED
  BY <1>1, <1>2, <1>4, <1>5, RequestMoves

LEMMA StepCheckConfirmed ==
  ASSUME ConfigInv, NEW p \in Patchers, CheckConfirmed(p)
  PROVE  ConfigInv'
<1>1. CASE NeedsConfirmation(patch[p].changes) /\ ~patch[p].confirmed
  BY <1>1, StepStop DEF CheckConfirmed
<1>2. CASE ~(NeedsConfirmation(patch[p].changes) /\ ~patch[p].confirmed)
  <2> DEFINE r == [patch[p] EXCEPT !.pc = "checked"]
  <2>1. r \in Patching /\ r.pc = "checked" /\ r.changes = patch[p].changes
        /\ r.confirmed = patch[p].confirmed
    BY RequestType DEF Patching
  <2>2. p \notin writer
    BY DEF CheckConfirmed, In, ConfigInv, WriterFlushed
  <2>3. patched' \in 0..MaxPatches
    BY DEF CheckConfirmed, ConfigInv, ConfigTypeOK
  <2>4. patch' = [patch EXCEPT ![p] = r] /\ UNCHANGED <<stored, exists, changed, writer>>
    BY <1>2 DEF CheckConfirmed
  \* An unconfirmed dry_run is the one in force, which is sanctioned.
  <2>5. DryRun \in DOMAIN r.changes => r.confirmed \/ Sanctioned(changed, r.changes[DryRun])
    <3> SUFFICES ASSUME DryRun \in DOMAIN patch[p].changes, ~patch[p].confirmed
                 PROVE  Sanctioned(changed, patch[p].changes[DryRun])
      BY <2>1
    <3>1. patch[p].changes[DryRun] = Effective(stored)[DryRun]
      BY <1>2 DEF NeedsConfirmation
    <3>2. DryRun \in Fields
      BY RequestType DEF Partial
    <3>3. Effective(stored)[DryRun] = IF DryRun \in DOMAIN stored THEN stored[DryRun]
                                                                 ELSE Defaults[DryRun]
      BY <3>2 DEF Effective, Merge, ConfigAssumption
    <3>4. QED
      BY <3>1, <3>3 DEF ConfigInv, StoredIsAsked, Sanctioned
  <2> HIDE DEF r
  <2>6. QED
    BY <2>1, <2>2, <2>3, <2>4, <2>5, RequestMoves
<1>3. QED
  BY <1>1, <1>2

LEMMA StepMergeChanges ==
  ASSUME ConfigInv, NEW p \in Patchers, MergeChanges(p)
  PROVE  ConfigInv'
<1> DEFINE m == Merge(stored, patch[p].changes)
           r == [patch[p] EXCEPT !.pc = "merged", !.merged = m, !.new = ~exists,
                                 !.writes = ~exists \/ m # stored]
<1>1. /\ m \in Partial
      /\ DOMAIN m = DOMAIN stored \cup DOMAIN patch[p].changes
      /\ \A f \in DOMAIN m : m[f] = IF f \in DOMAIN patch[p].changes
                                    THEN patch[p].changes[f] ELSE stored[f]
  <2>1. PICK a \in Partial, b \in Partial : a = stored /\ b = patch[p].changes
    BY RequestType
  <2>2. /\ Merge(a, b) \in Partial /\ DOMAIN Merge(a, b) = DOMAIN a \cup DOMAIN b
        /\ \A f \in DOMAIN Merge(a, b) : Merge(a, b)[f] = IF f \in DOMAIN b THEN b[f] ELSE a[f]
    BY MergePartial
  <2>3. QED
    BY <2>1, <2>2
<1>2. patch' = [patch EXCEPT ![p] = r] /\ UNCHANGED <<stored, exists, changed, writer>>
  BY DEF MergeChanges
<1>3. patch[p].pc = "checked" /\ patched' = patched
  BY DEF MergeChanges, In
<1> HIDE DEF m
<1>4. r \in Patching /\ r.pc = "merged" /\ r.merged = m /\ r.changes = patch[p].changes
      /\ r.confirmed = patch[p].confirmed
  BY <1>1, RequestType DEF Patching
<1> HIDE DEF r
<1>5. p \notin writer
  BY <1>3 DEF ConfigInv, WriterFlushed
<1>6. DryRun \in DOMAIN r.changes => r.confirmed \/ Sanctioned(changed, r.changes[DryRun])
  BY <1>3, <1>4 DEF ConfigInv, CheckedIsSanctioned
<1>7. \A f \in DOMAIN r.merged :
         Asked(changed, f, r.merged[f]) \/ (f \in DOMAIN r.changes /\ r.changes[f] = r.merged[f])
  <2> SUFFICES ASSUME NEW f \in DOMAIN m, f \notin DOMAIN patch[p].changes
               PROVE  Asked(changed, f, m[f])
    BY <1>1, <1>4
  <2>1. f \in DOMAIN stored /\ m[f] = stored[f]
    BY <1>1
  <2>2. Asked(changed, f, stored[f])
    BY <2>1 DEF ConfigInv, StoredIsAsked
  <2>3. QED
    BY <2>1, <2>2
<1>8. DryRun \in DOMAIN r.merged =>
        \/ Sanctioned(changed, r.merged[DryRun])
        \/ r.confirmed /\ DryRun \in DOMAIN r.changes /\ r.changes[DryRun] = r.merged[DryRun]
  BY <1>1, <1>4, <1>6 DEF ConfigInv, StoredIsAsked
<1>9. patched' \in 0..MaxPatches /\ writer' = writer /\ writer' # {p}
  BY <1>2, <1>3, <1>5 DEF ConfigInv, ConfigTypeOK
<1>10. QED
  BY <1>2, <1>4, <1>5, <1>6, <1>7, <1>8, <1>9, RequestMoves

LEMMA StepFlushChanges ==
  ASSUME ConfigInv, NEW p \in Patchers, FlushChanges(p)
  PROVE  ConfigInv'
<1>1. CASE patch[p].new /\ exists
  BY <1>1, StepStop DEF FlushChanges
<1>2. CASE ~(patch[p].new /\ exists)
  <2> DEFINE r == [patch[p] EXCEPT !.pc = "flushed"]
  <2>1. r \in Patching /\ r.pc = "flushed" /\ r.changes = patch[p].changes
        /\ r.confirmed = patch[p].confirmed /\ r.merged = patch[p].merged
        /\ r.writes = patch[p].writes
    BY RequestType DEF Patching
  <2>2. patch[p].pc = "merged" /\ p \notin writer /\ patched' = patched
    BY DEF FlushChanges, In, ConfigInv, WriterFlushed
  <2>3. patch' = [patch EXCEPT ![p] = r] /\ UNCHANGED <<stored, exists, changed>>
    BY <1>2 DEF FlushChanges
  <2>4. writer' = (IF r.writes THEN {p} ELSE writer) /\ (r.writes => writer = {})
    BY <1>2, <2>1 DEF FlushChanges
  <2>5. r.writes => \A q \in Patchers : ~(patch[q].writes /\ patch[q].pc = "flushed")
    BY <2>4 DEF ConfigInv, ConfigTypeOK, In
  <2>6. writer' = {p} => r.writes
    BY <2>2, <2>4
  <2>7. DryRun \in DOMAIN r.changes => r.confirmed \/ Sanctioned(changed, r.changes[DryRun])
    BY <2>1, <2>2 DEF ConfigInv, CheckedIsSanctioned
  <2>8. /\ \A f \in DOMAIN r.merged :
              Asked(changed, f, r.merged[f]) \/ (f \in DOMAIN r.changes /\ r.changes[f] = r.merged[f])
        /\ DryRun \in DOMAIN r.merged =>
              \/ Sanctioned(changed, r.merged[DryRun])
              \/ r.confirmed /\ DryRun \in DOMAIN r.changes /\ r.changes[DryRun] = r.merged[DryRun]
    <3>1. /\ \A f \in DOMAIN patch[p].merged :
                Asked(changed, f, patch[p].merged[f]) \/ AsksFor(p, f, patch[p].merged[f])
          /\ DryRun \in DOMAIN patch[p].merged =>
                \/ Sanctioned(changed, patch[p].merged[DryRun])
                \/ patch[p].confirmed /\ AsksFor(p, DryRun, patch[p].merged[DryRun])
      BY <2>2 DEF ConfigInv, MergedIsAsked
    <3> HIDE DEF r
    <3>2. QED
      BY <2>1, <3>1 DEF AsksFor
  <2>9. patched' \in 0..MaxPatches
    BY <2>2 DEF ConfigInv, ConfigTypeOK
  <2> HIDE DEF r
  <2>10. QED
    BY <2>1, <2>2, <2>3, <2>4, <2>5, <2>6, <2>7, <2>8, <2>9, RequestMoves
<1>3. QED
  BY <1>1, <1>2

\* Events are never taken back.
LEMMA EventsStay ==
  ASSUME NEW e, changed \in Seq(CONFIG), changed' = Append(changed, e)
  PROVE  /\ \A f, v : Asked(changed, f, v) => Asked(changed', f, v)
         /\ \A v : Sanctioned(changed, v) => Sanctioned(changed', v)
         /\ \A f \in DOMAIN e.changes : Asked(changed', f, e.changes[f])
         /\ e.confirmed /\ DryRun \in DOMAIN e.changes => Sanctioned(changed', e.changes[DryRun])
<1>1. /\ DOMAIN changed' = 1..(Len(changed) + 1)
      /\ \A i \in DOMAIN changed : i \in DOMAIN changed' /\ changed'[i] = changed[i]
      /\ Len(changed) + 1 \in DOMAIN changed' /\ changed'[Len(changed) + 1] = e
  OBVIOUS
<1>2. QED
  BY <1>1 DEF Asked, Sanctioned

LEMMA StepCommitChanges ==
  ASSUME ConfigInv, NEW p \in Patchers, CommitChanges(p)
  PROVE  ConfigInv'
<1> DEFINE e == Event(p)
<1>1. /\ patch[p].pc = "flushed" /\ patch' = [patch EXCEPT ![p] = NoPatch]
      /\ writer' = writer \ {p} /\ changed' = Append(changed, e) /\ patched' = patched
      /\ exists' = TRUE
      /\ stored' = IF patch[p].writes THEN patch[p].merged ELSE stored
  BY DEF CommitChanges, Stop, In
<1>2. /\ changed \in Seq(CONFIG) /\ e \in CONFIG
      /\ e.changes = patch[p].changes /\ e.confirmed = patch[p].confirmed
  BY RequestType DEF ConfigInv, ConfigTypeOK, CONFIG, Event, Patching
<1> HIDE DEF e
<1>3. /\ \A f, v : Asked(changed, f, v) => Asked(changed', f, v)
      /\ \A v : Sanctioned(changed, v) => Sanctioned(changed', v)
      /\ \A f \in DOMAIN patch[p].changes : Asked(changed', f, patch[p].changes[f])
      /\ patch[p].confirmed /\ DryRun \in DOMAIN patch[p].changes =>
            Sanctioned(changed', patch[p].changes[DryRun])
  BY <1>1, <1>2, EventsStay
<1>4. /\ patch'[p] = NoPatch
      /\ \A q \in Patchers : q # p => patch'[q] = patch[q]
      /\ patch' \in [Patchers -> Patching]
  BY <1>1, NoPatchType DEF ConfigInv, ConfigTypeOK, Patching
<1>5. ConfigTypeOK'
  <2>1. changed' \in Seq(CONFIG) /\ stored' \in Partial
    BY <1>1, <1>2, RequestType
  <2>2. exists' \in BOOLEAN
    BY <1>1, Zenon
  <2>3. writer' \subseteq Patchers /\ patched' \in 0..MaxPatches
    BY <1>1 DEF ConfigInv, ConfigTypeOK
  <2>4. \A q \in Patchers : patch'[q].writes /\ patch'[q].pc = "flushed" => writer' = {q}
    <3> SUFFICES ASSUME NEW q \in Patchers, patch'[q].writes, patch'[q].pc = "flushed"
                 PROVE  writer' = {q}
      OBVIOUS
    <3>1. q # p
      BY <1>4, NoPatchType
    <3>2. writer = {q}
      BY <1>4, <3>1 DEF ConfigInv, ConfigTypeOK, In
    <3>3. QED
      BY <1>1, <3>1, <3>2
  <2>5. QED
    BY <1>4, <2>1, <2>2, <2>3, <2>4 DEF ConfigTypeOK, In, Patching, CONFIG
<1>6. WriterFlushed'
  BY <1>1, <1>4 DEF ConfigInv, WriterFlushed, ConfigTypeOK
<1>7. StoredIsAsked'
  <2>1. CASE patch[p].writes
    <3>1. stored' = patch[p].merged
      BY <1>1, <2>1
    <3>2. /\ \A f \in DOMAIN patch[p].merged :
                Asked(changed, f, patch[p].merged[f]) \/ AsksFor(p, f, patch[p].merged[f])
          /\ DryRun \in DOMAIN patch[p].merged =>
                \/ Sanctioned(changed, patch[p].merged[DryRun])
                \/ patch[p].confirmed /\ AsksFor(p, DryRun, patch[p].merged[DryRun])
      BY <1>1 DEF ConfigInv, MergedIsAsked
    <3>3. /\ \A f \in DOMAIN stored' : Asked(changed', f, stored'[f])
          /\ DryRun \in DOMAIN stored' => Sanctioned(changed', stored'[DryRun])
      BY <1>3, <3>1, <3>2 DEF AsksFor
    <3>4. QED
      BY <3>3 DEF StoredIsAsked
  <2>2. CASE ~patch[p].writes
    <3>1. stored' = stored
      BY <1>1, <2>2
    <3>2. /\ \A f \in DOMAIN stored : Asked(changed', f, stored[f])
          /\ DryRun \in DOMAIN stored => Sanctioned(changed', stored[DryRun])
      BY <1>3 DEF ConfigInv, StoredIsAsked
    <3>3. QED
      BY <3>1, <3>2 DEF StoredIsAsked
  <2>3. QED
    BY <2>1, <2>2
<1>8. CheckedIsSanctioned'
  <2> SUFFICES ASSUME NEW q \in Patchers, patch'[q].pc \in {"checked", "merged", "flushed"},
                      DryRun \in DOMAIN patch'[q].changes
               PROVE  patch'[q].confirmed \/ Sanctioned(changed', patch'[q].changes[DryRun])
    BY DEF CheckedIsSanctioned
  <2>1. patch'[q] = patch[q]
    BY <1>4, NoPatchType
  <2>2. QED
    BY <1>3, <2>1 DEF ConfigInv, CheckedIsSanctioned
<1>9. MergedIsAsked'
  <2> SUFFICES ASSUME NEW q \in Patchers, patch'[q].pc \in {"merged", "flushed"}
               PROVE  /\ \A f \in DOMAIN patch'[q].merged :
                            \/ Asked(changed', f, patch'[q].merged[f])
                            \/ (f \in DOMAIN patch'[q].changes /\ patch'[q].changes[f] = patch'[q].merged[f])
                      /\ DryRun \in DOMAIN patch'[q].merged =>
                            \/ Sanctioned(changed', patch'[q].merged[DryRun])
                            \/ /\ patch'[q].confirmed /\ DryRun \in DOMAIN patch'[q].changes
                               /\ patch'[q].changes[DryRun] = patch'[q].merged[DryRun]
    BY DEF MergedIsAsked, AsksFor
  <2>1. patch'[q] = patch[q]
    BY <1>4, NoPatchType
  <2>2. /\ \A f \in DOMAIN patch[q].merged :
              Asked(changed, f, patch[q].merged[f]) \/ AsksFor(q, f, patch[q].merged[f])
        /\ DryRun \in DOMAIN patch[q].merged =>
              \/ Sanctioned(changed, patch[q].merged[DryRun])
              \/ patch[q].confirmed /\ AsksFor(q, DryRun, patch[q].merged[DryRun])
    BY <2>1 DEF ConfigInv, MergedIsAsked
  <2>3. QED
    BY <1>3, <2>1, <2>2 DEF AsksFor
<1>10. QED
  BY <1>5, <1>6, <1>7, <1>8, <1>9 DEF ConfigInv

-----------------------------------------------------------------------------
LEMMA NextConfig == ConfigInv /\ [ConfigNext]_configVars => ConfigInv'
<1> SUFFICES ASSUME ConfigInv, [ConfigNext]_configVars PROVE ConfigInv'
  OBVIOUS
<1>1. CASE \E p \in Patchers, changes \in Partial, confirmed \in BOOLEAN : Patch(p, changes, confirmed)
  BY <1>1, StepPatch
<1>2. CASE \E p \in Patchers : CheckConfirmed(p)
  BY <1>2, StepCheckConfirmed
<1>3. CASE \E p \in Patchers : MergeChanges(p)
  BY <1>3, StepMergeChanges
<1>4. CASE \E p \in Patchers : FlushChanges(p)
  BY <1>4, StepFlushChanges
<1>5. CASE \E p \in Patchers : CommitChanges(p)
  BY <1>5, StepCommitChanges
<1>6. CASE \E p \in Patchers : AbortChanges(p)
  BY <1>6, StepStop DEF AbortChanges
<1>7. CASE UNCHANGED configVars
  BY <1>7 DEF configVars, ConfigInv, ConfigTypeOK, In, WriterFlushed, StoredIsAsked,
              CheckedIsSanctioned, MergedIsAsked, Asked, Sanctioned, AsksFor
<1>8. QED
  BY <1>1, <1>2, <1>3, <1>4, <1>5, <1>6, <1>7 DEF ConfigNext

(* The invariant that explains the lost updates of PATCH /config: what a   *)
(* request checked or merged on a row it had not locked stays backed by    *)
(* committed events, or by the request itself.                             *)
THEOREM ConfigSpecInv == ConfigSpec => []ConfigInv
<1>1. QED
  BY InitConfig, NextConfig, PTL DEF ConfigSpec

(* Rows, events and transactions keep their types, and whoever has flushed *)
(* a write of the row is its only writer (Postgres' row lock).             *)
THEOREM ConfigSpecTypeOK == ConfigSpec => []ConfigTypeOK
<1>1. ConfigInv => ConfigTypeOK
  BY DEF ConfigInv
<1>2. QED
  BY <1>1, ConfigSpecInv, PTL

(* However many patches overlap and overwrite each other, each override in *)
(* force was asked for by a committed patch, and a dry_run other than the  *)
(* environment's was confirmed by one.                                     *)
THEOREM ConfigSpecOverridesAreAsked == ConfigSpec => []OverridesAreAsked
<1>1. ConfigInv => OverridesAreAsked
  BY DEF ConfigInv, StoredIsAsked, OverridesAreAsked, Asked, Sanctioned
<1>2. QED
  BY <1>1, ConfigSpecInv, PTL

HIDE ConfigAssumption

-----------------------------------------------------------------------------
(* THE KILL SWITCH. *)

USE ConstantsAssumption DEF Commands

(* What OneEntrySlips rests on: while the row is on, the evaluation that   *)
(* had read it before is the only one that can still submit, and once it   *)
(* has submitted there is none.                                            *)
SwitchInv ==
    /\ TypeOK
    /\ slipped <= entries
    /\ row => slipped <= 1
    /\ row /\ engine = "checked" => slipped = 0

LEMMA InitSwitch == Init => SwitchInv
<1> SUFFICES ASSUME Init PROVE SwitchInv
  OBVIOUS
<1>1. row \in BOOLEAN /\ mirror \in BOOLEAN /\ ~row
  BY Zenon DEF Init
<1>2. tx \in [Commands -> [pc : {"done", "start", "read", "flushed", "mirrored"},
                          want : BOOLEAN, writes : BOOLEAN]]
  BY DEF Init, Done
<1>3. QED
  BY <1>1, <1>2 DEF Init, SwitchInv, TypeOK

\* A command changes its own transaction, and at most commits or releases.
LEMMA RequestSwitch ==
  ASSUME SwitchInv, NEW c \in Operators, NEW want \in BOOLEAN, Request(c, want)
  PROVE  SwitchInv'
  BY DEF SwitchInv, TypeOK, Request, Start, At

LEMMA StepSwitch ==
  ASSUME SwitchInv, NEW c \in Commands, Step(c)
  PROVE  SwitchInv'
<1> USE DEF SwitchInv, TypeOK, At, Go
<1>1. CASE Read(c)
  BY <1>1 DEF Read
<1>2. CASE Flush(c)
  BY <1>2 DEF Flush
<1>3. CASE SetMirror(c)
  BY <1>3 DEF SetMirror
<1>4. CASE Commit(c)
  <2>1. row' \in BOOLEAN /\ audit' \in Seq(BOOLEAN) /\ slipped' \in 0..MaxEntries
    BY <1>4 DEF Commit
  <2>2. lockedBy' \in Commands \cup {Nobody} /\ engine' \in {"idle", "checked", "tripping"}
    BY <1>4 DEF Commit, Ended, Released
  <2>3. TypeOK'
    BY <1>4, <2>1, <2>2 DEF Commit, Ended
  <2>4. engine' = "checked" => engine = "checked"
    BY <1>4 DEF Commit, Ended
  <2>5. row' # row => slipped' = 0
    BY <1>4 DEF Commit
  <2>6. row' = row => slipped' = slipped
    BY <1>4 DEF Commit
  <2>7. QED
    BY <1>4, <2>3, <2>4, <2>5, <2>6 DEF Commit
<1>5. QED
  BY <1>1, <1>2, <1>3, <1>4 DEF Step

LEMMA RollbackSwitch ==
  ASSUME SwitchInv, NEW c \in Commands, Rollback(c)
  PROVE  SwitchInv'
  BY DEF SwitchInv, TypeOK, Rollback, Ended, Released, Go, At

\* The engine's evaluation of an entry.
LEMMA EngineSwitch ==
  ASSUME SwitchInv, EngineReads \/ EngineRejects \/ EngineTrips \/ EngineSubmits
  PROVE  SwitchInv'
<1> USE DEF SwitchInv, TypeOK
<1>1. CASE EngineReads
  BY <1>1 DEF EngineReads
<1>2. CASE EngineRejects
  BY <1>2 DEF EngineRejects
<1>3. CASE EngineTrips
  BY <1>3 DEF EngineTrips, Start, At
<1>4. CASE EngineSubmits
  BY <1>4 DEF EngineSubmits
<1>5. QED
  BY <1>1, <1>2, <1>3, <1>4

LEMMA NextSwitch == SwitchInv /\ [Next]_vars => SwitchInv'
<1> SUFFICES ASSUME SwitchInv, [Next]_vars PROVE SwitchInv'
  OBVIOUS
<1>1. CASE UNCHANGED vars
  BY <1>1 DEF SwitchInv, TypeOK, vars
<1>2. CASE \E c \in Operators, want \in BOOLEAN : Request(c, want)
  BY <1>2, RequestSwitch
<1>3. CASE \E c \in Commands : Step(c) \/ Rollback(c)
  BY <1>3, StepSwitch, RollbackSwitch
<1>4. CASE EngineReads \/ EngineRejects \/ EngineTrips \/ EngineSubmits
  BY <1>4, EngineSwitch
<1>5. QED
  BY <1>1, <1>2, <1>3, <1>4 DEF Next

THEOREM SpecSwitchInv == Spec => []SwitchInv
  BY InitSwitch, NextSwitch, PTL DEF Spec

(* The switch, its mirror and the transactions have their types in every   *)
(* state (kill_switch.py, killswitch.py).                                  *)
THEOREM SpecTypeOK == Spec => []TypeOK
  BY SpecSwitchInv, PTL DEF SwitchInv

(* Once the row is on, at most one entry slips through, however many       *)
(* commands overlap: _handle_message reads rule 1 once per evaluation and  *)
(* evaluates one signal at a time.                                         *)
THEOREM SpecOneEntrySlips == Spec => []OneEntrySlips
<1>1. SwitchInv => OneEntrySlips
  BY DEF SwitchInv, OneEntrySlips
<1>2. QED
  BY <1>1, SpecSwitchInv, PTL

(* The row moves only in a commit that appends the event saying what it    *)
(* moved to (enable, disable).                                             *)
THEOREM SpecMovesAreAudited == Spec => MovesAreAudited
<1> DEFINE Audited == row' # row => Len(audit') = Len(audit) + 1 /\ audit'[Len(audit')] = row'
<1>1. ASSUME SwitchInv, [Next]_vars PROVE Audited
  <2>1. CASE \E c \in Commands : Commit(c)
    <3>1. PICK c \in Commands : Commit(c)
      BY <2>1
    <3>2. tx[c].want \in BOOLEAN /\ audit \in Seq(BOOLEAN)
      BY <1>1 DEF SwitchInv, TypeOK
    <3>3. audit' = Append(audit, tx[c].want) /\ (row' # row => row' = tx[c].want)
      BY <3>1 DEF Commit
    <3>4. QED
      BY <3>2, <3>3
  <2>2. CASE ~ \E c \in Commands : Commit(c)
    BY <1>1, <2>2 DEF vars, Next, Request, Step, Read, Flush, SetMirror, Rollback,
       EngineReads, EngineRejects, EngineTrips, EngineSubmits
  <2>3. QED
    BY <2>1, <2>2
<1>2. SwitchInv /\ [Next]_vars => [Audited]_vars
  BY <1>1
<1>3. QED
  BY <1>2, SpecSwitchInv, PTL DEF Spec, MovesAreAudited

-----------------------------------------------------------------------------
(* THE BOT. *)

USE ConstantsAssumption, TelegramAssumption DEF Commands, Updates

-----------------------------------------------------------------------------
(* The bot as a client of the switch.                                      *)

LEMMA StepIsSwitchStep == DeskNext => [Next]_vars
<1> SUFFICES ASSUME DeskNext PROVE [Next]_vars
  OBVIOUS
<1>1. CASE \E c \in Operators, want \in BOOLEAN : DirectRequest(c, want)
  BY <1>1 DEF DirectRequest, Next
<1>2. CASE \E c \in Commands : DeskStep(c) \/ AbortCommand(c)
  BY <1>2 DEF DeskStep, CommitCommand, AbortCommand, Next, Step
<1>3. CASE Engine
  BY <1>3 DEF Engine, Next
<1>4. CASE \E text \in {"on", "off", "other"} : Message(text)
  BY <1>4 DEF Message
<1>5. CASE \E c \in Operators : PostCommand(c)
  <2>1. PICK c \in Operators : PostCommand(c)
    BY <1>5
  <2>2. Request(c, chat[Current] = "on") /\ (chat[Current] = "on") \in BOOLEAN
    BY <2>1 DEF PostCommand
  <2>3. QED
    BY <2>2 DEF Next
<1>6. CASE GetUpdates \/ IgnoreUpdate \/ StopWaiting \/ Reply \/ CommitOffset \/ BatchDies
  BY <1>6 DEF GetUpdates, IgnoreUpdate, StopWaiting, Reply, CommitOffset, BatchDies
<1>7. QED
  BY <1>1, <1>2, <1>3, <1>4, <1>5, <1>6 DEF DeskNext

(* The bot is a client of the admin API and no second control path         *)
(* (_handle_telegram_update): with it the switch still behaves as          *)
(* KillSwitch says, so that everything proved of KillSwitch holds here.    *)
THEOREM DeskImplementsSwitch == DeskSpec => Spec
<1>1. DeskInit => Init
  BY DEF DeskInit
<1>2. [DeskNext]_deskVars => [Next]_vars
  BY StepIsSwitchStep DEF deskVars, vars
<1>3. QED
  BY <1>1, <1>2, PTL DEF DeskSpec, Spec

-----------------------------------------------------------------------------
(* The invariant of the bot.                                               *)

Active(u) == {c \in Operators : serves[c] = u /\ tx[c].pc # "done"}

\* Whether the batch under way, or one that was committed, has posted u.
Passed(u) == u <= lastId \/ u <= poll.at \/ (u = Current /\ poll.pc \in {"waiting", "reply"})

(* The poll stays within its batch, which begins past the committed id,    *)
(* and posts commands only.                                                *)
BatchInOrder ==
    /\ poll.pc = "asleep" => poll.at = 0
    /\ poll.pc # "asleep" => lastId <= poll.at /\ poll.at <= poll.upto
    /\ poll.pc \in {"waiting", "reply"} => poll.at < poll.upto /\ chat[Current] # "other"

(* A request asks for what its update says.                                *)
ServesUpdate ==
    \A c \in Operators :
        serves[c] # 0 /\ tx[c].pc # "done" => (tx[c].want <=> chat[serves[c]] = "on")

(* A command that was carried out is in the audit table.                   *)
CarriedIsAudited ==
    \A u \in Updates : carried[u] > 0 =>
        u <= Len(chat) /\ \E i \in DOMAIN audit : audit[i] <=> chat[u] = "on"

(* What was told, or is about to be, was carried out.                      *)
ToldIsCarried ==
    /\ \A u \in told : carried[u] > 0
    /\ poll.pc = "waiting" =>
          poll.by \in Operators /\ serves[poll.by] = Current /\ tx[poll.by].pc # "done"
    /\ poll.pc = "reply" /\ poll.result = "done" => carried[Current] > 0

(* What the poll has passed was posted.                                    *)
PassedIsTried ==
    \A u \in 1..Len(chat) : chat[u] # "other" /\ Passed(u) => u \in tried

(* An update has been carried out, or may still be, once for each batch    *)
(* that died and once for the batch that passed it.                        *)
PostsBounded ==
    \A u \in Updates :
        /\ IsFiniteSet(Active(u))
        /\ carried[u] + Cardinality(Active(u)) <= deaths + (IF Passed(u) THEN 1 ELSE 0)

ChatInv ==
    /\ BotTypeOK
    /\ BatchInOrder
    /\ ServesUpdate
    /\ CarriedIsAudited
    /\ ToldIsCarried
    /\ PassedIsTried
    /\ PostsBounded

LEMMA InitChat == DeskInit => ChatInv
<1> SUFFICES ASSUME DeskInit PROVE ChatInv
  OBVIOUS
<1>1. chat = <<>> /\ Len(chat) = 0 /\ lastId = 0 /\ poll = Asleep /\ deaths = 0 /\ tried = {} /\ told = {}
  BY DEF DeskInit
<1>2. serves = [c \in Operators |-> 0] /\ carried = [u \in Updates |-> 0]
  BY DEF DeskInit
<1>3. BotTypeOK /\ BatchInOrder
  BY <1>1, <1>2 DEF BotTypeOK, BatchInOrder, Asleep
<1>4. ServesUpdate /\ CarriedIsAudited /\ ToldIsCarried /\ PassedIsTried
  BY <1>1, <1>2 DEF ServesUpdate, CarriedIsAudited, ToldIsCarried, PassedIsTried, Asleep
<1>5. \A u \in Updates : Active(u) = {}
  BY <1>2 DEF Active, DeskInit, Init, Done
<1>6. PostsBounded
  <2>1. IsFiniteSet({}) /\ Cardinality({}) = 0
    BY FS_EmptySet
  <2>2. \A u \in Updates : carried[u] = 0
    BY <1>2
  <2>3. \A u \in Updates : IsFiniteSet(Active(u)) /\ Cardinality(Active(u)) = 0
    BY <1>5, <2>1
  <2>4. \A u \in Updates : carried[u] + Cardinality(Active(u)) <= deaths + (IF Passed(u) THEN 1 ELSE 0)
    BY <1>1, <2>2, <2>3
  <2>5. QED
    BY <2>3, <2>4 DEF PostsBounded
<1>7. QED
  BY <1>3, <1>4, <1>6 DEF ChatInv

\* A transaction takes a step that neither begins nor ends it, or the engine
\* does: the bot does not notice.
LEMMA QuietChat ==
  ASSUME ChatInv, BotIdle, audit' = audit,
         \A c \in Operators : (tx'[c].pc = "done" <=> tx[c].pc = "done") /\ tx'[c].want = tx[c].want
  PROVE  ChatInv'
<1> USE DEF ChatInv, BotIdle, bot
<1>1. BotTypeOK' /\ BatchInOrder' /\ PassedIsTried'
  BY DEF BotTypeOK, BatchInOrder, PassedIsTried, Passed, Current
<1>2. ServesUpdate' /\ CarriedIsAudited'
  BY DEF ServesUpdate, CarriedIsAudited
<1>3. ToldIsCarried'
  BY DEF ToldIsCarried, Current
<1>4. \A u \in Updates : Active(u)' = Active(u) /\ (Passed(u)' <=> Passed(u))
  BY DEF Active, Passed, Current
<1>5. PostsBounded'
  BY <1>4 DEF PostsBounded
<1>6. QED
  BY <1>1, <1>2, <1>3, <1>5

LEMMA DeskStepChat ==
  ASSUME SwitchInv, ChatInv, NEW c \in Commands, Read(c) \/ Flush(c) \/ SetMirror(c), BotIdle
  PROVE  ChatInv'
<1>1. audit' = audit
  BY DEF Read, Flush, SetMirror
<1>2. tx \in [Commands -> [pc : {"done", "start", "read", "flushed", "mirrored"},
                          want : BOOLEAN, writes : BOOLEAN]]
  BY DEF SwitchInv, TypeOK
<1>3. \A d \in Commands : (tx'[d].pc = "done" <=> tx[d].pc = "done") /\ tx'[d].want = tx[d].want
  <2>1. CASE Read(c)
    BY <1>2, <2>1 DEF Read, Go, At
  <2>2. CASE Flush(c)
    BY <1>2, <2>2 DEF Flush, Go, At
  <2>3. CASE SetMirror(c)
    BY <1>2, <2>3 DEF SetMirror, Go, At
  <2>4. QED
    BY <2>1, <2>2, <2>3
<1>4. QED
  BY <1>1, <1>3, QuietChat

LEMMA EngineChat ==
  ASSUME SwitchInv, ChatInv, Engine
  PROVE  ChatInv'
<1>1. audit' = audit
  BY DEF Engine, EngineReads, EngineRejects, EngineTrips, EngineSubmits
<1>2. tx \in [Commands -> [pc : {"done", "start", "read", "flushed", "mirrored"},
                          want : BOOLEAN, writes : BOOLEAN]]
  BY DEF SwitchInv, TypeOK
<1>3. \A d \in Operators : tx'[d] = tx[d]
  BY <1>2 DEF Engine, EngineReads, EngineRejects, EngineTrips, EngineSubmits, Start
<1>4. QED
  BY <1>1, <1>3, QuietChat DEF Engine

\* A message arrives.
LEMMA MessageChat ==
  ASSUME ChatInv, NEW text \in {"on", "off", "other"}, Message(text)
  PROVE  ChatInv'
<1> USE DEF ChatInv, Message
<1> UNCHANGED <<audit, tx, lastId, poll, serves, deaths, tried, carried, told>>
  BY DEF vars
<1>1. chat \in Seq({"on", "off", "other"}) /\ Len(chat) < MaxUpdates
  BY DEF BotTypeOK
<1>2. /\ chat' \in Seq({"on", "off", "other"}) /\ Len(chat') = Len(chat) + 1
      /\ \A u \in 1..Len(chat) : chat'[u] = chat[u]
  BY <1>1
<1>3. BotTypeOK'
  BY <1>1, <1>2, SMTT(30) DEF BotTypeOK
<1>4. BatchInOrder'
  BY <1>1, <1>2 DEF BatchInOrder, BotTypeOK, Current
<1>5. ServesUpdate'
  <2>1. \A c \in Operators : serves[c] # 0 => serves[c] \in 1..Len(chat)
    BY <1>1 DEF BotTypeOK
  <2>2. QED
    BY <1>2, <2>1 DEF ServesUpdate
<1>6. CarriedIsAudited'
  BY <1>1, <1>2 DEF CarriedIsAudited
<1>7. ToldIsCarried'
  BY DEF ToldIsCarried, Current
<1>8. PassedIsTried'
  <2>1. ~Passed(Len(chat) + 1)
    BY <1>1 DEF BotTypeOK, BatchInOrder, Passed, Current
  <2>2. \A u \in 1..Len(chat') : Passed(u)' => u \in 1..Len(chat) /\ Passed(u)
    BY <1>1, <1>2, <2>1 DEF Passed, Current
  <2>3. QED
    BY <1>2, <2>2 DEF PassedIsTried
<1>9. PostsBounded'
  BY DEF PostsBounded, Active, Passed, Current
<1>10. QED
  BY <1>3, <1>4, <1>5, <1>6, <1>7, <1>8, <1>9

\* The poll's own steps.  What has to be shown of each: where it leaves the
\* poll, and which updates it passes.
LEMMA PollChat ==
  ASSUME ChatInv, BotTypeOK', BatchInOrder', ToldIsCarried', PassedIsTried',
         UNCHANGED <<vars, chat, serves, tried, carried>>, deaths' \in Nat, deaths <= deaths',
         \A u \in Updates : Passed(u) /\ ~Passed(u)' => deaths' > deaths
  PROVE  ChatInv'
<1> USE DEF ChatInv
<1>1. ServesUpdate' /\ CarriedIsAudited'
  BY DEF ServesUpdate, CarriedIsAudited, vars
<1>2. PostsBounded'
  <2> SUFFICES ASSUME NEW u \in Updates
               PROVE  /\ IsFiniteSet(Active(u)')
                      /\ carried'[u] + Cardinality(Active(u)') <= deaths' + (IF Passed(u)' THEN 1 ELSE 0)
    BY DEF PostsBounded
  <2>1. Active(u)' = Active(u)
    BY DEF Active, vars
  <2>2. IsFiniteSet(Active(u)) /\ Cardinality(Active(u)) \in Nat
    BY FS_CardinalityType DEF PostsBounded
  <2>3. carried[u] \in Nat /\ deaths \in Nat
    BY DEF BotTypeOK
  <2>4. carried[u] + Cardinality(Active(u)) <= deaths + (IF Passed(u) THEN 1 ELSE 0)
    BY DEF PostsBounded
  <2>5. carried'[u] = carried[u]
    OBVIOUS
  <2>6. CASE Passed(u) /\ ~Passed(u)'
    <3>1. deaths' >= deaths + 1
      BY <2>3, <2>6
    <3>2. QED
      BY <2>1, <2>2, <2>3, <2>4, <2>5, <2>6, <3>1
  <2>7. CASE ~Passed(u) \/ Passed(u)'
    BY <2>1, <2>2, <2>3, <2>4, <2>5, <2>7
  <2>8. QED
    BY <2>6, <2>7
<1>3. QED
  BY <1>1, <1>2

\* What the steps below read of the poll and its batch.
LEMMA PollTypes ==
  ASSUME ChatInv
  PROVE  /\ chat \in Seq({"on", "off", "other"}) /\ Len(chat) \in Nat /\ Len(chat) <= MaxUpdates
         /\ lastId \in 0..Len(chat)
         /\ poll \in [pc : {"asleep", "batch", "waiting", "reply"}, at : 0..Len(chat),
                      upto : 0..Len(chat), by : Operators \cup {Nobody}, result : {"done", "error"}]
         /\ Asleep = [pc |-> "asleep", at |-> 0, upto |-> 0, by |-> Nobody, result |-> "error"]
         /\ Current \in 1 .. Len(chat) + 1
         /\ tried \subseteq 1..Len(chat) /\ told \subseteq tried /\ deaths \in 0..MaxDeaths
  BY DEF ChatInv, BotTypeOK, Asleep, Current

LEMMA GetUpdatesChat ==
  ASSUME ChatInv, GetUpdates
  PROVE  ChatInv'
<1> USE PollTypes DEF GetUpdates, Polling
<1>1. poll' = [pc |-> "batch", at |-> lastId, upto |-> Len(chat), by |-> Nobody, result |-> "error"]
  BY DEF Asleep
<1>2. BotTypeOK'
  BY <1>1, SMTT(30) DEF ChatInv, BotTypeOK
<1>3. BatchInOrder' /\ ToldIsCarried'
  BY <1>1 DEF ChatInv, BatchInOrder, ToldIsCarried
<1>4. \A u \in 1..MaxUpdates : Passed(u)' <=> Passed(u)
  BY <1>1 DEF ChatInv, BatchInOrder, Passed, Current
<1>5. PassedIsTried'
  BY <1>4 DEF ChatInv, PassedIsTried
<1>6. QED
  BY <1>2, <1>3, <1>4, <1>5, PollChat

LEMMA IgnoreUpdateChat ==
  ASSUME ChatInv, IgnoreUpdate
  PROVE  ChatInv'
<1> USE PollTypes DEF IgnoreUpdate, HasUpdate, Polling
<1>1. poll.pc = "batch" /\ Current <= poll.upto /\ poll' = [poll EXCEPT !.at = Current] /\ Current = poll.at + 1
  BY DEF Current
<1>2. poll'.pc = "batch" /\ poll'.at = Current /\ poll'.upto = poll.upto
  BY <1>1
<1>3. BotTypeOK'
  <2>1. Current \in 0..Len(chat)
    BY <1>1
  <2>2. poll' \in [pc : {"asleep", "batch", "waiting", "reply"}, at : 0..Len(chat), upto : 0..Len(chat),
                  by : Operators \cup {Nobody}, result : {"done", "error"}]
    BY <1>1, <2>1
  <2>3. QED
    BY <2>2 DEF ChatInv, BotTypeOK
<1>4. BatchInOrder' /\ ToldIsCarried'
  BY <1>1, <1>2 DEF ChatInv, BatchInOrder, ToldIsCarried
<1>5. \A u \in 1..MaxUpdates : Passed(u)' <=> Passed(u) \/ u = Current
  BY <1>1, <1>2 DEF Passed
<1>6. PassedIsTried'
  BY <1>5 DEF ChatInv, PassedIsTried
<1>7. QED
  BY <1>3, <1>4, <1>5, <1>6, PollChat

LEMMA StopWaitingChat ==
  ASSUME ChatInv, StopWaiting
  PROVE  ChatInv'
<1> USE PollTypes DEF StopWaiting, Polling
<1>1. poll.pc = "waiting" /\ poll' = [poll EXCEPT !.pc = "reply", !.result = "error"]
  OBVIOUS
<1>2. poll'.pc = "reply" /\ poll'.result = "error" /\ poll'.at = poll.at /\ poll'.upto = poll.upto
  BY <1>1
<1>3. BotTypeOK'
  <2>1. poll' \in [pc : {"asleep", "batch", "waiting", "reply"}, at : 0..Len(chat),
                   upto : 0..Len(chat), by : Operators \cup {Nobody}, result : {"done", "error"}]
    BY <1>1 DEF ChatInv, BotTypeOK
  <2>2. QED
    BY <2>1 DEF ChatInv, BotTypeOK
<1>4. poll'.by = poll.by /\ Current' = Current
  BY <1>1, <1>2 DEF Current
<1>5. BatchInOrder' /\ ToldIsCarried'
  BY <1>1, <1>2, <1>4 DEF ChatInv, BatchInOrder, ToldIsCarried
<1>6. \A u \in 1..MaxUpdates : Passed(u)' <=> Passed(u)
  BY <1>1, <1>2 DEF Passed, Current
<1>7. PassedIsTried'
  BY <1>6 DEF ChatInv, PassedIsTried
<1>8. QED
  BY <1>3, <1>5, <1>6, <1>7, PollChat

LEMMA ReplyChat ==
  ASSUME ChatInv, Reply
  PROVE  ChatInv'
<1> USE PollTypes DEF Reply, Polling
<1>1. poll.pc = "reply" /\ poll' = [poll EXCEPT !.pc = "batch", !.at = Current, !.by = Nobody]
      /\ Current = poll.at + 1
  BY DEF Current
<1>2. poll'.pc = "batch" /\ poll'.at = Current /\ poll'.upto = poll.upto
  BY <1>1
<1>3. Current <= poll.upto /\ lastId < Current
  BY <1>1 DEF ChatInv, BatchInOrder
<1>4. poll.result = "done" => Current \in tried /\ carried[Current] > 0
  <2>1. poll.result = "done" => carried[Current] > 0 /\ Current \in Updates
    BY <1>1, <1>3 DEF ChatInv, ToldIsCarried
  <2>2. chat[Current] # "other" => Current \in tried
    BY <1>1, <1>3 DEF ChatInv, PassedIsTried, Passed
  <2>3. QED
    BY <1>1, <1>3, <2>1, <2>2 DEF ChatInv, BatchInOrder
<1>5. BotTypeOK'
  <2>1. Current \in 0..Len(chat)
    BY <1>3
  <2>2. poll' \in [pc : {"asleep", "batch", "waiting", "reply"}, at : 0..Len(chat), upto : 0..Len(chat),
                  by : Operators \cup {Nobody}, result : {"done", "error"}]
    BY <1>1, <2>1
  <2>3. told' \subseteq tried
    BY <1>4
  <2>4. QED
    BY <2>2, <2>3 DEF ChatInv, BotTypeOK
<1>6. BatchInOrder' /\ ToldIsCarried'
  BY <1>1, <1>2, <1>3, <1>4 DEF ChatInv, BatchInOrder, ToldIsCarried
<1>7. \A u \in 1..MaxUpdates : Passed(u)' <=> Passed(u)
  BY <1>1, <1>2 DEF Passed, Current
<1>8. PassedIsTried'
  BY <1>7 DEF ChatInv, PassedIsTried
<1>9. QED
  BY <1>5, <1>6, <1>7, <1>8, PollChat

LEMMA CommitOffsetChat ==
  ASSUME ChatInv, CommitOffset
  PROVE  ChatInv'
<1> USE PollTypes DEF CommitOffset, Polling
<1>1. poll.pc = "batch" /\ poll' = Asleep /\ lastId' = poll.at /\ lastId <= poll.at
  BY DEF ChatInv, BatchInOrder
<1>2. BotTypeOK'
  BY <1>1, SMTT(30) DEF ChatInv, BotTypeOK
<1>3. BatchInOrder' /\ ToldIsCarried'
  BY <1>1 DEF ChatInv, BatchInOrder, ToldIsCarried
<1>4. \A u \in 1..MaxUpdates : Passed(u)' <=> Passed(u)
  BY <1>1 DEF Passed, Current
<1>5. PassedIsTried'
  BY <1>4 DEF ChatInv, PassedIsTried
<1>6. QED
  BY <1>2, <1>3, <1>4, <1>5, PollChat

LEMMA BatchDiesChat ==
  ASSUME ChatInv, BatchDies
  PROVE  ChatInv'
<1> USE PollTypes DEF BatchDies, Polling
<1>1. poll' = Asleep /\ deaths' = deaths + 1 /\ deaths < MaxDeaths /\ lastId' = lastId
  OBVIOUS
<1>2. BotTypeOK'
  BY <1>1, SMTT(30) DEF ChatInv, BotTypeOK
<1>3. BatchInOrder' /\ ToldIsCarried'
  BY <1>1 DEF ChatInv, BatchInOrder, ToldIsCarried
<1>4. \A u \in 1..MaxUpdates : Passed(u)' => Passed(u)
  BY <1>1 DEF Passed, Current
<1>5. PassedIsTried'
  BY <1>4 DEF ChatInv, PassedIsTried
<1>6. QED
  BY <1>1, <1>2, <1>3, <1>5, PollChat

LEMMA TxTypes ==
  ASSUME SwitchInv
  PROVE  /\ tx \in [Commands -> [pc : {"done", "start", "read", "flushed", "mirrored"},
                                want : BOOLEAN, writes : BOOLEAN]]
         /\ audit \in Seq(BOOLEAN)
  BY DEF SwitchInv, TypeOK

\* A request begins a transaction that ended before.
LEMMA RequestStarts ==
  ASSUME SwitchInv, NEW c \in Operators, NEW want \in BOOLEAN, Request(c, want)
  PROVE  /\ tx[c].pc = "done" /\ tx'[c].pc = "start" /\ tx'[c].want = want
         /\ \A d \in Operators : d # c => tx'[d] = tx[d]
         /\ audit' = audit
  BY TxTypes DEF Request, Start, At

LEMMA DirectRequestChat ==
  ASSUME SwitchInv, ChatInv, NEW c \in Operators, NEW want \in BOOLEAN, DirectRequest(c, want)
  PROVE  ChatInv'
<1> USE DEF ChatInv
<1>1. /\ tx[c].pc = "done" /\ tx'[c].pc = "start" /\ tx'[c].want = want
      /\ \A d \in Operators : d # c => tx'[d] = tx[d]
      /\ audit' = audit
  BY RequestStarts DEF DirectRequest
<1>2. /\ UNCHANGED <<chat, lastId, poll, deaths, tried, carried, told>>
      /\ serves' = [serves EXCEPT ![c] = 0] /\ serves \in [Operators -> 0..Len(chat)]
  BY DEF DirectRequest, BotTypeOK
<1>3. serves'[c] = 0 /\ \A d \in Operators : d # c => serves'[d] = serves[d]
  BY <1>2
<1>4. BotTypeOK' /\ BatchInOrder' /\ PassedIsTried'
  <2>1. BotTypeOK'
    BY <1>2, PollTypes DEF BotTypeOK
  <2>2. BatchInOrder'
    BY <1>2, PollTypes DEF BatchInOrder, Current
  <2>3. PassedIsTried'
    BY <1>2, PollTypes DEF PassedIsTried, Passed, Current
  <2>4. QED
    BY <2>1, <2>2, <2>3
<1>5. ServesUpdate' /\ CarriedIsAudited'
  BY <1>1, <1>2, <1>3 DEF ServesUpdate, CarriedIsAudited
<1>6. ToldIsCarried'
  BY <1>1, <1>2, <1>3 DEF ToldIsCarried, Current
<1>7. \A u \in Updates : Active(u)' = Active(u) /\ (Passed(u)' <=> Passed(u))
  BY <1>1, <1>2, <1>3 DEF Active, Passed, Current
<1>8. PostsBounded'
  BY <1>2, <1>7 DEF PostsBounded
<1>9. QED
  BY <1>4, <1>5, <1>6, <1>8

LEMMA PostCommandChat ==
  ASSUME SwitchInv, ChatInv, NEW c \in Operators, PostCommand(c)
  PROVE  ChatInv'
<1> USE DEF ChatInv
<1> DEFINE want == chat[Current] = "on"
<1>1. /\ tx[c].pc = "done" /\ tx'[c].pc = "start" /\ (tx'[c].want <=> want)
      /\ \A d \in Operators : d # c => tx'[d] = tx[d]
      /\ audit' = audit
  BY RequestStarts DEF PostCommand
<1>2. /\ poll.pc = "batch" /\ poll.at < poll.upto /\ chat[Current] # "other"
      /\ UNCHANGED <<chat, lastId, deaths, carried, told>>
      /\ poll' = [poll EXCEPT !.pc = "waiting", !.by = c]
      /\ tried' = tried \cup {Current}
      /\ serves' = [serves EXCEPT ![c] = Current] /\ serves \in [Operators -> 0..Len(chat)]
  BY DEF PostCommand, HasUpdate, Polling, BotTypeOK
<1>3. serves'[c] = Current /\ \A d \in Operators : d # c => serves'[d] = serves[d]
  BY <1>2
<1>4. Current = poll.at + 1 /\ Current \in 1..Len(chat) /\ lastId < Current
  BY <1>2, PollTypes DEF Current, BatchInOrder
<1>5. /\ poll'.pc = "waiting" /\ poll'.by = c /\ poll'.at = poll.at /\ poll'.upto = poll.upto
      /\ Current' = Current
  BY <1>2, PollTypes DEF Current
<1>6. BotTypeOK'
  <2>1. poll' \in [pc : {"asleep", "batch", "waiting", "reply"}, at : 0..Len(chat), upto : 0..Len(chat),
                  by : Operators \cup {Nobody}, result : {"done", "error"}]
    BY <1>2, PollTypes
  <2>2. serves' \in [Operators -> 0..Len(chat)] /\ tried' \subseteq 1..Len(chat) /\ told' \subseteq tried'
    BY <1>2, <1>4, PollTypes
  <2>3. QED
    BY <1>2, <2>1, <2>2 DEF BotTypeOK
<1>7. BatchInOrder'
  BY <1>2, <1>4, <1>5 DEF BatchInOrder
<1>8. ServesUpdate'
  <2>1. tx'[c].want <=> chat'[serves'[c]] = "on"
    BY <1>1, <1>2, <1>3
  <2>2. QED
    BY <1>1, <1>2, <1>3, <2>1 DEF ServesUpdate
<1>9. CarriedIsAudited'
  BY <1>1, <1>2 DEF CarriedIsAudited
<1>10. ToldIsCarried'
  BY <1>1, <1>2, <1>3, <1>5 DEF ToldIsCarried
<1>11. \A u \in Updates : Passed(u)' <=> Passed(u) \/ u = Current
  BY <1>2, <1>4, <1>5 DEF Passed
<1>12. PassedIsTried'
  BY <1>2, <1>11, PollTypes DEF PassedIsTried
<1>13. PostsBounded'
  <2> SUFFICES ASSUME NEW u \in Updates
               PROVE  /\ IsFiniteSet(Active(u)')
                      /\ carried[u] + Cardinality(Active(u)') <= deaths + (IF Passed(u)' THEN 1 ELSE 0)
    BY <1>2 DEF PostsBounded
  <2>1. /\ IsFiniteSet(Active(u)) /\ Cardinality(Active(u)) \in Nat
        /\ carried[u] + Cardinality(Active(u)) <= deaths + (IF Passed(u) THEN 1 ELSE 0)
    BY FS_CardinalityType DEF PostsBounded
  <2>2. CASE u # Current
    <3>1. Active(u)' = Active(u) /\ (Passed(u)' <=> Passed(u))
      BY <1>1, <1>2, <1>3, <1>11, <2>2 DEF Active
    <3>2. QED
      BY <2>1, <3>1
  <2>3. CASE u = Current
    <3>1. Active(u)' = Active(u) \cup {c}
      BY <1>1, <1>2, <1>3, <2>3 DEF Active
    <3>2. IsFiniteSet(Active(u)') /\ Cardinality(Active(u)') \in Nat
          /\ Cardinality(Active(u)') <= Cardinality(Active(u)) + 1
      <4>1. IsFiniteSet(Active(u) \cup {c})
            /\ Cardinality(Active(u) \cup {c})
                 = IF c \in Active(u) THEN Cardinality(Active(u)) ELSE Cardinality(Active(u)) + 1
        BY <2>1, FS_AddElement
      <4>2. QED
        BY <2>1, <3>1, <4>1
    <3>3. ~Passed(u) /\ Passed(u)'
      <4>1. ~Passed(u)
        BY <1>2, <1>4, <2>3, PollTypes DEF Passed
      <4>2. QED
        BY <1>11, <2>3, <4>1
    <3>4. carried[u] \in Nat /\ deaths \in Nat
      BY DEF BotTypeOK
    <3>5. QED
      BY <2>1, <3>2, <3>3, <3>4
  <2>4. QED
    BY <2>2, <2>3
<1>14. QED
  BY <1>6, <1>7, <1>8, <1>9, <1>10, <1>12, <1>13

\* The end of a transaction, and the answer to the poll if it still waits.
AnswerTo(c, results) == IF c \in Operators THEN Answer(c, results) ELSE UNCHANGED poll

LEMMA AnswerChat ==
  ASSUME ChatInv, NEW c \in Commands, NEW results \in SUBSET {"done", "error"}, AnswerTo(c, results),
         UNCHANGED <<chat, lastId, tried>>
  PROVE  /\ poll' \in [pc : {"asleep", "batch", "waiting", "reply"}, at : 0..Len(chat),
                       upto : 0..Len(chat), by : Operators \cup {Nobody}, result : {"done", "error"}]
         /\ poll'.at = poll.at /\ poll'.upto = poll.upto /\ Current' = Current
         /\ BatchInOrder' /\ PassedIsTried' /\ \A u \in Updates : Passed(u)' <=> Passed(u)
         /\ poll'.pc = "waiting" => poll' = poll /\ poll.by # c
         /\ poll'.pc = "reply" => poll' = poll \/ (AwaitedBy(c) /\ c \in Operators /\ poll'.result \in results)
<1> USE DEF ChatInv
<1>1. CASE c \in Operators /\ AwaitedBy(c)
  <2>1. PICK r \in results : poll' = [poll EXCEPT !.pc = "reply", !.result = r]
    BY <1>1 DEF AnswerTo, Answer
  <2>2. /\ poll'.pc = "reply" /\ poll'.result = r /\ poll'.at = poll.at /\ poll'.upto = poll.upto
        /\ poll.pc = "waiting"
    BY <1>1, <2>1, PollTypes DEF AwaitedBy, Polling
  <2>3. poll' \in [pc : {"asleep", "batch", "waiting", "reply"}, at : 0..Len(chat),
                  upto : 0..Len(chat), by : Operators \cup {Nobody}, result : {"done", "error"}]
    BY <2>1, PollTypes
  <2>4. Current' = Current
    BY <2>2 DEF Current
  <2>5. BatchInOrder' /\ (\A u \in 1..MaxUpdates : Passed(u)' <=> Passed(u))
    BY <2>2, <2>4 DEF BatchInOrder, Passed
  <2>6. PassedIsTried'
    BY <2>5, PollTypes DEF PassedIsTried
  <2>7. QED
    BY <1>1, <2>2, <2>3, <2>4, <2>5, <2>6
<1>2. CASE ~(c \in Operators /\ AwaitedBy(c))
  <2>1. poll' = poll
    BY <1>2 DEF AnswerTo, Answer
  <2>2. Current' = Current /\ BatchInOrder' /\ PassedIsTried' /\ (\A u \in Updates : Passed(u)' <=> Passed(u))
    BY <2>1 DEF BatchInOrder, PassedIsTried, Passed, Current
  <2>3. poll.pc = "waiting" => poll.by # c
    BY <1>2 DEF AwaitedBy, Polling, ToldIsCarried
  <2>4. QED
    BY <2>1, <2>2, <2>3, PollTypes
<1>3. QED
  BY <1>1, <1>2

LEMMA AbortCommandChat ==
  ASSUME SwitchInv, ChatInv, NEW c \in Commands, AbortCommand(c)
  PROVE  ChatInv'
<1> USE DEF ChatInv
<1>1. /\ tx'[c].pc = "done" /\ \A d \in Commands : d # c => tx'[d] = tx[d]
      /\ audit' = audit
  BY TxTypes DEF AbortCommand, Rollback, Ended, Go
<1>2. UNCHANGED <<chat, lastId, serves, deaths, tried, carried, told>> /\ AnswerTo(c, {"error"})
  BY DEF AbortCommand, AnswerTo
<1>3. /\ poll' \in [pc : {"asleep", "batch", "waiting", "reply"}, at : 0..Len(chat),
                    upto : 0..Len(chat), by : Operators \cup {Nobody}, result : {"done", "error"}]
      /\ BatchInOrder' /\ PassedIsTried' /\ \A u \in Updates : Passed(u)' <=> Passed(u)
      /\ Current' = Current
      /\ poll'.pc = "waiting" => poll' = poll /\ poll.by # c
      /\ poll'.pc = "reply" => poll' = poll \/ poll'.result = "error"
  BY <1>2, AnswerChat
<1>4. BotTypeOK'
  BY <1>2, <1>3 DEF BotTypeOK
<1>5. ServesUpdate' /\ CarriedIsAudited'
  BY <1>1, <1>2 DEF ServesUpdate, CarriedIsAudited
<1>6. ToldIsCarried'
  BY <1>1, <1>2, <1>3 DEF ToldIsCarried
<1>7. PostsBounded'
  <2> SUFFICES ASSUME NEW u \in Updates
               PROVE  /\ IsFiniteSet(Active(u)')
                      /\ carried[u] + Cardinality(Active(u)') <= deaths + (IF Passed(u) THEN 1 ELSE 0)
    BY <1>2, <1>3 DEF PostsBounded
  <2>1. /\ IsFiniteSet(Active(u)) /\ Cardinality(Active(u)) \in Nat
        /\ carried[u] + Cardinality(Active(u)) <= deaths + (IF Passed(u) THEN 1 ELSE 0)
    BY FS_CardinalityType DEF PostsBounded
  <2>2. Active(u)' \in SUBSET Active(u)
    BY <1>1, <1>2 DEF Active
  <2>3. IsFiniteSet(Active(u)') /\ Cardinality(Active(u)') <= Cardinality(Active(u))
    BY <2>1, <2>2, FS_Subset
  <2>4. Cardinality(Active(u)') \in Nat
    BY <2>3, FS_CardinalityType
  <2>5. carried[u] \in Nat /\ deaths \in Nat
    BY DEF BotTypeOK
  <2>6. QED
    BY <2>1, <2>3, <2>4, <2>5
<1>8. QED
  BY <1>3, <1>4, <1>5, <1>6, <1>7

LEMMA CommitCommandChat ==
  ASSUME SwitchInv, ChatInv, NEW c \in Commands, CommitCommand(c)
  PROVE  ChatInv'
<1> USE DEF ChatInv
<1> DEFINE served == IF c \in Operators THEN serves[c] ELSE 0
<1>1. /\ tx[c].pc = "mirrored" /\ tx'[c].pc = "done"
      /\ \A d \in Commands : d # c => tx'[d] = tx[d]
      /\ audit' = Append(audit, tx[c].want)
  BY TxTypes DEF CommitCommand, Commit, Ended, Go, At
<1>2. UNCHANGED <<chat, lastId, serves, deaths, tried, told>> /\ AnswerTo(c, {"done", "error"})
  BY DEF CommitCommand, AnswerTo
<1>3. /\ poll' \in [pc : {"asleep", "batch", "waiting", "reply"}, at : 0..Len(chat),
                    upto : 0..Len(chat), by : Operators \cup {Nobody}, result : {"done", "error"}]
      /\ BatchInOrder' /\ PassedIsTried' /\ \A u \in Updates : Passed(u)' <=> Passed(u)
      /\ Current' = Current
      /\ poll'.pc = "waiting" => poll' = poll /\ poll.by # c
      /\ poll'.pc = "reply" => poll' = poll \/ (AwaitedBy(c) /\ c \in Operators)
  BY <1>2, AnswerChat
<1>4. /\ carried \in [Updates -> Nat] /\ carried' \in [Updates -> Nat]
      /\ served \in 0..Len(chat)
      /\ \A u \in Updates : carried'[u] = IF u = served THEN carried[u] + 1 ELSE carried[u]
  <2>1. carried \in [Updates -> Nat] /\ serves \in [Operators -> 0..Len(chat)] /\ Len(chat) \in Nat
    BY PollTypes DEF BotTypeOK
  <2>2. CASE c \in Operators
    BY <2>1, <2>2 DEF CommitCommand
  <2>3. CASE c \notin Operators
    BY <2>1, <2>3 DEF CommitCommand
  <2>4. QED
    BY <2>2, <2>3
<1>5. BotTypeOK'
  BY <1>2, <1>3, <1>4 DEF BotTypeOK
<1>6. ServesUpdate'
  BY <1>1, <1>2 DEF ServesUpdate
<1>7. CarriedIsAudited'
  <2> SUFFICES ASSUME NEW u \in Updates, carried'[u] > 0
               PROVE  u <= Len(chat) /\ \E i \in DOMAIN audit' : audit'[i] <=> chat[u] = "on"
    BY <1>2 DEF CarriedIsAudited
  <2>1. /\ audit \in Seq(BOOLEAN) /\ tx[c].want \in BOOLEAN
        /\ Len(audit') = Len(audit) + 1 /\ audit'[Len(audit) + 1] = tx[c].want
        /\ DOMAIN audit' = 1 .. Len(audit) + 1
        /\ \A i \in 1..Len(audit) : audit'[i] = audit[i]
    BY <1>1, TxTypes
  <2>2. CASE u = served
    <3>1. c \in Operators /\ serves[c] = u /\ u \in 1..Len(chat)
      BY <1>4, <2>2
    <3>2. tx[c].want <=> chat[u] = "on"
      BY <1>1, <3>1 DEF ServesUpdate
    <3>3. audit'[Len(audit) + 1] <=> chat[u] = "on"
      BY <2>1, <3>2
    <3>4. Len(audit) + 1 \in DOMAIN audit'
      BY <2>1
    <3>5. QED
      BY <3>1, <3>3, <3>4
  <2>3. CASE u # served
    <3>1. u <= Len(chat) /\ \E i \in DOMAIN audit : audit[i] <=> chat[u] = "on"
      BY <1>4, <2>3 DEF CarriedIsAudited
    <3>2. PICK i \in DOMAIN audit : audit[i] <=> chat[u] = "on"
      BY <3>1
    <3>3. i \in DOMAIN audit' /\ audit'[i] = audit[i]
      BY <2>1
    <3>4. QED
      BY <3>1, <3>2, <3>3
  <2>4. QED
    BY <2>2, <2>3
<1>8. ToldIsCarried'
  <2>1. \A u \in told : carried'[u] > 0
    BY <1>4, PollTypes, SMTT(30) DEF ToldIsCarried
  <2>2. poll'.pc = "waiting" =>
          poll'.by \in Operators /\ serves[poll'.by] = Current /\ tx'[poll'.by].pc # "done"
    BY <1>1, <1>3 DEF ToldIsCarried
  <2>3. poll'.pc = "reply" /\ poll'.result = "done" => carried'[Current] > 0
    <3>1. poll'.pc = "reply" => Current \in Updates
      BY <1>3, PollTypes DEF BatchInOrder, AwaitedBy, Polling, Current
    <3>2. poll'.pc = "reply" /\ poll' # poll => served = Current
      BY <1>3 DEF AwaitedBy, Polling, ToldIsCarried
    <3>3. QED
      BY <1>4, <3>1, <3>2 DEF ToldIsCarried
  <2>4. QED
    BY <1>2, <1>3, <2>1, <2>2, <2>3 DEF ToldIsCarried
<1>9. PostsBounded'
  <2> SUFFICES ASSUME NEW u \in Updates
               PROVE  /\ IsFiniteSet(Active(u)')
                      /\ carried'[u] + Cardinality(Active(u)') <= deaths + (IF Passed(u) THEN 1 ELSE 0)
    BY <1>2, <1>3 DEF PostsBounded
  <2>1. /\ IsFiniteSet(Active(u)) /\ Cardinality(Active(u)) \in Nat
        /\ carried[u] + Cardinality(Active(u)) <= deaths + (IF Passed(u) THEN 1 ELSE 0)
    BY FS_CardinalityType DEF PostsBounded
  <2>2. CASE u # served
    <3>1. Active(u)' = Active(u)
      BY <1>1, <1>2, <2>2 DEF Active
    <3>2. QED
      BY <1>4, <2>1, <2>2, <3>1
  <2>3. CASE u = served
    <3>1. c \in Operators /\ serves[c] = u
      BY <2>3
    <3>2. c \in Active(u) /\ Active(u)' = Active(u) \ {c}
      BY <1>1, <1>2, <3>1 DEF Active
    <3>3. IsFiniteSet(Active(u) \ {c}) /\ Cardinality(Active(u) \ {c})
            = IF c \in Active(u) THEN Cardinality(Active(u)) - 1 ELSE Cardinality(Active(u))
      BY <2>1, FS_RemoveElement
    <3>4. IsFiniteSet(Active(u)') /\ Cardinality(Active(u)') = Cardinality(Active(u)) - 1
      BY <3>2, <3>3
    <3>5. carried[u] \in Nat /\ carried'[u] = carried[u] + 1 /\ deaths \in Nat
      BY <1>4, <2>3 DEF BotTypeOK
    <3>6. QED
      BY <2>1, <3>4, <3>5
  <2>4. QED
    BY <2>2, <2>3
<1>10. QED
  BY <1>3, <1>5, <1>6, <1>7, <1>8, <1>9

LEMMA NextChat == SwitchInv /\ ChatInv /\ [DeskNext]_deskVars => ChatInv'
<1> SUFFICES ASSUME SwitchInv, ChatInv, [DeskNext]_deskVars PROVE ChatInv'
  OBVIOUS
<1>1. CASE UNCHANGED deskVars
  <2>1. BotIdle /\ audit' = audit /\ tx' = tx
    BY <1>1 DEF deskVars, BotIdle
  <2>2. QED
    BY <2>1, QuietChat
<1>2. CASE \E c \in Operators, want \in BOOLEAN : DirectRequest(c, want)
  BY <1>2, DirectRequestChat
<1>3. CASE \E c \in Commands : DeskStep(c) \/ AbortCommand(c)
  BY <1>3, DeskStepChat, CommitCommandChat, AbortCommandChat DEF DeskStep
<1>4. CASE Engine
  BY <1>4, EngineChat
<1>5. CASE \E text \in {"on", "off", "other"} : Message(text)
  BY <1>5, MessageChat
<1>6. CASE \E c \in Operators : PostCommand(c)
  BY <1>6, PostCommandChat
<1>7. CASE GetUpdates \/ IgnoreUpdate \/ StopWaiting \/ Reply \/ CommitOffset \/ BatchDies
  BY <1>7, GetUpdatesChat, IgnoreUpdateChat, StopWaitingChat, ReplyChat, CommitOffsetChat, BatchDiesChat
<1>8. QED
  BY <1>1, <1>2, <1>3, <1>4, <1>5, <1>6, <1>7 DEF DeskNext

(* The poll, its offset and the history variables keep their types.        *)
THEOREM DeskChatInv == DeskSpec => []ChatInv
<1>1. DeskSpec => []SwitchInv
  BY DeskImplementsSwitch, SpecSwitchInv, PTL
<1>2. QED
  BY <1>1, InitChat, NextChat, PTL DEF DeskSpec

(* An operator's chat is obeyed however the bot's batches die and its      *)
(* requests are answered late (_poll_telegram_commands): nothing is passed *)
(* over, an answer of success is true, and a command repeats at most once  *)
(* per batch that died.                                                    *)
THEOREM DeskChatObeyed == DeskSpec => []ChatObeyed
<1>1. SwitchInv /\ ChatInv => ChatObeyed
  <2> SUFFICES ASSUME SwitchInv, ChatInv, NEW u \in 1..Len(chat)
               PROVE  /\ u <= lastId /\ chat[u] # "other" => u \in tried
                      /\ u \in told => carried[u] > 0 /\ \E i \in DOMAIN audit : audit[i] = (chat[u] = "on")
                      /\ carried[u] <= 1 + deaths
    BY DEF ChatObeyed
  <2>1. u \in Updates
    BY PollTypes
  <2>2. u <= lastId /\ chat[u] # "other" => u \in tried
    BY DEF ChatInv, PassedIsTried, Passed
  <2>3. u \in told => carried[u] > 0 /\ \E i \in DOMAIN audit : audit[i] = (chat[u] = "on")
    <3>1. u \in told => carried[u] > 0 /\ \E i \in DOMAIN audit : audit[i] <=> chat[u] = "on"
      BY <2>1 DEF ChatInv, ToldIsCarried, CarriedIsAudited
    <3>2. \A i \in DOMAIN audit : audit[i] \in BOOLEAN
      BY TxTypes
    <3>3. \A i \in DOMAIN audit : (audit[i] <=> chat[u] = "on") => audit[i] = (chat[u] = "on")
      BY <3>2
    <3>4. QED
      BY <3>1, <3>3
  <2>4. carried[u] <= 1 + deaths
    <3>1. IsFiniteSet(Active(u)) /\ carried[u] + Cardinality(Active(u)) <= deaths + (IF Passed(u) THEN 1 ELSE 0)
      BY <2>1 DEF ChatInv, PostsBounded
    <3>2. Cardinality(Active(u)) \in Nat
      BY <3>1, FS_CardinalityType
    <3>3. carried[u] \in Nat /\ deaths \in Nat
      BY <2>1 DEF ChatInv, BotTypeOK
    <3>4. QED
      BY <3>1, <3>2, <3>3
  <2>5. QED
    BY <2>2, <2>3, <2>4
<1>2. QED
  BY <1>1, DeskChatInv, DeskImplementsSwitch, SpecSwitchInv, PTL

(* The guarantees of the switch hold with the bot as its client.           *)
THEOREM DeskKeepsSwitch == DeskSpec => []OneEntrySlips /\ MovesAreAudited
  BY DeskImplementsSwitch, SpecOneEntrySlips, SpecMovesAreAudited, PTL

-----------------------------------------------------------------------------
(* THE DESK. *)

(* A behaviour of the desk is one of the bot with the admin API, and one   *)
(* of the config rows: the two share nothing.                              *)
THEOREM OperatorImplementsBoth == OperatorSpec => DeskSpec /\ ConfigSpec
<1>1. OperatorInit => DeskInit /\ ConfigInit
  BY DEF OperatorInit
<1>2. [OperatorNext]_<<deskVars, configVars, desk>> => [DeskNext]_deskVars /\ [ConfigNext]_configVars
  BY DEF OperatorNext, SwitchNext, ChatNext, PatchNext
<1>3. QED
  BY <1>1, <1>2, PTL DEF OperatorSpec, DeskSpec, ConfigSpec

(* All controls keep their types.                                          *)
THEOREM OperatorControlsTypeOK == OperatorSpec => []ControlsTypeOK
<1>1. TypeOK /\ ChatInv /\ ConfigTypeOK => ControlsTypeOK
  BY DEF ControlsTypeOK, ChatInv
<1>2. QED
  BY <1>1, OperatorImplementsBoth, DeskImplementsSwitch, SpecTypeOK, DeskChatInv, ConfigSpecTypeOK, PTL

(* And their guarantees: the switch lets at most one entry slip and audits *)
(* its moves, the chat is obeyed, the overrides are asked for.             *)
THEOREM OperatorKeepsAll ==
  OperatorSpec => [](OneEntrySlips /\ ChatObeyed /\ OverridesAreAsked) /\ MovesAreAudited
<1>1. QED
  BY OperatorImplementsBoth, DeskKeepsSwitch, DeskChatObeyed, ConfigSpecOverridesAreAsked, PTL

=============================================================================
