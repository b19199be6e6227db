---------------------------- MODULE SyncJournal ----------------------------
(* The client's durable journal (client/sync-journal.ts) as a value: each     *)
(* operator below is what one atomic commit of the store leaves behind, so a  *)
(* crash falls between two of them and never inside one.                      *)
EXTENDS MountPlan, PrunePlan

CONSTANTS Collections,  \* last-applied keys: one per (model, scope)
          CollModel     \* the model of a collection

EmptyJournal ==
    [log |-> {}, cursor |-> None, epoch |-> None, resync |-> None,
     floor |-> [m \in Models |-> None], marks |-> [c \in Collections |-> None]]

\* putLog is keyed by syncId: a row appended again replaces the older copy.
AppendRows(j, rows) ==
    [j EXCEPT !.log = {r \in @ : \A s \in rows : s.id # r.id} \cup rows]

\* Mutant: the slice starts one position late.
ReadRows_OffByOne(j, model, since) == {r \in j.log : RowModel(r) = model /\ r.id > since + 1}

\* The rows of a model after a position.
ReadRows(j, model, since) == {r \in j.log : RowModel(r) = model /\ r.id > since}

AdvanceCursor(j, id) == [j EXCEPT !.cursor = AdvanceSyncId(@, id)]

\* One flush: every pending mark folded into its durable record.
FoldMarks(j, pending) ==
    [j EXCEPT !.marks = [c \in Collections |->
        IF pending[c] = None THEN @[c] ELSE AdvanceSyncId(@[c], pending[c])]]

MinLastApplied(j) ==
    [m \in Models |->
        LET recorded == {j.marks[c] : c \in {d \in Collections :
                            CollModel[d] = m /\ j.marks[d] # None}}
        IN  IF recorded = {} THEN None ELSE Min(recorded)]

\* The read half of prune: which rows go and which floors rise.
PlanPrune(j, maxPerModel, maxTotal) ==
    LET plan == PrunePlanOf(j.log, MinLastApplied(j), maxPerModel, maxTotal)
    IN  [rows |-> j.log \ plan.keep, floor |-> plan.floor]

\* Mutant: the floors are left where they were.
CommitPrune_NoFloor(j, plan) == [j EXCEPT !.log = @ \ plan.rows]

\* The commit half: deletions and merged floors in one write.
CommitPrune(j, plan) ==
    [j EXCEPT !.log = {r \in @ : \A d \in plan.rows : d.id # r.id},
              !.floor = [m \in Models |-> MaxSyncId(@[m], plan.floor[m])]]

\* Invalidate rows and coverage within the current epoch.
ResetCoverage(j, at) ==
    [EmptyJournal EXCEPT !.epoch = j.epoch, !.cursor = at, !.resync = at]

\* The timeline changed identity: nothing survives.
ResetToEpoch(epoch, at) == [EmptyJournal EXCEPT !.epoch = epoch, !.cursor = at]
=============================================================================
