----------------------------- MODULE MountPlan -----------------------------
(* The pure on-mount verdict and the tail guard (client/mount-plan.ts).       *)
EXTENDS SyncIds

\* Mutant: an absent cursor is not read as zero.
SnapshotPoint_NoZero(lastIngested, lastResync) == MaxSyncId(lastIngested, lastResync)

\* max(last ingested, last resync): the point replay becomes trustworthy again.
SnapshotPoint(lastIngested, lastResync) ==
    IF lastResync = None
    THEN OrZero(lastIngested)
    ELSE MaxSyncId(OrZero(lastIngested), lastResync)

\* No record, or a resync newer than it: the local rows cannot be trusted.
Untrusted(lastApplied, lastResync) == lastApplied = None \/ lastResync > lastApplied

Decision(lastApplied, lastIngested, highestPruned, lastResync) ==
    IF Untrusted(lastApplied, lastResync) THEN "Snapshot"
    ELSE IF lastApplied >= OrZero(lastIngested) THEN "Skip"
    ELSE IF highestPruned > lastApplied THEN "Snapshot"
    ELSE "Replay"

\* decision, where the journal slice starts (exclusive), and the tail guard seed;
\* a Snapshot is taken "at" since.
PlanMount(lastApplied, lastIngested, highestPruned, lastResync) ==
    LET point == SnapshotPoint(lastIngested, lastResync)
        decision == Decision(lastApplied, lastIngested, highestPruned, lastResync)
    IN  IF decision = "Snapshot"
        THEN [decision |-> decision, since |-> point, guard |-> point]
        ELSE [decision |-> decision, since |-> lastApplied,
              guard |-> MaxSyncId(point, lastApplied)]

\* Mutant: an epoch reset only raises the guard, so the new timeline's low ids are stale.
GuardAfter_NoRebase(guard, kind, id) == MaxSyncId(guard, id)

\* dropStale: the guard after one tail item, and whether the item is emitted.
\* An EpochReset rebases the guard, a Resync only raises it, and an Event at or
\* below it is stale.
GuardAfter(guard, kind, id) ==
    CASE kind = "EpochReset" -> id
      [] kind = "Resync" -> MaxSyncId(guard, id)
      [] OTHER -> IF id <= guard THEN guard ELSE id

IsStale(guard, kind, id) == kind = "Event" /\ id <= guard
=============================================================================
