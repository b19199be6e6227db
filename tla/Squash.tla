------------------------------- MODULE Squash -------------------------------
(* The catchup squasher (packages/protocol/src/squash.ts): one terminal tag   *)
(* per entity for a run of its events.  "Drop" removes the entity from the    *)
(* output, so the next event of the run starts afresh.  SyncBroker uses the   *)
(* tag table alone, its resyncs having one target; SyncFeed the whole of it.  *)
EXTENDS SequencesExt

\* Mutant: an insert after a delete leaves the delete.
FoldTag_DeleteStays(prev, next) ==
    CASE prev = "Drop" -> next
      [] prev = "Insert" -> IF next = "Delete" THEN "Drop" ELSE "Insert"
      [] prev = "Update" -> IF next = "Delete" THEN "Delete" ELSE "Update"
      [] prev = "Delete" -> "Delete"

\* The fold table.
FoldTag(prev, next) ==
    CASE prev = "Drop" -> next
      [] prev = "Insert" -> IF next = "Delete" THEN "Drop" ELSE "Insert"
      [] prev = "Update" -> IF next = "Delete" THEN "Delete" ELSE "Update"
      [] prev = "Delete" -> IF next = "Insert" THEN "Update" ELSE "Delete"

\* Mutant: the folded event keeps the first id of its run.
FoldEntity_KeepsFirst(kept, event) ==
    LET run == {r \in kept : r.tag # "Resync" /\ r.entity = event.entity}
        first == IF run = {} THEN event ELSE CHOOSE r \in run : TRUE
        tag == IF run = {} THEN event.tag ELSE FoldTag(first.tag, event.tag)
    IN  (kept \ run) \cup (IF tag = "Drop" THEN {} ELSE {[event EXCEPT !.tag = tag, !.at = first.at]})

\* foldEntity: the event takes its run's place, under the folded tag.
FoldEntity(kept, event) ==
    LET run == {r \in kept : r.tag # "Resync" /\ r.entity = event.entity}
        tag == IF run = {} THEN event.tag
               ELSE FoldTag((CHOOSE r \in run : TRUE).tag, event.tag)
    IN  (kept \ run) \cup (IF tag = "Drop" THEN {} ELSE {[event EXCEPT !.tag = tag]})

\* What a resync makes redundant: a subscriber fetches its target afresh.
Supersedes(resync, r) ==
    \/ resync.target = "All"
    \/ r.tag # "Resync" /\ (resync.target = r.model \/ resync.target \in r.groups)

ApplyResync(kept, resync) == {r \in kept : ~Supersedes(resync, r)} \cup {resync}

\* squash: what the events of a log at the positions of a run come down to.  Each keeps
\* its id, by which the source sorts them.
Squashed(events, run) ==
    LET kept[n \in 0 .. Len(events)] ==
            IF n = 0 THEN {}
            ELSE IF n \notin run THEN kept[n - 1]
            ELSE IF events[n].tag = "Resync" THEN ApplyResync(kept[n - 1], events[n])
            ELSE FoldEntity(kept[n - 1], events[n])
    IN  kept[Len(events)]
=============================================================================
