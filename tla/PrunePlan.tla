----------------------------- MODULE PrunePlan -----------------------------
(* Journal retention, computed purely (client/prune-plan.ts).  A row has at   *)
(* least an id (its syncId) and an entity e; the entity determines the model. *)
EXTENDS SyncIds, FiniteSetsExt

CONSTANTS Entities, EntityModel

Models == {EntityModel[e] : e \in Entities}

RowModel(r) == EntityModel[r.e]

\* Mutant: "newest" is decided per model, not per entity.
SquashRows_PerModel(rows) == {r \in rows : \A s \in rows : RowModel(s) = RowModel(r) => s.id <= r.id}

\* Stage 1: the newest row of every (model, id).
SquashRows(rows) == {r \in rows : \A s \in rows : s.e = r.e => s.id <= r.id}

\* Stage 2: a row at or below its model's minimum last-applied mark is dead
\* weight, and so is every row of a model with no mark at all.
LiveRows(rows, minLastApplied) ==
    {r \in SquashRows(rows) :
        /\ minLastApplied[RowModel(r)] # None
        /\ r.id > minLastApplied[RowModel(r)]}

\* The n rows with the highest ids.
NewestRows(rows, n) == {r \in rows : Cardinality({s \in rows : s.id > r.id}) < n}

\* Stage 3: at most maxPerModel rows of a model, then at most maxTotal overall.
CapRows(rows, maxPerModel, maxTotal) ==
    NewestRows(UNION {NewestRows({r \in rows : RowModel(r) = m}, maxPerModel) : m \in Models},
               maxTotal)

\* The rows kept, and per model the highest id a count cap deleted.  Stages 1
\* and 2 never move the floor.
PrunePlanOf(rows, minLastApplied, maxPerModel, maxTotal) ==
    LET live == LiveRows(rows, minLastApplied)
        keep == CapRows(live, maxPerModel, maxTotal)
    IN  [keep |-> keep,
         floor |-> [m \in Models |->
            LET capped == {r.id : r \in {x \in live \ keep : RowModel(x) = m}}
            IN  IF capped = {} THEN None ELSE Max(capped)]]
=============================================================================
