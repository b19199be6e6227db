---------------------------- MODULE MCPartialLoads ----------------------------
(* Two hooks over three targets: two instances of one collection that load    *)
(* the same subset, and another subset.  Both start on the first.             *)
EXTENDS PartialLoads

MCRequestOf == [t \in Callers |-> IF t = "t3" THEN "r2" ELSE "r1"]
MCFirstTarget == [h \in Hooks |-> "t1"]
MCAttempts == [h \in Hooks |-> IF h = "h1" THEN 2 ELSE 1]
=============================================================================
