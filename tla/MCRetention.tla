---------------------------- MODULE MCRetention ----------------------------
(* Three entities of two models, those of one model being interchangeable, and *)
(* a collection that serves one scope of two.                                  *)
EXTENDS SyncBroker

CONSTANTS e1, e2, e3
MCModels == [e \in Entities |-> IF e = e3 THEN "m2" ELSE "m"]
MCCollModel == [c \in Collections |-> "m"]
MCScope == [c \in Collections |-> "h1"]
MCSymmetry == Permutations(Entities \ {e3})
=============================================================================
