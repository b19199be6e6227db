------------------------- MODULE MCCollectionRegistry -------------------------
(* A global collection and two of one scope, and two teardowns at a time.     *)
EXTENDS CollectionRegistry

MCScopeOf == [k \in Keys |-> IF k = "global" THEN NoScope ELSE "org"]
=============================================================================
