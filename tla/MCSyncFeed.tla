----------------------------- MODULE MCSyncFeed -----------------------------
EXTENDS SyncFeed

CONSTANTS e1, e2, e3
MCModelOf == [e \in Entities |-> IF e = e3 THEN "Exotic" ELSE "Note"]
=============================================================================
