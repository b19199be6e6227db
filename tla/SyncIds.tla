------------------------------ MODULE SyncIds ------------------------------
(* Positions on the server's event log (packages/protocol/src/ids.ts).        *)
(* A SyncId is a canonical decimal string ordered by numeric magnitude        *)
(* (compareSyncId), so it is modelled by the natural number it denotes;       *)
(* Option.none is None, which lies below every SyncId, so that "exists and is *)
(* greater than x" is plain arithmetic.                                       *)
EXTENDS Integers

None == -1
ZeroSyncId == 0
SyncId == Nat
OptionalSyncId == SyncId \cup {None}

MaxSyncId(a, b) == IF a >= b THEN a ELSE b

\* advanceSyncId: an absent cursor adopts next, a present one keeps the larger.
AdvanceSyncId(current, next) ==
    IF current = None THEN next ELSE MaxSyncId(current, next)

OrZero(id) == IF id = None THEN ZeroSyncId ELSE id
=============================================================================
