--------------------------- MODULE SyncBrokerProofs ---------------------------
(* What the helpers of SyncIds and MountPlan return, what the journal's        *)
(* retention (prune-plan.ts) keeps and reports, and of the broker, and then of  *)
(* a partial collection over it: its types, who holds the recovery gate, and   *)
(* what the gate protects, for every instance of the constants and every       *)
(* choice of disturbances and race windows.                                    *)
EXTENDS PartialCollection, PositionProofs

-----------------------------------------------------------------------------
\* The advance helpers return positions, and never move one backwards.
LEMMA AdvanceType ==
    ASSUME NEW a \in OptionalSyncId, NEW b \in OptionalSyncId
    PROVE  /\ MaxSyncId(a, b) \in OptionalSyncId
           /\ MaxSyncId(a, b) >= a /\ MaxSyncId(a, b) >= b
           /\ OrZero(a) \in SyncId /\ OrZero(a) >= a
           /\ b \in SyncId => AdvanceSyncId(a, b) \in SyncId
BY DEF OptionalSyncId, SyncId, None, ZeroSyncId, MaxSyncId, AdvanceSyncId, OrZero

\* planMount answers with a mode and, for a Delta, the point its replay starts at.
LEMMA PlanMountType ==
    ASSUME NEW mark \in OptionalSyncId, NEW cursor \in OptionalSyncId,
           NEW floor \in OptionalSyncId, NEW resync \in OptionalSyncId
    PROVE  LET plan == PlanMount(mark, cursor, floor, resync)
           IN  /\ plan.since \in SyncId
               /\ plan.guard \in SyncId
               /\ plan.decision \in {"Snapshot", "Skip", "Replay"}
BY DEF PlanMount, SnapshotPoint, Decision, Untrusted, OptionalSyncId, SyncId, None, ZeroSyncId,
       MaxSyncId, OrZero

\* The verdict leaves no gap (planMount).  A table kept as it is starts its replay at
\* the mark and no resync lies above it, nor does a pruned row unless nothing was
\* ingested above it; a table that is re-listed is listed at or above everything
\* ingested and every resync; and either way the tail drops what was ingested already.
THEOREM MountPlanLeavesNoGap ==
    ASSUME NEW mark \in OptionalSyncId, NEW cursor \in OptionalSyncId,
           NEW floor \in OptionalSyncId, NEW resync \in OptionalSyncId
    PROVE  LET plan == PlanMount(mark, cursor, floor, resync)
           IN  /\ plan.decision # "Snapshot" =>
                      /\ mark # None /\ plan.since = mark /\ resync <= mark
                      /\ floor <= mark \/ OrZero(cursor) <= mark
               /\ plan.decision = "Snapshot" =>
                      plan.since >= OrZero(cursor) /\ plan.since >= resync
               /\ plan.guard >= OrZero(cursor) /\ plan.guard >= plan.since
BY DEF PlanMount, SnapshotPoint, Decision, Untrusted, OptionalSyncId, SyncId, None, ZeroSyncId,
       MaxSyncId, OrZero

\* The tail guard stays a position, and but for an epoch reset never falls.
LEMMA GuardAfterType ==
    ASSUME NEW guard \in SyncId, NEW kind, NEW id \in SyncId
    PROVE  /\ GuardAfter(guard, kind, id) \in SyncId
           /\ kind # "EpochReset" => GuardAfter(guard, kind, id) >= guard
BY DEF GuardAfter, MaxSyncId, SyncId

-----------------------------------------------------------------------------
\* Rows, as far as retention looks at them.
IsRows(rows) ==
    /\ IsFiniteSet(rows)
    /\ \A r \in rows : r.id \in SyncId

\* Every stage only removes.
LEMMA StagesRemove ==
    ASSUME NEW rows, NEW min, NEW perModel, NEW total
    PROVE  /\ LiveRows(rows, min) \subseteq rows
           /\ PrunePlanOf(rows, min, perModel, total).keep \subseteq rows
<1>1. LiveRows(rows, min) \subseteq rows
    BY DEF LiveRows, SquashRows
<1>2. CapRows(LiveRows(rows, min), perModel, total) \subseteq LiveRows(rows, min)
    BY DEF CapRows, NewestRows
<1> QED
    BY <1>1, <1>2 DEF PrunePlanOf

\* The floors a plan reports are positions or absent.
LEMMA PlanFloorType ==
    ASSUME NEW rows, IsRows(rows), NEW min, NEW perModel, NEW total
    PROVE  PrunePlanOf(rows, min, perModel, total).floor \in [Models -> OptionalSyncId]
<1> DEFINE live == LiveRows(rows, min)
           keep == CapRows(live, perModel, total)
           Capped(m) == {r.id : r \in {x \in live \ keep : RowModel(x) = m}}
<1>1. ASSUME NEW m \in Models, Capped(m) # {}
      PROVE  Max(Capped(m)) \in SyncId
    <2> DEFINE R == {x \in live \ keep : RowModel(x) = m}
    <2>1. R \subseteq rows
        BY StagesRemove
    <2>2. IsFiniteSet(R)
        BY <2>1, FS_Subset DEF IsRows
    <2>3. IsFiniteSet(Capped(m))
        BY <2>2, FiniteIds
    <2>4. Capped(m) \in SUBSET Nat
        BY <2>1 DEF IsRows, SyncId
    <2> HIDE DEF Capped
    <2> QED
        BY <1>1, <2>3, <2>4, MaxOfPositions DEF SyncId
<1> QED
    BY <1>1 DEF PrunePlanOf, OptionalSyncId

\* Retention loses nothing silently (prunePlan): the newest row of an entity, if it
\* lies above the minimum mark of a model that has one, is kept unless the model's
\* floor rises to it.
THEOREM PruneLosesNothingSilently ==
    ASSUME NEW rows, IsRows(rows), NEW min, NEW perModel, NEW total,
           NEW r \in rows, \A s \in rows : s.e = r.e => s.id <= r.id,
           RowModel(r) \in Models,
           min[RowModel(r)] # None, r.id > min[RowModel(r)]
    PROVE  LET plan == PrunePlanOf(rows, min, perModel, total)
           IN  r \in plan.keep \/ plan.floor[RowModel(r)] >= r.id
<1> DEFINE live == LiveRows(rows, min)
           keep == CapRows(live, perModel, total)
           R == {x \in live \ keep : RowModel(x) = RowModel(r)}
           capped == {x.id : x \in R}
<1>1. r \in live
    BY DEF LiveRows, SquashRows
<1>2. SUFFICES ASSUME r \notin keep
               PROVE  capped # {} /\ Max(capped) >= r.id
    BY DEF PrunePlanOf
<1>3. r.id \in capped
    BY <1>1, <1>2
<1>4. R \subseteq rows
    BY StagesRemove
<1>5. IsFiniteSet(R)
    BY <1>4, FS_Subset DEF IsRows
<1>6. IsFiniteSet(capped)
    BY <1>5, FiniteIds
<1>7. capped \in SUBSET Nat
    BY <1>4 DEF IsRows, SyncId
<1> HIDE DEF capped
<1> QED
    BY <1>3, <1>6, <1>7, MaxOfPositions

-----------------------------------------------------------------------------
(* The broker *)

\* The sets the broker takes a greatest element or the size of are finite.
Finite ==
    /\ IsFiniteSet(journal.log)
    /\ IsFiniteSet(wire.events)
    /\ IsFiniteSet(ingest.work.rows)

TypeInv == TypeOK /\ Finite

-----------------------------------------------------------------------------
(* Values and helpers *)

\* The values the code starts from (no mark, no row, an empty batch, a stopped fiber,
\* a detached subscriber, an empty journal) have the types of what they stand for.
LEMMA ConstantTypes ==
    /\ None \in OptionalSyncId /\ \A n \in Nat : n \in OptionalSyncId /\ n \in SyncId
    /\ \A n \in Nat : ControlRow(n) \in Row
    /\ NoItem \in Item
    /\ NoRows \in [Entities -> Nat]
    /\ NoMarks \in [Collections -> OptionalSyncId]
    /\ NoBatch \in Batch /\ NoWork \in Work
    /\ StoppedIngest \in IngestFiber
    /\ Detached \in Subscriber
    /\ EmptyJournal \in Journal
<1>1. /\ None \in OptionalSyncId /\ \A n \in Nat : n \in OptionalSyncId /\ n \in SyncId
    BY DEF OptionalSyncId, SyncId
<1>2. \A n \in Nat : ControlRow(n) \in Row
    BY DEF ControlRow, Row, SyncId
<1>3. NoItem \in Item
    BY <1>2 DEF NoItem, Item
<1>4. NoRows \in [Entities -> Nat] /\ NoMarks \in [Collections -> OptionalSyncId]
    BY <1>1 DEF NoRows, NoMarks, Absent
<1>5. NoBatch \in Batch /\ NoWork \in Work
    BY DEF NoBatch, Batch, NoWork, Work, SyncId
<1>6. NoPlan \in [rows : SUBSET Row, floor : [Models -> OptionalSyncId]]
    BY <1>1 DEF NoPlan
<1>7. StoppedIngest \in IngestFiber
    BY <1>5, <1>6 DEF StoppedIngest, IngestFiber
<1>8. <<>> \in Seq(Item)
    OBVIOUS
<1>9. Detached \in Subscriber
    BY <1>1, <1>3, <1>4, <1>8 DEF Detached, Subscriber, SyncId
<1>10. EmptyJournal \in Journal
    BY <1>1 DEF EmptyJournal, Journal
<1> QED
    BY <1>1, <1>2, <1>3, <1>4, <1>5, <1>7, <1>9, <1>10

\* Back on the stream the ingest fiber has no rows in hand.
LEMMA StreamingType ==
    ASSUME NEW n \in Nat
    PROVE  /\ Streaming(n) \in IngestFiber
           /\ Streaming(n).work.rows = {} /\ Streaming(n).pc = "stream"
BY ConstantTypes DEF Streaming, StoppedIngest, NoWork, IngestFiber

\* The first row in order of position.
LEMMA OldestRow ==
    ASSUME NEW rows \in SUBSET Row, rows # {}
    PROVE  Oldest(rows) \in rows /\ \A r \in rows : Oldest(rows).id <= r.id
<1> DEFINE ids == {r.id : r \in rows}
<1>1. ids \in SUBSET Nat /\ ids # {}
    BY DEF Row, SyncId
<1>2. PICK x \in ids : \A y \in ids : x <= y
    BY <1>1, LeastPosition
<1>3. \E r \in rows : \A s \in rows : r.id <= s.id
    BY <1>2
<1> QED
    BY <1>3 DEF Oldest

\* The entry that decides an entity (the server's row of it) has a home and a version.
LEMMA EntryAtType ==
    ASSUME log \in Seq(Entry), NEW e, NEW t \in 0 .. Len(log)
    PROVE  EntryAt(e, t).home \in Homes \cup {Gone} /\ EntryAt(e, t).w \in Nat
<1> DEFINE touching == {n \in 1..t : log[n].e = e}
<1>1. CASE touching = {}
    BY <1>1 DEF EntryAt
<1>2. CASE touching # {}
    <2>1. IsFiniteSet(1..t)
        BY FS_Interval
    <2>2. IsFiniteSet(touching)
        BY <2>1, FS_Subset
    <2>3. touching \in SUBSET Nat
        OBVIOUS
    <2> HIDE DEF touching
    <2>4. Max(touching) \in touching
        BY <1>2, <2>2, <2>3, MaxOfPositions
    <2>5. Max(touching) \in 1 .. Len(log)
        BY <2>4 DEF touching
    <2>6. log[Max(touching)] \in Entry
        BY <2>5
    <2>7. EntryAt(e, t) = log[Max(touching)]
        BY <1>2 DEF EntryAt, touching
    <2> QED
        BY <2>6, <2>7 DEF Entry
<1> QED
    BY <1>1, <1>2

\* What listFn returns is a table of row versions.
LEMMA TruthType ==
    ASSUME log \in Seq(Entry), NEW c \in Collections
    PROVE  Truth(c) \in [Entities -> Nat]
BY EntryAtType DEF Truth, RowAt, Absent

\* Squashing a range of the log yields finitely many rows, each at a position.
LEMMA ListedEventsType ==
    ASSUME log \in Seq(Entry), NEW from \in Nat
    PROVE  /\ ListedEvents(from, Len(log)) \in SUBSET Row
           /\ IsFiniteSet(ListedEvents(from, Len(log)))
<1> DEFINE head == Len(log)
           Listed == {x \in Entities : /\ Touched(x, from, head) # {}
                                       /\ FoldedTag(x, from, head) # "Drop"}
           f == [e \in Listed |->
                    [id |-> Max(Touched(e, from, head)), e |-> e, home |-> Gone, w |-> 0,
                     tag |-> IF FoldedTag(e, from, head) = "Delete" THEN "Delete" ELSE "Upsert"]]
<1>1. ListedEvents(from, head) = {f[e] : e \in Listed}
    BY DEF ListedEvents
<1>2. ASSUME NEW e \in Listed PROVE f[e] \in Row
    <2> DEFINE at == Touched(e, from, head)
    <2>1. head \in Int
        OBVIOUS
    <2>2. IsFiniteSet(from + 1 .. head)
        BY <2>1, FS_Interval
    <2>3. IsFiniteSet(at)
        BY <2>2, FS_Subset DEF Touched
    <2>4. at \in SUBSET Nat /\ at # {}
        BY <2>1 DEF Touched
    <2>5. Max(at) \in Nat
        BY <2>3, <2>4, MaxOfPositions
    <2> QED
        BY <2>5 DEF Row, SyncId
<1>3. IsFiniteSet(Listed)
    BY ConstantsOK, FS_Subset
<1> HIDE DEF f, Listed
<1>4. IsFiniteSet({f[e] : e \in Listed})
    BY <1>3, FiniteImage
<1> QED
    BY <1>1, <1>2, <1>4

\* Hydration turns listed rows into rows.
LEMMA HydratedType ==
    ASSUME log \in Seq(Entry), NEW rows \in SUBSET Row, IsFiniteSet(rows)
    PROVE  /\ {Hydrated(r) : r \in rows} \in SUBSET Row
           /\ IsFiniteSet({Hydrated(r) : r \in rows})
<1> DEFINE f == [r \in rows |-> Hydrated(r)]
<1>1. ASSUME NEW r \in rows PROVE Hydrated(r) \in Row
    <2>1. Len(log) \in 0 .. Len(log)
        OBVIOUS
    <2>2. EntryAt(r.e, Len(log)).home \in Homes \cup {Gone} /\ EntryAt(r.e, Len(log)).w \in Nat
        BY <2>1, EntryAtType
    <2> QED
        BY <2>2 DEF Hydrated, Row
<1>2. {Hydrated(r) : r \in rows} = {f[r] : r \in rows}
    OBVIOUS
<1> HIDE DEF f
<1>3. IsFiniteSet({f[r] : r \in rows})
    BY FiniteImage
<1> QED
    BY <1>1, <1>2, <1>3

\* What one commit leaves behind is a journal with finitely many rows.
LEMMA AppendRowsType ==
    ASSUME NEW j \in Journal, IsFiniteSet(j.log), NEW rows \in SUBSET Row, IsFiniteSet(rows)
    PROVE  AppendRows(j, rows) \in Journal /\ IsFiniteSet(AppendRows(j, rows).log)
<1>1. IsFiniteSet({r \in j.log : \A s \in rows : s.id # r.id})
    BY FS_Subset
<1>2. IsFiniteSet({r \in j.log : \A s \in rows : s.id # r.id} \cup rows)
    BY <1>1, FS_Union
<1> QED
    BY <1>2 DEF AppendRows, Journal

\* Advancing the cursor of a journal leaves a journal with the same rows.
LEMMA AdvanceCursorType ==
    ASSUME NEW j \in Journal, NEW at \in SyncId
    PROVE  AdvanceCursor(j, at) \in Journal /\ AdvanceCursor(j, at).log = j.log
BY AdvanceType DEF AdvanceCursor, Journal, OptionalSyncId

\* Flushing marks leaves a journal with the same rows.
LEMMA FoldMarksType ==
    ASSUME NEW j \in Journal, NEW marks \in [Collections -> OptionalSyncId]
    PROVE  FoldMarks(j, marks) \in Journal /\ FoldMarks(j, marks).log = j.log
<1>1. \A c \in Collections : marks[c] # None =>
          AdvanceSyncId(j.marks[c], marks[c]) \in OptionalSyncId
    BY AdvanceType DEF Journal, OptionalSyncId
<1> QED
    BY <1>1 DEF FoldMarks, Journal

\* A committed prune leaves a journal with finitely many rows.
LEMMA CommitPruneType ==
    ASSUME NEW j \in Journal, IsFiniteSet(j.log),
           NEW plan \in [rows : SUBSET Row, floor : [Models -> OptionalSyncId]]
    PROVE  CommitPrune(j, plan) \in Journal /\ IsFiniteSet(CommitPrune(j, plan).log)
<1>1. IsFiniteSet({r \in j.log : \A d \in plan.rows : d.id # r.id})
    BY FS_Subset
<1>2. \A m \in Models : MaxSyncId(j.floor[m], plan.floor[m]) \in OptionalSyncId
    BY AdvanceType DEF Journal
<1> QED
    BY <1>1, <1>2 DEF CommitPrune, Journal

\* A recovery's reset leaves a journal without rows.
LEMMA ResetType ==
    ASSUME NEW j \in Journal, NEW e \in Nat, NEW at \in SyncId
    PROVE  /\ ResetCoverage(j, at) \in Journal /\ IsFiniteSet(ResetCoverage(j, at).log)
           /\ ResetToEpoch(e, at) \in Journal /\ IsFiniteSet(ResetToEpoch(e, at).log)
BY ConstantTypes, FS_EmptySet
   DEF ResetCoverage, ResetToEpoch, EmptyJournal, Journal, OptionalSyncId, SyncId

\* An offered item lands in the queues of attached subscribers and nowhere else.
LEMMA PublishedType ==
    ASSUME sub \in [Collections -> Subscriber], generation \in Nat,
           NEW kind \in {"Event", "Resync", "EpochReset"}, NEW row \in Row
    PROVE  /\ Published(kind, row) \in [Collections -> Subscriber]
           /\ \A c \in Collections : Published(kind, row)[c].pc = sub[c].pc
<1>1. [kind |-> kind, row |-> row, gen |-> generation] \in Item
    BY DEF Item
<1>2. ASSUME NEW c \in Collections
      PROVE  [sub[c] EXCEPT !.queue =
                Append(@, [kind |-> kind, row |-> row, gen |-> generation])] \in Subscriber
    <2> DEFINE q == Append(sub[c].queue, [kind |-> kind, row |-> row, gen |-> generation])
    <2>1. sub[c] \in Subscriber /\ sub[c].queue \in Seq(Item)
        BY DEF Subscriber
    <2>2. q \in Seq(Item)
        BY <1>1, <2>1
    <2> HIDE DEF q
    <2>3. [sub[c] EXCEPT !.queue = q] \in Subscriber
        BY <2>1, <2>2 DEF Subscriber
    <2> QED
        BY <2>3 DEF q
<1> QED
    BY <1>2 DEF Published, Subscriber

-----------------------------------------------------------------------------
(* What the ingest fiber recovers from *)

\* A recovery in progress is a resync or an epoch reset, so what it tells the
\* subscribers is one of the two.
RecoveryWork == ingest.pc \in {"recover", "wipe", "tell"} => ingest.work.kind \in {"Resync", "EpochReset"}

\* Only accept starts a recovery, with a batch that calls for one, and nothing replaces
\* the work of a recovery before its fanout.
LEMMA RecoveryWorkStep ==
    ASSUME TypeOK, RecoveryWork, [Next]_vars
    PROVE  RecoveryWork'
<1>1. ASSUME UNCHANGED ingest PROVE RecoveryWork'
    BY <1>1 DEF RecoveryWork
<1>2. CASE Start
    BY <1>2 DEF Start, RecoveryWork, TypeOK, IngestFiber
<1>3. CASE Fail
    BY <1>3 DEF Fail, RecoveryWork, TypeOK, IngestFiber
<1>4. CASE Stop
    BY <1>4 DEF Stop, RecoveryWork, StoppedIngest
<1>5. CASE Crash
    BY <1>5 DEF Crash, RecoveryWork, StoppedIngest
<1>6. CASE Accept
    BY <1>6 DEF Accept, RecoveryWork, TypeOK, IngestFiber
<1>7. CASE AppendChunk \/ PublishRow \/ AdvanceIngested
    BY ZenonT(60), <1>7 DEF AppendChunk, PublishRow, AdvanceIngested, Streaming, StoppedIngest, RecoveryWork, TypeOK, IngestFiber
<1>8. CASE FlushBeforePrune \/ PruneRead \/ PruneCommit
    BY ZenonT(60), <1>8 DEF FlushBeforePrune, PruneRead, PruneCommit, Streaming, StoppedIngest, RecoveryWork, TypeOK, IngestFiber
<1>9. CASE Recover
    BY ZenonT(60), <1>9 DEF Recover, BeginRecovery, WipeJournal, TellRecovery, Streaming, StoppedIngest,
                RecoveryWork, TypeOK, IngestFiber
<1>10. CASE ServerWrites \/ Expire \/ Restore \/ Serve \/ TimedFlush
            \/ \E c \in Collections : Unmount(c) \/ Mount(c) \/ Attach(c) \/ Drain(c)
    BY ZenonT(60), <1>1, <1>10 DEF ServerWrites, Write, BulkChange, Expire, Restore, Serve, ServeList, ServeHydrate,
        TimedFlush, Unmount, Mount, Attach, ReadMark, ReadFloor, ReadJournal,
        Drain, TakeReplay, TakeTail, ListServer, Land, Ack
<1> QED
    BY <1>1, <1>2, <1>3, <1>4, <1>5, <1>6, <1>7, <1>8, <1>9, <1>10 DEF Next, Run, Disturb, vars

-----------------------------------------------------------------------------
(* Every step keeps the types *)

\* The application's writes and the server's retention and restore keep the types.
LEMMA ServerTypes ==
    ASSUME TypeInv,
           (\E e \in Entities, home \in Homes \cup {Gone} : Write(e, home) \/ BulkChange(e, home))
           \/ Expire \/ Restore
    PROVE  TypeInv'
<1>1. ASSUME NEW e \in Entities, NEW home \in Homes \cup {Gone}, Write(e, home)
      PROVE  TypeInv'
    <2>1. log' \in Seq(Entry) /\ writes' \in Nat
        BY <1>1 DEF TypeInv, TypeOK, Write, Entry
    <2> QED
        BY <1>1, <2>1 DEF TypeInv, TypeOK, Finite, Write
<1>2. ASSUME NEW e \in Entities, NEW home \in Homes \cup {Gone}, BulkChange(e, home)
      PROVE  TypeInv'
    <2>1. log' \in Seq(Entry) /\ writes' \in Nat
        BY <1>2 DEF TypeInv, TypeOK, BulkChange, Entry
    <2> QED
        BY <1>2, <2>1 DEF TypeInv, TypeOK, Finite, BulkChange
<1>3. CASE Expire
    BY <1>3 DEF TypeInv, TypeOK, Finite, Expire
<1>4. CASE Restore
    <2>1. PICK k \in 0 .. Len(log) - 1 :
              log' = SubSeq(log, 1, k) /\ retained' = IF retained > k THEN k ELSE retained
        BY <1>4 DEF Restore
    <2>2. log' \in Seq(Entry) /\ retained' \in Nat
        BY <2>1 DEF TypeInv, TypeOK
    <2> QED
        BY <1>4, <2>2 DEF TypeInv, TypeOK, Finite, Restore
<1> QED
    BY <1>1, <1>2, <1>3, <1>4

\* Serving a batch (sync-feed.ts) keeps the types.
LEMMA ServeTypes ==
    ASSUME TypeInv, Serve
    PROVE  TypeInv'
<1>1. CASE ServeList
    <2>1. OrZero(journal.cursor) \in Nat
        BY AdvanceType DEF TypeInv, TypeOK, Journal, SyncId
    <2>2. wire' \in Batch /\ IsFiniteSet(wire'.events)
        BY <1>1, <2>1, ListedEventsType, FS_EmptySet
           DEF ServeList, TypeInv, TypeOK, Batch, SyncId
    <2> QED
        BY <1>1, <2>2 DEF TypeInv, TypeOK, Finite, ServeList
<1>2. CASE ServeHydrate
    <2>1. wire' \in Batch /\ IsFiniteSet(wire'.events)
        <3>1. wire.events \in SUBSET Row
            BY DEF TypeInv, TypeOK, Batch
        <3>2. /\ {Hydrated(r) : r \in wire.events} \in SUBSET Row
              /\ IsFiniteSet({Hydrated(r) : r \in wire.events})
            BY <3>1, HydratedType DEF TypeInv, TypeOK, Finite
        <3> QED
            BY <1>2, <3>2, ConstantTypes, FS_EmptySet
               DEF ServeHydrate, TypeInv, TypeOK, Batch, NoBatch
    <2> QED
        BY <1>2, <2>1 DEF TypeInv, TypeOK, Finite, ServeHydrate
<1> QED
    BY <1>1, <1>2 DEF Serve

\* Accepting, journaling and publishing a batch (ingest.ts) keeps the types.
LEMMA IngestTypes ==
    ASSUME TypeInv, Start \/ Accept \/ AppendChunk \/ PublishRow \/ AdvanceIngested
    PROVE  TypeInv'
<1>1. CASE Start
    <2>1. ingest' \in IngestFiber /\ ingest'.work = ingest.work
        BY <1>1 DEF Start, TypeInv, TypeOK, IngestFiber
    <2> QED
        BY <1>1, <2>1 DEF TypeInv, TypeOK, Finite, Start
<1>2. CASE Accept
    <2> DEFINE fresh == {r \in wire.events : r.id > OrZero(journal.cursor)}
    <2>1. fresh \in SUBSET Row /\ IsFiniteSet(fresh)
        BY FS_Subset DEF TypeInv, TypeOK, Finite, Batch
    <2>2. Cardinality(fresh) \in Nat
        BY <2>1, FS_CardinalityType
    <2>3. wire.last \in SyncId /\ wire.epoch \in Nat
        BY DEF TypeInv, TypeOK, Batch
    <2> HIDE DEF fresh
    <2>4. /\ [kind |-> "Events", last |-> wire.last, epoch |-> wire.epoch,
                rows |-> fresh, count |-> Cardinality(fresh)] \in Work
          /\ \A kind \in {"EpochReset", "Resync"} :
                [kind |-> kind, last |-> wire.last, epoch |-> wire.epoch,
                 rows |-> {}, count |-> 0] \in Work
        BY <2>1, <2>2, <2>3 DEF Work
    <2>5. ingest' \in IngestFiber /\ ingest'.work.rows \in {{}, fresh}
        BY <1>2, <2>4 DEF Accept, TypeInv, TypeOK, IngestFiber, fresh
    <2>6. journal' \in Journal /\ journal'.log = journal.log
        <3>1. journal' = IF journal.epoch = None
                         THEN [journal EXCEPT !.epoch = wire.epoch] ELSE journal
            BY <1>2 DEF Accept
        <3>2. journal \in Journal /\ wire.epoch \in OptionalSyncId
            BY <2>3, ConstantTypes DEF TypeInv, TypeOK
        <3> QED
            BY <3>1, <3>2 DEF Journal
    <2>7. wire' = NoBatch /\ IsFiniteSet(wire'.events)
        BY <1>2, FS_EmptySet DEF Accept, NoBatch
    <2>8. IsFiniteSet(ingest'.work.rows)
        BY <2>1, <2>5, FS_EmptySet
    <2> QED
        BY <1>2, <2>5, <2>6, <2>7, <2>8, ConstantTypes DEF TypeInv, TypeOK, Finite, Accept
<1>3. CASE AppendChunk
    <2>1. ingest.work.rows \in SUBSET Row
        BY DEF TypeInv, TypeOK, IngestFiber, Work
    <2>2. journal' \in Journal /\ IsFiniteSet(journal'.log)
        BY <1>3, <2>1, AppendRowsType DEF AppendChunk, TypeInv, TypeOK, Finite
    <2>3. ingest' \in IngestFiber /\ ingest'.work = ingest.work
        BY <1>3 DEF AppendChunk, TypeInv, TypeOK, IngestFiber
    <2> QED
        BY <1>3, <2>2, <2>3 DEF TypeInv, TypeOK, Finite, AppendChunk
<1>4. CASE PublishRow
    <2>1. Oldest(ingest.work.rows) \in Row
        BY <1>4, OldestRow DEF PublishRow, TypeInv, TypeOK, IngestFiber, Work
    <2>2. sub' \in [Collections -> Subscriber]
        BY <1>4, <2>1, PublishedType DEF PublishRow, TypeInv, TypeOK
    <2>3. ingest' \in IngestFiber /\ ingest'.work.rows \subseteq ingest.work.rows
        BY <1>4 DEF PublishRow, TypeInv, TypeOK, IngestFiber, Work
    <2>4. IsFiniteSet(ingest'.work.rows)
        BY <2>3, FS_Subset DEF TypeInv, Finite
    <2> QED
        BY <1>4, <2>2, <2>3, <2>4 DEF TypeInv, TypeOK, Finite, PublishRow
<1>5. CASE AdvanceIngested
    <2>1. ingest.work.last \in SyncId /\ ingest.since + ingest.work.count \in Nat
        BY DEF TypeInv, TypeOK, IngestFiber, Work
    <2>2. journal' \in Journal /\ journal'.log = journal.log
        BY <1>5, <2>1, AdvanceCursorType DEF AdvanceIngested, TypeInv, TypeOK
    <2>3. ingest' \in IngestFiber /\ ingest'.work.rows \in {{}, ingest.work.rows}
        BY <1>5, <2>1, StreamingType
           DEF AdvanceIngested, TypeInv, TypeOK, IngestFiber
    <2>4. IsFiniteSet(ingest'.work.rows)
        BY <2>3, FS_EmptySet DEF TypeInv, Finite
    <2> QED
        BY <1>5, <2>2, <2>3, <2>4 DEF TypeInv, TypeOK, Finite, AdvanceIngested
<1> QED
    BY <1>1, <1>2, <1>3, <1>4, <1>5

\* Flushing marks and pruning the journal keep the types.
LEMMA PruneTypes ==
    ASSUME TypeInv, FlushBeforePrune \/ PruneRead \/ PruneCommit \/ TimedFlush
    PROVE  TypeInv'
<1>1. ASSUME FlushMarks
      PROVE  /\ journal' \in Journal /\ journal'.log = journal.log
             /\ pending' \in [Collections -> OptionalSyncId]
    BY <1>1, FoldMarksType, ConstantTypes DEF FlushMarks, TypeInv, TypeOK
<1>2. CASE FlushBeforePrune
    <2>1. ingest' \in IngestFiber /\ ingest'.work = ingest.work
        BY <1>2 DEF FlushBeforePrune, TypeInv, TypeOK, IngestFiber
    <2> QED
        BY <1>1, <1>2, <2>1 DEF FlushBeforePrune, TypeInv, TypeOK, Finite
<1>3. CASE TimedFlush
    BY <1>1, <1>3 DEF TimedFlush, TypeInv, TypeOK, Finite
<1>4. CASE PruneRead
    <2> DEFINE plan == PlanPrune(journal, MaxEventsPerModel, MaxEventsTotal)
    <2>1. IsRows(journal.log)
        BY DEF IsRows, TypeInv, TypeOK, Finite, Journal, Row
    <2>2. PrunePlanOf(journal.log, MinLastApplied(journal), MaxEventsPerModel,
                      MaxEventsTotal).floor \in [Models -> OptionalSyncId]
        BY <2>1, PlanFloorType
    <2>3. plan \in [rows : SUBSET Row, floor : [Models -> OptionalSyncId]]
        BY <2>2 DEF PlanPrune, TypeInv, TypeOK, Journal
    <2> HIDE DEF plan
    <2>4. ingest' = Streaming(0)
          \/ ingest' = [ingest EXCEPT !.pc = "commit", !.plan = plan]
        BY <1>4 DEF PruneRead, plan
    <2>5. ingest' \in IngestFiber /\ ingest'.work.rows \in {{}, ingest.work.rows}
        <3>1. CASE ingest' = Streaming(0)
            BY <3>1, StreamingType
        <3>2. CASE ingest' = [ingest EXCEPT !.pc = "commit", !.plan = plan]
            BY <2>3, <3>2 DEF TypeInv, TypeOK, IngestFiber
        <3> QED
            BY <2>4, <3>1, <3>2
    <2>6. IsFiniteSet(ingest'.work.rows)
        BY <2>5, FS_EmptySet DEF TypeInv, Finite
    <2> QED
        BY <1>4, <2>5, <2>6 DEF PruneRead, TypeInv, TypeOK, Finite
<1>5. CASE PruneCommit
    <2>1. ingest.plan \in [rows : SUBSET Row, floor : [Models -> OptionalSyncId]]
        BY DEF TypeInv, TypeOK, IngestFiber
    <2>2. journal' \in Journal /\ IsFiniteSet(journal'.log)
        BY <1>5, <2>1, CommitPruneType DEF PruneCommit, TypeInv, TypeOK, Finite
    <2>3. ingest' \in IngestFiber /\ ingest'.work.rows = {}
        BY <1>5, StreamingType DEF PruneCommit
    <2>4. IsFiniteSet(ingest'.work.rows)
        BY <2>3, FS_EmptySet
    <2> QED
        BY <1>5, <2>2, <2>3, <2>4 DEF PruneCommit, TypeInv, TypeOK, Finite
<1> QED
    BY <1>2, <1>3, <1>4, <1>5

\* Recovery (ingest.ts, sync-broker.ts) keeps the types.
LEMMA RecoverTypes ==
    ASSUME TypeInv, RecoveryWork, Recover
    PROVE  TypeInv'
<1>1. CASE BeginRecovery
    <2>1. ingest' \in IngestFiber /\ ingest'.work = ingest.work
        BY <1>1 DEF BeginRecovery, TypeInv, TypeOK, IngestFiber
    <2> QED
        BY <1>1, <2>1, ConstantTypes DEF BeginRecovery, TypeInv, TypeOK, Finite
<1>2. CASE WipeJournal
    <2>1. ingest' \in IngestFiber /\ ingest'.work = ingest.work
        BY <1>2 DEF WipeJournal, TypeInv, TypeOK, IngestFiber
    <2>2. ingest.work.last \in SyncId /\ ingest.work.epoch \in Nat
        BY DEF TypeInv, TypeOK, IngestFiber, Work
    <2>3. journal' \in Journal /\ IsFiniteSet(journal'.log)
        BY <1>2, <2>2, ResetType DEF WipeJournal, TypeInv, TypeOK
    <2> QED
        BY <1>2, <2>1, <2>3 DEF WipeJournal, TypeInv, TypeOK, Finite
<1>3. CASE TellRecovery
    <2>1. ingest.work.kind \in {"Resync", "EpochReset"} /\ ingest.work.last \in Nat
        BY <1>3 DEF TellRecovery, RecoveryWork, TypeInv, TypeOK, IngestFiber, Work, SyncId
    <2>2. sub' \in [Collections -> Subscriber]
        BY <1>3, <2>1, PublishedType, ConstantTypes DEF TellRecovery, TypeInv, TypeOK
    <2>3. ingest' \in IngestFiber /\ ingest'.work.rows = {}
        <3>1. CASE ingest.connected
            BY <1>3, <3>1, ConstantTypes DEF TellRecovery, TypeInv, TypeOK, IngestFiber, NoWork
        <3>2. CASE ~ingest.connected
            BY <1>3, <3>2, StreamingType DEF TellRecovery, TypeInv, TypeOK, IngestFiber
        <3> QED
            BY <3>1, <3>2
    <2>4. IsFiniteSet(ingest'.work.rows)
        BY <2>3, FS_EmptySet
    <2> QED
        BY <1>3, <2>2, <2>3, <2>4 DEF TellRecovery, TypeInv, TypeOK, Finite
<1> QED
    BY <1>1, <1>2, <1>3 DEF Recover

\* A lost connection, an interruption, a crash and an unmount keep the types.
LEMMA DisturbTypes ==
    ASSUME TypeInv, Disturb
    PROVE  TypeInv'
<1>1. IsFiniteSet(NoBatch.events) /\ IsFiniteSet(StoppedIngest.work.rows)
    BY FS_EmptySet DEF NoBatch, StoppedIngest, NoWork
<1>2. CASE Fail
    <2>1. ingest' \in IngestFiber /\ ingest'.work = ingest.work
        BY <1>2 DEF Fail, TypeInv, TypeOK, IngestFiber
    <2> QED
        BY <1>1, <1>2, <2>1, ConstantTypes DEF Fail, TypeInv, TypeOK, Finite
<1>3. CASE Stop
    <2>1. ingest' \in IngestFiber /\ ingest'.work = StoppedIngest.work
        BY <1>3, ConstantTypes DEF Stop, TypeInv, TypeOK, IngestFiber
    <2> QED
        BY <1>1, <1>3, <2>1, ConstantTypes DEF Stop, TypeInv, TypeOK, Finite
<1>4. CASE Crash
    <2>1. PICK written \in SUBSET {c \in Collections : pending[c] # None} :
              journal' = FoldMarks(journal, [c \in Collections |->
                                                IF c \in written THEN pending[c] ELSE None])
        BY <1>4 DEF Crash
    <2> DEFINE marks == [c \in Collections |-> IF c \in written THEN pending[c] ELSE None]
    <2>2. marks \in [Collections -> OptionalSyncId]
        BY ConstantTypes DEF TypeInv, TypeOK
    <2> HIDE DEF marks
    <2>3. journal' = FoldMarks(journal, marks)
        BY <2>1 DEF marks
    <2>4. journal' \in Journal /\ journal'.log = journal.log
        BY <2>2, <2>3, FoldMarksType DEF TypeInv, TypeOK
    <2> QED
        BY <1>1, <1>4, <2>4, ConstantTypes DEF Crash, AllDetached, TypeInv, TypeOK, Finite
<1>5. ASSUME NEW c \in Collections, Unmount(c) PROVE TypeInv'
    BY <1>5, ConstantTypes DEF Unmount, TypeInv, TypeOK, Finite
<1> QED
    BY <1>2, <1>3, <1>4, <1>5 DEF Disturb

\* Assembling a subscriber's stream (subscribe.ts) keeps the types; its tail guard is a
\* position whatever marks it read.
LEMMA AttachTypes ==
    ASSUME TypeInv, NEW c \in Collections, Mount(c) \/ Attach(c)
    PROVE  TypeInv'
<1> USE DEF TypeInv, TypeOK
<1>1. CASE Mount(c)
    <2>1. [Detached EXCEPT !.pc = "attach", !.gen = generation] \in Subscriber
        BY ConstantTypes DEF Subscriber
    <2> QED
        BY <1>1, <2>1 DEF Mount, Finite
<1>2. CASE ReadMark(c)
    <2> DEFINE mark == MaxSyncId(journal.marks[c], pending[c])
               s == [sub[c] EXCEPT !.pc = "floor", !.cursor = journal.cursor, !.mark = mark]
    <2>1. mark \in OptionalSyncId
        BY AdvanceType DEF Journal
    <2> HIDE DEF mark
    <2>4. sub[c] \in Subscriber /\ journal.cursor \in OptionalSyncId
        BY DEF Journal
    <2>2. s \in Subscriber
        BY ONLY <2>1, <2>4 DEF Subscriber
    <2>3. sub' = [sub EXCEPT ![c] = s]
        BY <1>2 DEF ReadMark, mark
    <2> HIDE DEF s
    <2> QED
        BY <1>2, <2>2, <2>3 DEF ReadMark, Finite
<1>3. CASE ReadFloor(c)
    <2> DEFINE s == [sub[c] EXCEPT !.pc = "read", !.floor = journal.floor[CollModel[c]]]
    <2>1. journal.floor[CollModel[c]] \in OptionalSyncId
        BY ConstantsOK DEF Journal
    <2>4. sub[c] \in Subscriber
        OBVIOUS
    <2>2. s \in Subscriber
        BY ONLY <2>1, <2>4 DEF Subscriber
    <2>3. sub' = [sub EXCEPT ![c] = s]
        BY <1>3 DEF ReadFloor
    <2> HIDE DEF s
    <2> QED
        BY <1>3, <2>2, <2>3 DEF ReadFloor, Finite
<1>4. CASE ReadJournal(c)
    <2> DEFINE s == sub[c]
               plan == PlanMount(s.mark, s.cursor, s.floor, journal.resync)
               rows == ReadRows(journal, CollModel[c], plan.since)
               ids == {r.id : r \in rows}
               guard == Max({plan.guard} \cup ids)
               snap == IF plan.decision = "Snapshot" THEN plan.since ELSE None
    <2>1. plan.since \in SyncId /\ plan.guard \in SyncId
        BY PlanMountType DEF Subscriber, Journal
    <2>2. rows \in SUBSET Row /\ IsFiniteSet(rows)
        <3>1. rows \subseteq journal.log
            BY DEF ReadRows
        <3> QED
            BY <3>1, FS_Subset DEF Finite, Journal
    <2>3. guard \in SyncId
        <3>1. IsFiniteSet(ids)
            BY <2>2, FiniteIds
        <3>2. IsFiniteSet({plan.guard} \cup ids)
            BY <3>1, FS_Singleton, FS_Union
        <3>3. {plan.guard} \cup ids \in SUBSET Nat
            BY <2>1, <2>2 DEF Row, SyncId
        <3> HIDE DEF ids
        <3> QED
            BY <3>2, <3>3, MaxOfPositions DEF SyncId
    <2>4. snap \in OptionalSyncId
        BY <2>1, ConstantTypes DEF SyncId
    <2>5. sub' = [sub EXCEPT ![c] =
              [s EXCEPT !.pc = "idle", !.mark = None, !.cursor = None, !.floor = None,
                        !.snap = snap, !.replay = rows, !.guard = guard]]
        BY <1>4 DEF ReadJournal
    <2> HIDE DEF rows, guard, snap
    <2>6. sub' \in [Collections -> Subscriber]
        BY ZenonT(60), <2>2, <2>3, <2>4, <2>5, ConstantTypes DEF Subscriber
    <2> QED
        BY <1>4, <2>6 DEF ReadJournal, Finite
<1> QED
    BY <1>1, <1>2, <1>3, <1>4 DEF Attach

\* Handling a signal keeps the subscriber's type.
LEMMA HandlingType ==
    ASSUME NEW s \in Subscriber, NEW item \in Item
    PROVE  Handling(s, item) \in Subscriber
BY DEF Handling, Subscriber

\* Handling a signal leaves a drain idle or puts it to work.
LEMMA HandlingPlace ==
    ASSUME NEW s \in Subscriber, s.pc = "idle", NEW item
    PROVE  Handling(s, item).pc \in {"idle", "land", "list"}
BY DEF Handling, Subscriber

\* Taking the next signal leaves the subscriber without it: it handles the signal,
\* or passes over one that is stale.
LEMMA SignalTaken ==
    ASSUME TypeOK, NEW c \in Collections, TakeReplay(c) \/ TakeTail(c)
    PROVE  \E s \in Subscriber, item \in Item :
              /\ s.pc = "idle"
              /\ sub' = [sub EXCEPT ![c] = s] \/ sub' = [sub EXCEPT ![c] = Handling(s, item)]
<1>1. sub[c] \in Subscriber
    BY DEF TypeOK
<1>2. CASE /\ TakeReplay(c) /\ sub[c].snap # None
           /\ sub' = [sub EXCEPT ![c] = Handling([sub[c] EXCEPT !.snap = None],
                 [kind |-> "Mount", row |-> ControlRow(sub[c].snap), gen |-> sub[c].gen])]
    <2> DEFINE s == [sub[c] EXCEPT !.snap = None]
               item == [kind |-> "Mount", row |-> ControlRow(sub[c].snap), gen |-> sub[c].gen]
    <2>1. sub[c].snap \in Nat
        BY <1>1, <1>2 DEF Subscriber, OptionalSyncId, SyncId
    <2>2. item \in Item
        BY <1>1, <2>1, ConstantTypes DEF Item, Subscriber
    <2>3. s \in Subscriber /\ s.pc = "idle"
        BY <1>1, <1>2, ConstantTypes DEF Subscriber, TakeReplay
    <2>4. sub' = [sub EXCEPT ![c] = Handling(s, item)]
        BY <1>2
    <2> HIDE DEF s, item
    <2> QED
        BY <2>2, <2>3, <2>4
<1>3. CASE /\ TakeReplay(c) /\ sub[c].replay # {}
           /\ sub' = [sub EXCEPT ![c] = Handling([sub[c] EXCEPT !.replay = @ \ {Oldest(@)}],
                 [kind |-> "Event", row |-> Oldest(sub[c].replay), gen |-> sub[c].gen])]
    <2> DEFINE s == [sub[c] EXCEPT !.replay = @ \ {Oldest(@)}]
               item == [kind |-> "Event", row |-> Oldest(sub[c].replay), gen |-> sub[c].gen]
    <2>1. Oldest(sub[c].replay) \in Row
        BY <1>1, <1>3, OldestRow DEF Subscriber
    <2>2. item \in Item
        BY <1>1, <2>1 DEF Item, Subscriber
    <2>3. s \in Subscriber /\ s.pc = "idle"
        BY <1>1, <1>3 DEF Subscriber, TakeReplay
    <2>4. sub' = [sub EXCEPT ![c] = Handling(s, item)]
        BY <1>3
    <2> HIDE DEF s, item
    <2> QED
        BY <2>2, <2>3, <2>4
<1>4. CASE TakeTail(c)
    <2> DEFINE item == Head(sub[c].queue)
               guard == GuardAfter(sub[c].guard, item.kind, item.row.id)
               s == [sub[c] EXCEPT !.queue = Tail(@), !.guard = guard]
    <2>1. sub[c].queue \in Seq(Item) /\ sub[c].queue # <<>>
        BY <1>1, <1>4 DEF TakeTail, Subscriber
    <2>2. item \in Item /\ Tail(sub[c].queue) \in Seq(Item)
        BY <2>1
    <2>3. guard \in SyncId
        BY <1>1, <2>2, GuardAfterType DEF Subscriber, Item, Row
    <2>4. sub' = [sub EXCEPT ![c] = s] \/ sub' = [sub EXCEPT ![c] = Handling(s, item)]
        BY <1>4 DEF TakeTail
    <2> HIDE DEF item, guard
    <2>5. s \in Subscriber /\ s.pc = "idle"
        BY <1>1, <1>4, <2>2, <2>3 DEF Subscriber, TakeTail
    <2> HIDE DEF s
    <2> QED
        BY <2>2, <2>4, <2>5
<1> QED
    BY <1>2, <1>3, <1>4 DEF TakeReplay

\* Draining a collection (collection-drain.ts) keeps the types.
LEMMA DrainTypes ==
    ASSUME TypeInv, NEW c \in Collections, Drain(c)
    PROVE  TypeInv'
<1> USE DEF TypeInv, TypeOK
<1>1. CASE TakeReplay(c) \/ TakeTail(c)
    <2>1. PICK s \in Subscriber, item \in Item :
              sub' = [sub EXCEPT ![c] = s] \/ sub' = [sub EXCEPT ![c] = Handling(s, item)]
        BY <1>1, SignalTaken
    <2>2. sub' \in [Collections -> Subscriber]
        BY <2>1, HandlingType
    <2> QED
        BY <1>1, <2>2 DEF TakeReplay, TakeTail, Finite
<1>3. CASE ListServer(c)
    <2> DEFINE listing == Truth(c)
               s == [sub[c] EXCEPT !.pc = "land", !.listing = listing]
    <2>1. listing \in [Entities -> Nat]
        BY TruthType
    <2> HIDE DEF listing
    <2>4. sub[c] \in Subscriber
        OBVIOUS
    <2>2. s \in Subscriber
        BY ONLY <2>1, <2>4 DEF Subscriber
    <2>3. sub' = [sub EXCEPT ![c] = s]
        BY <1>3 DEF ListServer, listing
    <2> HIDE DEF s
    <2> QED
        BY <1>3, <2>2, <2>3 DEF ListServer, Finite
<1>4. CASE Land(c)
    <2>1. Landed(c, sub[c]) \in [Entities -> Nat]
        BY DEF Landed, Absent, Subscriber, Item, Row
    <2> DEFINE s == [sub[c] EXCEPT !.pc = "ack", !.listing = NoRows]
    <2>3. sub[c] \in Subscriber /\ NoRows \in [Entities -> Nat]
        BY ConstantTypes
    <2>4. s \in Subscriber
        BY ONLY <2>3 DEF Subscriber
    <2>5. sub' = [sub EXCEPT ![c] = s]
        BY <1>4 DEF Land
    <2> HIDE DEF s
    <2>2. sub' \in [Collections -> Subscriber]
        BY <2>4, <2>5
    <2> QED
        BY <1>4, <2>1, <2>2 DEF Land, Commit, Finite
<1>5. CASE Ack(c)
    <2>1. sub[c].sig.row.id \in SyncId
        BY DEF Subscriber, Item, Row
    <2>2. AdvanceSyncId(pending[c], sub[c].sig.row.id) \in OptionalSyncId
        BY <2>1, AdvanceType DEF OptionalSyncId
    <2> DEFINE s == [sub[c] EXCEPT !.pc = "idle", !.sig = NoItem]
    <2>4. sub[c] \in Subscriber /\ NoItem \in Item
        BY ConstantTypes
    <2>5. s \in Subscriber
        BY ONLY <2>4 DEF Subscriber
    <2>6. sub' = [sub EXCEPT ![c] = s]
        BY <1>5 DEF Ack
    <2> HIDE DEF s
    <2>3. sub' \in [Collections -> Subscriber]
        BY <2>5, <2>6
    <2> QED
        BY <1>5, <2>2, <2>3 DEF Ack, Finite
<1> QED
    BY <1>1, <1>3, <1>4, <1>5 DEF Drain
-----------------------------------------------------------------------------
(* Type correctness *)

\* The journal's reset and the fanout need to know which recovery it is, so the
\* types and RecoveryWork are inductive together.
IInv == TypeInv /\ RecoveryWork

\* A fresh client and an empty server have the right types.
LEMMA InitIInv ==
    ASSUME Init
    PROVE  IInv
<1>1. <<>> \in Seq(Entry)
    OBVIOUS
<1>2. TypeOK
    BY <1>1, ConstantTypes DEF Init, TypeOK
<1>3. Finite
    BY FS_EmptySet DEF Init, Finite, EmptyJournal, NoBatch, StoppedIngest, NoWork
<1>4. RecoveryWork
    BY DEF Init, RecoveryWork, StoppedIngest
<1> QED
    BY <1>2, <1>3, <1>4 DEF IInv, TypeInv

\* Every step of the server, the client and their environment keeps them.
LEMMA NextIInv ==
    ASSUME IInv, [Next]_vars
    PROVE  IInv'
<1>1. RecoveryWork'
    BY RecoveryWorkStep DEF IInv, TypeInv
<1>2. TypeInv'
    <2> USE DEF IInv
    <2>1. CASE ServerWrites \/ Expire \/ Restore
        BY <2>1, ServerTypes DEF ServerWrites
    <2>2. CASE Serve
        BY <2>2, ServeTypes
    <2>3. CASE Start \/ Accept \/ AppendChunk \/ PublishRow \/ AdvanceIngested
        BY <2>3, IngestTypes
    <2>4. CASE FlushBeforePrune \/ PruneRead \/ PruneCommit \/ TimedFlush
        BY <2>4, PruneTypes
    <2>5. CASE Recover
        BY <2>5, RecoverTypes
    <2>6. CASE Disturb
        BY <2>6, DisturbTypes
    <2>7. ASSUME NEW c \in Collections, Mount(c) \/ Attach(c) PROVE TypeInv'
        BY <2>7, AttachTypes
    <2>8. ASSUME NEW c \in Collections, Drain(c) PROVE TypeInv'
        BY <2>8, DrainTypes
    <2>9. CASE UNCHANGED vars
        BY <2>9 DEF vars, TypeInv, TypeOK, Finite
    <2> QED
        BY <2>1, <2>2, <2>3, <2>4, <2>5, <2>6, <2>7, <2>8, <2>9 DEF Next, Run
<1> QED
    BY <1>1, <1>2 DEF IInv

\* Types and recovery work hold in every reachable state.
LEMMA Inductive == Spec => []IInv
<1>1. Init => IInv
    BY InitIInv
<1>2. IInv /\ [Next]_vars => IInv'
    BY NextIInv
<1> QED
    BY <1>1, <1>2, PTL DEF Spec

\* Whatever the server, the network and the page do, every variable of the broker
\* keeps its type: no absent mark is ever compared, stored or seeded into a guard as
\* if it were a position.
THEOREM TypeCorrect == Spec => []TypeOK
<1>1. IInv => TypeOK
    BY DEF IInv, TypeInv
<1> QED
    BY <1>1, Inductive, PTL

-----------------------------------------------------------------------------
(* The recovery gate *)

\* A step of the ingest fiber takes the gate on entering the gated part of a
\* recovery and gives it back on leaving it, and moves nobody else's section.
LEMMA IngestGate ==
    ASSUME TypeOK, RecoveryWork, gate = Ingest <=> ingest.pc \in {"wipe", "tell"},
           Start \/ Run \/ Fail \/ Stop
    PROVE  /\ gate' = Ingest <=> ingest'.pc \in {"wipe", "tell"}
           /\ \A c \in Collections : sub'[c].pc = sub[c].pc /\ (gate' = c <=> gate = c)
<1> USE ConstantsOK
<1>1. CASE Start \/ Fail
    BY ZenonT(60), <1>1 DEF Start, Fail, TypeOK, IngestFiber
<1>2. CASE Stop
    BY <1>2 DEF Stop, StoppedIngest, Free, Ingest
<1>3. CASE Accept \/ AppendChunk
    BY ZenonT(60), <1>3 DEF Accept, AppendChunk, TypeOK, IngestFiber
<1>4. CASE PublishRow
    <2>1. Oldest(ingest.work.rows) \in Row
        BY <1>4, OldestRow DEF PublishRow, TypeOK, IngestFiber, Work
    <2>2. \A c \in Collections : sub'[c].pc = sub[c].pc
        BY <1>4, <2>1, PublishedType DEF PublishRow, TypeOK
    <2> QED
        BY <1>4, <2>2 DEF PublishRow, TypeOK, IngestFiber
<1>5. CASE AdvanceIngested
    BY <1>5 DEF AdvanceIngested, Streaming, StoppedIngest, TypeOK, IngestFiber
<1>6. CASE FlushBeforePrune \/ PruneRead \/ PruneCommit
    BY ZenonT(60), <1>6 DEF FlushBeforePrune, FlushMarks, PruneRead, PruneCommit, Streaming, StoppedIngest,
                TypeOK, IngestFiber
<1>7. CASE BeginRecovery
    BY <1>7 DEF BeginRecovery, TypeOK, IngestFiber, Free, Ingest
<1>8. CASE WipeJournal
    BY <1>8 DEF WipeJournal, TypeOK, IngestFiber
<1>9. CASE TellRecovery
    <2>1. ControlRow(ingest.work.last) \in Row
        BY ConstantTypes DEF TypeOK, IngestFiber, Work, SyncId
    <2>2. ingest.work.kind \in {"Resync", "EpochReset"}
        BY <1>9 DEF TellRecovery, RecoveryWork
    <2>3. \A c \in Collections : sub'[c].pc = sub[c].pc
        BY <1>9, <2>1, <2>2, PublishedType DEF TellRecovery, TypeOK
    <2>4. ingest'.pc \in {"catchup", "stream"}
        BY <1>9 DEF TellRecovery, Streaming, StoppedIngest, TypeOK, IngestFiber
    <2>5. gate = Ingest /\ gate' = Free
        BY <1>9 DEF TellRecovery
    <2> QED
        BY <2>3, <2>4, <2>5 DEF Free, Ingest
<1> QED
    BY <1>1, <1>2, <1>3, <1>4, <1>5, <1>6, <1>7, <1>8, <1>9 DEF Run, Recover

\* A collection takes the gate as it subscribes to the fanout and holds it until its
\* journal slice is read; none of its later steps touches the gate, and no step of it
\* anybody else's section.
LEMMA CollectionGate ==
    ASSUME TypeOK, NEW c \in Collections, gate = c <=> Assembling(c),
           Mount(c) \/ Attach(c) \/ Drain(c) \/ Unmount(c)
    PROVE  /\ gate' = c <=> sub'[c].pc \in {"attach", "floor", "read"}
           /\ \A d \in Collections \ {c} : sub'[d] = sub[d]
           /\ \A d \in (Collections \cup {Ingest}) \ {c} : gate' = d <=> gate = d
           /\ UNCHANGED ingest
<1> USE ConstantsOK DEF Assembling
<1>2. CASE Mount(c)
    BY <1>2 DEF Mount, Detached, TypeOK, Free, Ingest
<1>3. CASE ReadMark(c)
    <2>1. sub'[c].pc = "floor" /\ \A d \in Collections \ {c} : sub'[d] = sub[d]
        BY <1>3 DEF ReadMark, TypeOK, Subscriber
    <2> QED
        BY <1>3, <2>1 DEF ReadMark
<1>4. CASE ReadFloor(c)
    <2>1. sub'[c].pc = "read" /\ \A d \in Collections \ {c} : sub'[d] = sub[d]
        BY <1>4 DEF ReadFloor, TypeOK, Subscriber
    <2> QED
        BY <1>4, <2>1 DEF ReadFloor
<1>5. CASE ReadJournal(c)
    <2>1. sub'[c].pc = "idle" /\ \A d \in Collections \ {c} : sub'[d] = sub[d]
        BY <1>5 DEF ReadJournal, TypeOK, Subscriber
    <2>2. gate = c /\ gate' = Free
        BY <1>5 DEF ReadJournal
    <2> QED
        BY <1>5, <2>1, <2>2 DEF ReadJournal, Free, Ingest
<1>6. CASE Drain(c)
    <2>1. /\ sub'[c].pc \notin {"attach", "floor", "read"}
          /\ \A d \in Collections \ {c} : sub'[d] = sub[d]
        <3>1. CASE TakeReplay(c) \/ TakeTail(c)
            <4>1. PICK s \in Subscriber, item \in Item :
                    /\ s.pc = "idle"
                    /\ sub' = [sub EXCEPT ![c] = s] \/ sub' = [sub EXCEPT ![c] = Handling(s, item)]
                BY <3>1, SignalTaken
            <4>2. Handling(s, item).pc \in {"idle", "land", "list"}
                BY <4>1, HandlingPlace
            <4> QED
                BY <4>1, <4>2 DEF TypeOK
        <3>3. CASE ListServer(c)
            BY <3>3 DEF ListServer, TypeOK, Subscriber
        <3>4. CASE Land(c)
            BY <3>4 DEF Land, TypeOK, Subscriber
        <3>5. CASE Ack(c)
            BY <3>5 DEF Ack, TypeOK, Subscriber
        <3> QED
            BY <1>6, <3>1, <3>3, <3>4, <3>5 DEF Drain
    <2>2. sub[c].pc \notin {"attach", "floor", "read"} /\ UNCHANGED <<ingest, gate>>
        BY <1>6 DEF Drain, TakeReplay, TakeTail, ListServer, Land, Ack
    <2> QED
        BY <2>1, <2>2
<1>7. CASE Unmount(c)
    BY <1>7 DEF Unmount, Detached, TypeOK, Free, Ingest
<1> QED
    BY <1>2, <1>3, <1>4, <1>5, <1>6, <1>7 DEF Attach

\* Every step leaves the gate with exactly the fiber inside a gated section.
LEMMA NextGateHeld ==
    ASSUME IInv, GateHeld, [Next]_vars
    PROVE  GateHeld'
<1>1. ASSUME UNCHANGED <<ingest, gate, sub>> PROVE GateHeld'
    BY <1>1 DEF GateHeld
<1>2. CASE ServerWrites \/ Expire \/ Restore \/ Serve \/ TimedFlush \/ UNCHANGED vars
    BY <1>1, <1>2 DEF ServerWrites, Write, BulkChange, Expire, Restore, Serve, ServeList,
                      ServeHydrate, TimedFlush, vars
<1>3. CASE Start \/ Run \/ Fail \/ Stop
    BY <1>3, IngestGate DEF IInv, TypeInv, GateHeld
<1>4. CASE Crash
    BY <1>4, ConstantsOK DEF Crash, AllDetached, GateHeld, StoppedIngest, Detached, Free, Ingest
<1>5. ASSUME NEW c \in Collections, Mount(c) \/ Attach(c) \/ Drain(c) \/ Unmount(c)
      PROVE  GateHeld'
    BY <1>5, CollectionGate, ConstantsOK DEF IInv, TypeInv, GateHeld, Assembling
<1> QED
    BY <1>2, <1>3, <1>4, <1>5 DEF Next, Disturb

\* The recovery gate (sync-broker.ts) excludes: it is held by the ingest fiber
\* exactly while it wipes the journal and tells the subscribers, and by a collection
\* exactly while it assembles its stream, across interruptions, unmounts and crashes.
THEOREM GateExclusive == Spec => []GateHeld
<1>1. Init => GateHeld
    BY ConstantsOK DEF Init, GateHeld, StoppedIngest, Detached, Free, Ingest
<1>2. IInv /\ GateHeld /\ [Next]_vars => GateHeld'
    BY NextGateHeld
<1> QED
    BY <1>1, <1>2, Inductive, PTL DEF Spec

-----------------------------------------------------------------------------
(* What the gate protects *)

\* While somebody holds the gate no mark is acked or flushed, and only the ingest
\* fiber of a recovery may touch the marks on record.
LEMMA NextNoMark ==
    ASSUME IInv, gate = Ingest <=> ingest.pc \in {"wipe", "tell"}, NoMarkAcrossRecovery, [Next]_vars
    PROVE  NoMarkAcrossRecovery'
<1> USE ConstantsOK DEF NoMarkAcrossRecovery, IInv, TypeInv
<1>1. ASSUME UNCHANGED <<journal, ingest, pending>> PROVE NoMarkAcrossRecovery'
    BY SMTT(40), <1>1
<1>2. CASE ServerWrites \/ Expire \/ Restore \/ Serve \/ UNCHANGED vars
           \/ \E c \in Collections : Mount(c) \/ Attach(c) \/ Unmount(c)
    BY <1>1, <1>2 DEF ServerWrites, Write, BulkChange, Expire, Restore, Serve, ServeList,
           ServeHydrate, vars, Mount, Attach, ReadMark, ReadFloor, ReadJournal, Unmount
<1>3. ASSUME ingest'.pc \notin {"wipe", "tell"} PROVE NoMarkAcrossRecovery'
    BY <1>3
<1>4. CASE Start \/ Fail \/ Stop \/ Crash
    <2>1. CASE Start \/ Fail
        BY ZenonT(60), <1>3, <2>1 DEF Start, Fail, TypeOK, IngestFiber
    <2>2. CASE Stop
        <3>1. ingest'.pc = "stopped"
            BY <2>2 DEF Stop, StoppedIngest
        <3> QED
            BY <1>3, <3>1
    <2>3. CASE Crash
        <3>1. ingest'.pc = "stopped"
            BY <2>3 DEF Crash, StoppedIngest
        <3> QED
            BY <1>3, <3>1
    <2> QED
        BY <1>4, <2>1, <2>2, <2>3
<1>5. CASE Accept \/ AppendChunk \/ PublishRow \/ AdvanceIngested
    <2>1. ingest'.pc \in {"recover", "append", "publish", "stream", "flush"}
        BY ZenonT(60), <1>5 DEF Accept, AppendChunk, PublishRow, AdvanceIngested, Streaming, StoppedIngest,
                     TypeOK, IngestFiber
    <2> QED
        BY <1>3, <2>1
<1>6. CASE FlushBeforePrune \/ PruneRead \/ PruneCommit
    BY ZenonT(60), <1>6 DEF FlushBeforePrune, PruneRead, PruneCommit, Streaming, StoppedIngest,
                TypeOK, IngestFiber
<1>7. CASE BeginRecovery
    BY <1>7 DEF BeginRecovery, TypeOK, IngestFiber
<1>8. CASE WipeJournal
    <2>1. pending' = NoMarks
        BY <1>8 DEF WipeJournal
    <2>2. journal'.marks = NoMarks
        BY <1>8 DEF WipeJournal, ResetToEpoch, ResetCoverage, EmptyJournal, NoMarks
    <2> QED
        BY <2>1, <2>2
<1>9. CASE TellRecovery
    BY <1>9 DEF TellRecovery, Streaming, StoppedIngest, TypeOK, IngestFiber
<1>10. CASE TimedFlush
    BY <1>10 DEF TimedFlush, FlushMarks, Free, Ingest
<1>11. ASSUME NEW c \in Collections, Drain(c) PROVE NoMarkAcrossRecovery'
    <2>1. CASE TakeReplay(c) \/ TakeTail(c) \/ ListServer(c) \/ Land(c)
        BY <1>1, <2>1 DEF TakeReplay, TakeTail, ListServer, Land
    <2>2. CASE Ack(c)
        BY <2>2 DEF Ack, Free, Ingest
    <2> QED
        BY <1>11, <2>1, <2>2 DEF Drain
<1> QED
    BY <1>2, <1>4, <1>5, <1>6, <1>7, <1>8, <1>9, <1>10, <1>11 DEF Next, Run, Recover, Disturb

\* No last-applied mark survives a recovery (ingest.ts, sync-broker.ts): between the
\* change of generation and the fanout none is pending, and after the journal's reset
\* none is on record, so a mount after it cannot trust rows from before it.
THEOREM MarksDieInRecovery == Spec => []NoMarkAcrossRecovery
<1>1. Init => NoMarkAcrossRecovery
    BY DEF Init, NoMarkAcrossRecovery, StoppedIngest
<1>2. IInv /\ GateHeld /\ NoMarkAcrossRecovery /\ [Next]_vars => NoMarkAcrossRecovery'
    BY NextNoMark DEF GateHeld
<1> QED
    BY <1>1, <1>2, Inductive, GateExclusive, PTL DEF Spec

\* One step of anybody else, seen by a collection that holds the gate.
LEMMA StepAtomic ==
    ASSUME IInv, GateHeld, Next, NEW c \in Collections, Assembling(c), Assembling(c)'
    PROVE  UNCHANGED <<generation, pending, journal.marks, journal.resync>>
<1>1. gate = c /\ gate # Free /\ gate # Ingest
    BY ConstantsOK DEF GateHeld, Assembling
<1>2. ingest.pc \notin {"wipe", "tell"}
    BY <1>1 DEF GateHeld
<1>3. journal \in Journal
    BY DEF IInv, TypeInv, TypeOK
<1>4. CASE UNCHANGED <<journal, pending, generation>>
    BY SMTT(40), <1>4
<1>5. CASE ServerWrites \/ Expire \/ Restore \/ Serve \/ Start \/ Fail \/ Stop
           \/ \E d \in Collections : Mount(d) \/ Attach(d) \/ Unmount(d)
    BY ZenonT(60), <1>4, <1>5 DEF ServerWrites, Write, BulkChange, Expire, Restore, Serve, ServeList,
           ServeHydrate, Start, Fail, Stop, Mount, Attach, ReadMark, ReadFloor, ReadJournal, Unmount
<1>6. CASE Crash
    BY <1>6 DEF Crash, AllDetached, Assembling, Detached
<1>7. CASE Accept
    BY <1>3, <1>7 DEF Accept, Journal
<1>8. CASE AppendChunk \/ PublishRow \/ AdvanceIngested
    BY <1>3, <1>8 DEF AppendChunk, PublishRow, AdvanceIngested, AppendRows, AdvanceCursor, Journal
<1>9. CASE PruneRead \/ PruneCommit
    BY <1>3, <1>9 DEF PruneRead, PruneCommit, CommitPrune, Journal
<1>10. CASE FlushBeforePrune \/ TimedFlush \/ Recover
    BY <1>1, <1>2, <1>10 DEF FlushBeforePrune, TimedFlush, FlushMarks, Recover, BeginRecovery,
                             WipeJournal, TellRecovery
<1>11. ASSUME NEW d \in Collections, Drain(d)
       PROVE  UNCHANGED <<generation, pending, journal.marks, journal.resync>>
    BY <1>1, <1>11 DEF Drain, TakeReplay, TakeTail, ListServer, Land, Ack
<1> QED
    BY <1>5, <1>6, <1>7, <1>8, <1>9, <1>10, <1>11 DEF Next, Run, Disturb

\* The several reads a mount makes (subscribe.ts) see one generation, one set of
\* pending and recorded marks and one last resync, although each is its own await and
\* the ingest fiber appends, advances and prunes between them.
THEOREM MountSeesOneState == Spec => MountAtomic
<1> DEFINE Kept == \A c \in Collections : Assembling(c) /\ Assembling(c)' =>
                      UNCHANGED <<generation, pending, journal.marks, journal.resync>>
<1>1. IInv /\ GateHeld /\ [Next]_vars => [Kept]_vars
    BY StepAtomic
<1> QED
    BY <1>1, Inductive, GateExclusive, PTL DEF Spec, MountAtomic

-----------------------------------------------------------------------------
(* A partial collection: its types and its share of the gate *)

\* The gate's holders, the ingest fiber, the collection's own attachment and, by
\* PartialTypeOK, the loads; a subset has no drain.
PartialGate ==
    /\ gate = Ingest <=> ingest.pc \in {"wipe", "tell"}
    /\ gate = Partial <=> Assembling(Partial)
    /\ \A s \in Subsets : sub[s].pc = "off"

PartialInv == IInv /\ PartialTypeOK /\ PartialGate

\* The subsets are the collections but for the partial one, and no subset's key is the
\* collection's or a name for the free gate.
LEMMA SubsetsAreCollections ==
    ASSUME PartialOK
    PROVE  /\ Partial \in Collections /\ Subsets \subseteq Collections /\ Partial \notin Subsets
           /\ Partial \notin {Free, Ingest} /\ \A s \in Subsets : s \notin {Free, Ingest, Partial}
           /\ Collections = Subsets \cup {Partial}
BY ConstantsOK DEF PartialOK, Subsets

CoverageState == [gen : Nat, marks : [Subsets -> OptionalSyncId]]

\* The coverage a fresh instance has, the newer or the sum of two coverages, and coverage
\* moved on or cut down are coverages.
LEMMA CoverageTypes ==
    /\ EmptyCoverage \in CoverageState
    /\ \A a, b \in CoverageState : MergeCoverage(a, b) \in CoverageState
    /\ \A cov \in CoverageState, at \in SyncId : \A subsets : Advanced(cov, subsets, at) \in CoverageState
    /\ \A cov \in CoverageState, gen \in Nat : \A at : KeptCoverage(cov, gen, at) \in CoverageState
    /\ \A cov \in CoverageState, gen \in Nat : [EmptyCoverage EXCEPT !.gen = gen] \in CoverageState
<1>1. None \in OptionalSyncId /\ \A n \in SyncId : n \in OptionalSyncId
    BY DEF OptionalSyncId
<1>2. EmptyCoverage \in CoverageState /\ \A gen \in Nat : [EmptyCoverage EXCEPT !.gen = gen] \in CoverageState
    BY <1>1 DEF EmptyCoverage, CoverageState
<1>3. ASSUME NEW a \in CoverageState, NEW b \in CoverageState PROVE MergeCoverage(a, b) \in CoverageState
    <2>1. \A s \in Subsets : MaxSyncId(a.marks[s], b.marks[s]) \in OptionalSyncId
        BY AdvanceType DEF CoverageState
    <2> QED
        BY <2>1 DEF MergeCoverage, CoverageState
<1>4. ASSUME NEW cov \in CoverageState, NEW at \in SyncId, NEW subsets
      PROVE  Advanced(cov, subsets, at) \in CoverageState
    <2>1. \A s \in Subsets : AdvanceSyncId(cov.marks[s], at) \in OptionalSyncId
        BY <1>1, AdvanceType DEF CoverageState
    <2> QED
        BY <2>1 DEF Advanced, CoverageState
<1>5. ASSUME NEW cov \in CoverageState, NEW gen \in Nat, NEW at PROVE KeptCoverage(cov, gen, at) \in CoverageState
    BY <1>1 DEF KeptCoverage, CoverageState
<1> QED
    BY <1>2, <1>3, <1>4, <1>5

\* The row an application or a slice leaves is the old one, the new one or none.
LEMMA AppliedRowTypes ==
    /\ \A cov, r : \A old \in Nat : r.w \in Nat => AppliedRow(cov, old, r) \in Nat
    /\ \A cov, reset, s, at : \A old, new \in Nat : SliceRow(cov, reset, s, at, old, new) \in Nat
<1>1. Absent \in Nat
    BY DEF Absent
<1>2. ASSUME NEW cov, NEW r, NEW old \in Nat, r.w \in Nat PROVE AppliedRow(cov, old, r) \in Nat
    <2>1. AppliedRow(cov, old, r) \in {old, r.w, Absent}
        BY DEF AppliedRow
    <2> QED
        BY <1>1, <1>2, <2>1
<1>3. ASSUME NEW cov, NEW reset, NEW s, NEW at, NEW old \in Nat, NEW new \in Nat
      PROVE  SliceRow(cov, reset, s, at, old, new) \in Nat
    <2>1. SliceRow(cov, reset, s, at, old, new) \in {old, new, Absent}
        BY DEF SliceRow
    <2> QED
        BY <1>1, <2>1
<1> QED
    BY <1>2, <1>3

\* An ensure that has not begun is a load.
LEMMA NoLoadType == NoLoad \in Load
BY ConstantTypes DEF NoLoad, Load, SyncId

\* A fresh client has a partial collection that is not mounted and has nothing loaded.
LEMMA PInitInv ==
    ASSUME PartialOK, PInit
    PROVE  PartialInv
<1>1. Init /\ IInv
    BY InitIInv DEF PInit
<1>2. versions \in Seq(Homes \cup {Gone}) /\ Len(versions) = writes
    BY DEF PInit, Init
<1>3. load \in [Subsets -> Load] /\ \A s \in Subsets : load[s].pc = "off"
    BY NoLoadType DEF PInit, NoLoad
<1>4. coverage \in CoverageState /\ covered \subseteq Subsets /\ loaded \subseteq Subsets
    BY CoverageTypes DEF PInit
<1>5. gate = Free /\ ingest.pc = "stopped" /\ \A c \in Collections : sub[c].pc = "off"
    BY DEF PInit, Init, StoppedIngest, Detached
<1>6. PartialTypeOK
    BY <1>2, <1>3, <1>4, <1>5, SubsetsAreCollections DEF PartialTypeOK, CoverageState
<1>7. PartialGate
    BY <1>5, SubsetsAreCollections DEF PartialGate, Assembling, Free, Ingest
<1> QED
    BY <1>1, <1>6, <1>7 DEF PartialInv

\* A step of the collection's own drain or of its attachment moves nobody else's section.
LEMMA OwnStepKeepsGate ==
    ASSUME PartialOK, PartialInv, Mount(Partial) \/ Attach(Partial) \/ Drain(Partial) \/ Unmount(Partial),
           UNCHANGED load
    PROVE  PartialGate' /\ \A s \in Subsets : gate' = s <=> load'[s].pc \in {"read", "apply"}
<1>1. TypeOK /\ (gate = Partial <=> Assembling(Partial))
    BY DEF PartialInv, IInv, TypeInv, PartialGate
<1>2. /\ gate' = Partial <=> sub'[Partial].pc \in {"attach", "floor", "read"}
      /\ \A d \in Collections \ {Partial} : sub'[d] = sub[d]
      /\ \A d \in (Collections \cup {Ingest}) \ {Partial} : gate' = d <=> gate = d
      /\ UNCHANGED ingest
    BY <1>1, SubsetsAreCollections, CollectionGate
<1>3. gate' = Ingest <=> ingest'.pc \in {"wipe", "tell"}
    BY <1>2, SubsetsAreCollections DEF PartialInv, PartialGate
<1>4. ASSUME NEW s \in Subsets
      PROVE  sub'[s].pc = "off" /\ (gate' = s <=> load'[s].pc \in {"read", "apply"})
    <2>1. s \in Collections \ {Partial}
        BY SubsetsAreCollections
    <2>2. sub'[s] = sub[s] /\ (gate' = s <=> gate = s)
        BY <1>2, <2>1
    <2> QED
        BY <2>2 DEF PartialInv, PartialTypeOK, PartialGate
<1> QED
    BY <1>2, <1>3, <1>4 DEF PartialGate, Assembling

\* A step of the broker that is none of the collection's moves nobody else's section.
LEMMA BrokerKeepsGate ==
    ASSUME PartialOK, PartialInv, UNCHANGED load,
           \/ Start \/ Run \/ Fail \/ Stop
           \/ UNCHANGED <<ingest, gate, sub>>
    PROVE  PartialGate' /\ \A s \in Subsets : gate' = s <=> load'[s].pc \in {"read", "apply"}
<1>1. CASE UNCHANGED <<ingest, gate, sub>>
    BY <1>1 DEF PartialInv, PartialTypeOK, PartialGate, Assembling
<1>2. CASE Start \/ Run \/ Fail \/ Stop
    <2>1. /\ gate' = Ingest <=> ingest'.pc \in {"wipe", "tell"}
          /\ \A c \in Collections : sub'[c].pc = sub[c].pc /\ (gate' = c <=> gate = c)
        BY <1>2, IngestGate DEF PartialInv, IInv, TypeInv, PartialGate
    <2> QED
        BY <2>1, SubsetsAreCollections DEF PartialInv, PartialTypeOK, PartialGate, Assembling
<1> QED
    BY <1>1, <1>2

\* An own step of the ensure of s: a load takes the gate on entering the reads that need it
\* and gives it back on leaving them.
LEMMA LoadMoves ==
    ASSUME PartialOK, PartialInv, NEW s \in Subsets, NEW next \in Load, load' = [load EXCEPT ![s] = next],
           UNCHANGED <<ingest, sub>>,
           \/ UNCHANGED gate /\ (next.pc \in {"read", "apply"} <=> load[s].pc \in {"read", "apply"})
           \/ gate = Free /\ gate' = s /\ next.pc \in {"read", "apply"}
           \/ gate = s /\ gate' = Free /\ next.pc \notin {"read", "apply"}
    PROVE  /\ PartialGate' /\ load' \in [Subsets -> Load]
           /\ \A x \in Subsets : gate' = x <=> load'[x].pc \in {"read", "apply"}
<1>1. load \in [Subsets -> Load] /\ \A x \in Subsets : gate = x <=> load[x].pc \in {"read", "apply"}
    BY DEF PartialInv, PartialTypeOK
<1>2. load' \in [Subsets -> Load] /\ load'[s] = next /\ \A x \in Subsets : x # s => load'[x] = load[x]
    BY <1>1
<1>3. \A x \in Subsets : gate' = x <=> load'[x].pc \in {"read", "apply"}
    BY <1>1, <1>2, SubsetsAreCollections
<1>4. gate' \in {Ingest, Partial} \/ gate \in {Ingest, Partial} => gate' = gate
    BY SubsetsAreCollections DEF Free, Ingest
<1>5. PartialGate'
    BY <1>4 DEF PartialInv, PartialGate, Assembling
<1> QED
    BY <1>2, <1>3, <1>5

\* A step that touches, of the broker, nothing keeps the broker's types.
LEMMA SameBroker ==
    ASSUME IInv, UNCHANGED vars
    PROVE  IInv'
BY NextIInv

\* A commit of rows that have the right type leaves tables that do.
LEMMA CommitType ==
    ASSUME NEW c \in Collections, NEW rows \in [Entities -> Nat], Commit(c, rows),
           store \in [Collections -> [Entities -> Nat]], disk \in [Collections -> [Entities -> Nat]]
    PROVE  store' \in [Collections -> [Entities -> Nat]] /\ disk' \in [Collections -> [Entities -> Nat]]
BY DEF Commit

\* A step that changes, of the broker, no more than tables, marks, the gate and what the
\* collection's drain holds keeps the broker's types.
LEMMA TablesChange ==
    ASSUME IInv, UNCHANGED <<log, writes, epoch, retained, wire, journal, ingest, generation>>,
           store' \in [Collections -> [Entities -> Nat]], disk' \in [Collections -> [Entities -> Nat]],
           pending' \in [Collections -> OptionalSyncId],
           gate' \in Collections \cup {Free, Ingest},
           sub' \in [Collections -> Subscriber]
    PROVE  IInv'
BY DEF IInv, TypeInv, TypeOK, Finite, RecoveryWork

\* The steps of an ensure that plan it and fetch its slice (ensureSubset, hydrateBatch)
\* make a load of it that does not hold the gate.
LEMMA PlanningTypes ==
    ASSUME PartialOK, PartialInv, NEW s \in Subsets,
           \/ EnsureSubset(s) \/ PlanCursor(s) \/ PlanFloor(s) \/ Plan(s)
           \/ ServeStamp(s) \/ ServeMembers(s) \/ LoadFails(s) \/ CheckEpoch(s)
    PROVE  \E next \in Load : /\ load' = [load EXCEPT ![s] = next]
                              /\ next.pc \notin {"read", "apply"} /\ load[s].pc \notin {"read", "apply"}
<1>1. load[s] \in Load /\ NoLoad \in Load /\ NoLoad.pc = "off" /\ CollModel[s] \in Models /\ s \in Collections
    BY NoLoadType, SubsetsAreCollections, ConstantsOK DEF PartialInv, PartialTypeOK, NoLoad
<1>2. /\ generation \in Nat /\ epoch \in Nat /\ log \in Seq(Entry) /\ Len(log) \in Nat
      /\ journal.cursor \in OptionalSyncId /\ journal.marks[s] \in OptionalSyncId
      /\ journal.floor[CollModel[s]] \in OptionalSyncId /\ journal.resync \in OptionalSyncId
      /\ pending[s] \in OptionalSyncId
    BY <1>1 DEF PartialInv, IInv, TypeInv, TypeOK, Journal
<1>3. ASSUME NEW next \in Load, next.pc \notin {"read", "apply"},
             NEW from \in {"off", "cursor", "floor", "ask", "fetch", "answer"}, LoadStep(s, from, next)
      PROVE  \E n \in Load : /\ load' = [load EXCEPT ![s] = n]
                             /\ n.pc \notin {"read", "apply"} /\ load[s].pc \notin {"read", "apply"}
    BY <1>3 DEF LoadStep, At
<1>4. CASE EnsureSubset(s)
    <2> DEFINE next == [NoLoad EXCEPT !.pc = "cursor", !.gen = generation, !.mark = journal.marks[s]]
    <2>1. next \in Load /\ next.pc = "cursor"
        BY ONLY <1>1, <1>2 DEF Load
    <2>2. LoadStep(s, "off", next)
        BY <1>4 DEF EnsureSubset
    <2> QED
        BY <1>3, <2>1, <2>2
<1>5. CASE PlanCursor(s)
    <2> DEFINE mark == MaxSyncId(load[s].mark, pending[s])
               next == [load[s] EXCEPT !.pc = "floor", !.mark = mark, !.cursor = journal.cursor]
    <2>1. mark \in OptionalSyncId
        BY <1>1, <1>2, AdvanceType DEF Load
    <2>2. LoadStep(s, "cursor", next)
        BY <1>5, <1>1 DEF PlanCursor, Load
    <2> HIDE DEF mark
    <2>3. next \in Load /\ next.pc = "floor"
        BY ONLY <1>1, <1>2, <2>1 DEF Load
    <2> QED
        BY <1>3, <2>2, <2>3
<1>6. CASE PlanFloor(s)
    <2> DEFINE next == [load[s] EXCEPT !.pc = "plan", !.floor = journal.floor[CollModel[s]]]
    <2>1. next \in Load /\ next.pc = "plan"
        BY ONLY <1>1, <1>2 DEF Load
    <2>2. LoadStep(s, "floor", next)
        BY <1>6 DEF PlanFloor
    <2> QED
        BY <1>3, <2>1, <2>2
<1>7. CASE Plan(s)
    <2> DEFINE l == load[s]
               plan == PlanMount(l.mark, l.cursor, l.floor, journal.resync)
               step == IF plan.decision = "Replay" THEN "replay" ELSE "ask"
               next == [NoLoad EXCEPT !.gen = l.gen, !.pc = step, !.since = plan.since, !.through = plan.guard]
    <2>1. plan.since \in SyncId /\ plan.guard \in SyncId
        BY <1>1, <1>2, PlanMountType DEF Load
    <2>2. load' = [load EXCEPT ![s] = NoLoad] \/ load' = [load EXCEPT ![s] = next]
        BY <1>7 DEF Plan
    <2>3. l.pc = "plan"
        BY <1>7 DEF Plan, At
    <2> HIDE DEF plan
    <2>4. next \in Load /\ next.pc \in {"replay", "ask"}
        BY ONLY <1>1, <2>1 DEF Load
    <2> QED
        BY <1>1, <2>2, <2>3, <2>4
<1>8. CASE ServeStamp(s)
    <2> DEFINE next == [NoLoad EXCEPT !.pc = "fetch", !.gen = load[s].gen, !.since = Len(log),
                                      !.through = Len(log), !.epoch = epoch]
    <2>1. next \in Load /\ next.pc = "fetch"
        BY ONLY <1>1, <1>2 DEF Load, SyncId
    <2>2. LoadStep(s, "ask", next)
        BY <1>8 DEF ServeStamp
    <2> QED
        BY <1>3, <2>1, <2>2
<1>9. CASE ServeMembers(s)
    <2> DEFINE members == [e \in Entities |->
                   LET now == EntryAt(e, Len(log))
                   IN  IF now.home \in SubsetHomes[s] THEN now.w ELSE Absent]
               again == [NoLoad EXCEPT !.pc = "ask", !.gen = load[s].gen]
               next == [load[s] EXCEPT !.pc = "answer", !.members = members]
    <2>1. members \in [Entities -> Nat]
        BY <1>2, EntryAtType DEF Absent
    <2>2. LoadStep(s, "fetch", again) \/ LoadStep(s, "fetch", next)
        BY <1>9 DEF ServeMembers
    <2> HIDE DEF members
    <2>3. next \in Load /\ next.pc = "answer"
        BY ONLY <1>1, <2>1 DEF Load
    <2>4. again \in Load /\ again.pc = "ask"
        BY ONLY <1>1 DEF Load
    <2> QED
        BY <1>3, <2>2, <2>3, <2>4
<1>10. CASE LoadFails(s)
    BY <1>1, <1>3, <1>10 DEF LoadFails
<1>11. CASE CheckEpoch(s)
    <2> DEFINE next == [load[s] EXCEPT !.pc = "land"]
    <2>1. next \in Load /\ next.pc = "land"
        BY ONLY <1>1 DEF Load
    <2>2. LoadStep(s, "answer", NoLoad) \/ LoadStep(s, "answer", next)
        BY <1>11 DEF CheckEpoch
    <2> QED
        BY <1>1, <1>3, <2>1, <2>2
<1> QED
    BY <1>4, <1>5, <1>6, <1>7, <1>8, <1>9, <1>10, <1>11

\* The reads, the landing and the replay of an ensure (replaceSlice, replayFrom) make a
\* load of it, and rows and coverage of what they write.
LEMMA LandingTypes ==
    ASSUME PartialOK, PartialInv, NEW s \in Subsets,
           \/ BeginReplay(s) \/ ReplaceSlice(s) \/ ReadSlice(s) \/ ReplayRow(s) \/ FinishLoad(s)
    PROVE  /\ \E next \in Load :
                  /\ load' = [load EXCEPT ![s] = next]
                  /\ \/ UNCHANGED gate /\ (next.pc \in {"read", "apply"} <=> load[s].pc \in {"read", "apply"})
                     \/ gate = Free /\ gate' = s /\ next.pc \in {"read", "apply"}
                     \/ gate = s /\ gate' = Free /\ next.pc \notin {"read", "apply"}
           /\ store' \in [Collections -> [Entities -> Nat]] /\ disk' \in [Collections -> [Entities -> Nat]]
           /\ coverage' \in CoverageState
           /\ pending' \in [Collections -> OptionalSyncId] /\ loaded' \subseteq Subsets
           /\ UNCHANGED <<log, writes, epoch, retained, wire, journal, ingest, generation, sub,
                          versions, covered>>
<1>1. load[s] \in Load /\ NoLoad \in Load /\ NoLoad.pc = "off" /\ s \in Collections
      /\ (gate = s <=> load[s].pc \in {"read", "apply"})
    BY NoLoadType, SubsetsAreCollections DEF PartialInv, PartialTypeOK, NoLoad
<1>2. /\ store \in [Collections -> [Entities -> Nat]] /\ disk \in [Collections -> [Entities -> Nat]]
      /\ coverage \in CoverageState
      /\ pending \in [Collections -> OptionalSyncId] /\ loaded \subseteq Subsets
      /\ Partial \in Collections
    BY SubsetsAreCollections DEF PartialInv, IInv, TypeInv, TypeOK, PartialTypeOK, CoverageState
<1>3. CASE BeginReplay(s)
    <2> DEFINE next == [load[s] EXCEPT !.pc = "read"]
    <2>1. next \in Load /\ next.pc = "read"
        BY ONLY <1>1 DEF Load
    <2>2. load[s].pc = "replay"
        BY <1>3 DEF BeginReplay, At
    <2>3. \/ gate = Free /\ gate' = s /\ load' = [load EXCEPT ![s] = next]
          \/ gate' = gate /\ load' = [load EXCEPT ![s] = NoLoad]
        BY <1>3 DEF BeginReplay, GateOrFail
    <2>4. UNCHANGED <<store, disk, coverage, pending, loaded>>
          /\ UNCHANGED <<log, writes, epoch, retained, wire, journal, ingest, generation, sub,
                         versions, covered>>
        BY <1>3 DEF BeginReplay
    <2> HIDE DEF next
    <2> QED
        BY <1>1, <1>2, <2>1, <2>2, <2>3, <2>4
<1>4. CASE ReplaceSlice(s)
    <2> DEFINE l == load[s]
               reset == l.gen > coverage.gen
               state == IF reset THEN [EmptyCoverage EXCEPT !.gen = l.gen] ELSE coverage
               table == [e \in Entities |-> SliceRow(state, reset, s, l.since, store[Partial][e], l.members[e])]
               next == [l EXCEPT !.pc = "read", !.members = NoRows]
    <2>1. next \in Load /\ next.pc = "read"
        BY ONLY <1>1, ConstantTypes DEF Load
    <2>2. load[s].pc = "land"
        BY <1>4 DEF ReplaceSlice, At
    <2>3. \/ gate = Free /\ gate' = s /\ load' = [load EXCEPT ![s] = next]
          \/ gate' = gate /\ load' = [load EXCEPT ![s] = NoLoad]
        BY <1>4 DEF ReplaceSlice, GateOrFail
    <2>4. l.gen \in Nat /\ l.since \in SyncId /\ l.members \in [Entities -> Nat]
        BY <1>1 DEF Load
    <2>5. state \in CoverageState
        BY <1>2, <2>4, CoverageTypes
    <2>6. \/ UNCHANGED <<store, disk, coverage>>
          \/ Commit(Partial, table) /\ coverage' = Advanced(state, {s}, l.since)
        BY <1>2, <1>4 DEF ReplaceSlice
    <2>7. table \in [Entities -> Nat]
        BY <1>2, <2>4, AppliedRowTypes
    <2>8. UNCHANGED <<pending, loaded>>
          /\ UNCHANGED <<log, writes, epoch, retained, wire, journal, ingest, generation, sub,
                         versions, covered>>
        BY <1>4 DEF ReplaceSlice
    <2> HIDE DEF next, table, state, reset
    <2>9. coverage' \in CoverageState
        <3>1. Advanced(state, {s}, l.since) \in CoverageState
            BY <2>4, <2>5, CoverageTypes
        <3> QED
            BY <1>2, <2>6, <3>1
    <2>10. store' \in [Collections -> [Entities -> Nat]] /\ disk' \in [Collections -> [Entities -> Nat]]
        BY <1>2, <2>6, <2>7, CommitType
    <2> QED
        BY <1>1, <1>2, <2>1, <2>2, <2>3, <2>8, <2>9, <2>10
<1>5. CASE ReadSlice(s)
    <2> DEFINE rows == ReadRows(journal, CollModel[s], load[s].since)
               ids == {r.id : r \in rows}
               through == Max({load[s].through} \cup ids)
               next == [load[s] EXCEPT !.pc = "apply", !.rows = rows, !.through = through]
    <2>1. rows \in SUBSET Row /\ IsFiniteSet(rows)
        <3>1. rows \subseteq journal.log
            BY DEF ReadRows
        <3> QED
            BY <3>1, FS_Subset DEF PartialInv, IInv, TypeInv, TypeOK, Finite, Journal
    <2>2. through \in SyncId
        <3>1. IsFiniteSet(ids)
            BY <2>1, FiniteIds
        <3>2. IsFiniteSet({load[s].through} \cup ids)
            BY <3>1, FS_Singleton, FS_Union
        <3>3. {load[s].through} \cup ids \in SUBSET Nat
            BY <1>1, <2>1 DEF Row, SyncId, Load
        <3> HIDE DEF ids
        <3> QED
            BY <3>2, <3>3, MaxOfPositions DEF SyncId
    <2>3. load[s].pc = "read" /\ load' = [load EXCEPT ![s] = next]
          /\ UNCHANGED <<store, disk, coverage, pending, loaded, gate>>
          /\ UNCHANGED <<log, writes, epoch, retained, wire, journal, ingest, generation, sub,
                         versions, covered>>
        BY <1>1, <1>5 DEF ReadSlice, LoadStep, At, Load
    <2> HIDE DEF rows, through
    <2>4. next \in Load /\ next.pc = "apply"
        BY ONLY <1>1, <2>1, <2>2 DEF Load
    <2> HIDE DEF next
    <2> QED
        BY <1>2, <2>3, <2>4
<1>6. CASE ReplayRow(s)
    <2> DEFINE r == Oldest(load[s].rows)
               rows == load[s].rows \ {r}
               next == [load[s] EXCEPT !.rows = rows]
               row == AppliedRow(coverage, store[Partial][r.e], r)
    <2>1. load[s].rows \in SUBSET Row /\ load[s].rows # {} /\ load[s].pc = "apply"
        BY <1>1, <1>6 DEF ReplayRow, At, Load
    <2>2. r \in Row
        BY <2>1, OldestRow
    <2>3. load' = [load EXCEPT ![s] = next] /\ coverage' = Advanced(coverage, {s}, r.id)
          /\ Commit(Partial, [store[Partial] EXCEPT ![r.e] = AppliedRow(coverage, @, r)])
          /\ UNCHANGED <<pending, loaded, gate>>
          /\ UNCHANGED <<log, writes, epoch, retained, wire, journal, ingest, generation, sub,
                         versions, covered>>
        BY <1>1, <1>6 DEF ReplayRow, Load
    <2>4. next \in Load /\ next.pc = "apply"
        BY <1>1, <2>1 DEF Load
    <2>5. coverage' \in CoverageState
        BY <1>2, <2>2, <2>3, CoverageTypes DEF Row
    <2>6. store' \in [Collections -> [Entities -> Nat]] /\ disk' \in [Collections -> [Entities -> Nat]]
        <3>1. r.e \in Entities => row \in Nat
            BY <1>2, <2>2, AppliedRowTypes DEF Row
        <3>2. store[Partial] \in [Entities -> Nat]
              /\ Commit(Partial, [store[Partial] EXCEPT ![r.e] = row])
            BY <1>2, <2>3
        <3> HIDE DEF row, r
        <3>3. [store[Partial] EXCEPT ![r.e] = row] \in [Entities -> Nat]
            BY <3>1, <3>2
        <3> QED
            BY <1>2, <3>2, <3>3, CommitType
    <2> HIDE DEF next, r
    <2> QED
        BY <1>2, <2>1, <2>3, <2>4, <2>5, <2>6
<1>7. CASE FinishLoad(s)
    <2>1. AdvanceSyncId(pending[s], load[s].through) \in OptionalSyncId
        BY <1>1, <1>2, AdvanceType DEF Load, OptionalSyncId
    <2>2. load[s].pc = "apply" /\ gate' = Free /\ load' = [load EXCEPT ![s] = NoLoad]
          /\ pending' = [pending EXCEPT ![s] = AdvanceSyncId(@, load[s].through)]
          /\ loaded' = loaded \cup {s} /\ UNCHANGED <<store, disk, coverage>>
          /\ UNCHANGED <<log, writes, epoch, retained, wire, journal, ingest, generation, sub,
                         versions, covered>>
        BY <1>7 DEF FinishLoad, At
    <2> QED
        BY <1>1, <1>2, <2>1, <2>2
<1> QED
    BY <1>3, <1>4, <1>5, <1>6, <1>7

\* Every step of an ensure keeps the types and the gate with whoever is inside.
LEMMA LoadSubsetInv ==
    ASSUME PartialOK, PartialInv, NEW s \in Subsets, LoadSubset(s)
    PROVE  PartialInv'
<1>1. CASE \/ EnsureSubset(s) \/ PlanCursor(s) \/ PlanFloor(s) \/ Plan(s)
           \/ ServeStamp(s) \/ ServeMembers(s) \/ LoadFails(s) \/ CheckEpoch(s)
    <2>1. PICK next \in Load : /\ load' = [load EXCEPT ![s] = next]
                               /\ next.pc \notin {"read", "apply"} /\ load[s].pc \notin {"read", "apply"}
        BY <1>1, PlanningTypes
    <2>2. UNCHANGED <<vars, versions, coverage, covered>> /\ loaded' \subseteq loaded \cup {s}
        BY <1>1 DEF EnsureSubset, PlanCursor, PlanFloor, Plan, ServeStamp, ServeMembers, LoadFails,
                    CheckEpoch, LoadStep, vars
    <2>3. UNCHANGED <<ingest, sub, gate, writes>>
        BY <2>2 DEF vars
    <2>4. /\ PartialGate' /\ load' \in [Subsets -> Load]
          /\ \A x \in Subsets : gate' = x <=> load'[x].pc \in {"read", "apply"}
        BY <2>1, <2>3, LoadMoves
    <2>5. IInv'
        BY <2>2, SameBroker DEF PartialInv
    <2> QED
        BY <2>2, <2>3, <2>4, <2>5 DEF PartialInv, PartialTypeOK
<1>2. CASE \/ BeginReplay(s) \/ ReplaceSlice(s) \/ ReadSlice(s) \/ ReplayRow(s) \/ FinishLoad(s)
    <2>1. PICK next \in Load :
              /\ load' = [load EXCEPT ![s] = next]
              /\ \/ UNCHANGED gate /\ (next.pc \in {"read", "apply"} <=> load[s].pc \in {"read", "apply"})
                 \/ gate = Free /\ gate' = s /\ next.pc \in {"read", "apply"}
                 \/ gate = s /\ gate' = Free /\ next.pc \notin {"read", "apply"}
        BY <1>2, LandingTypes
    <2>2. /\ store' \in [Collections -> [Entities -> Nat]] /\ disk' \in [Collections -> [Entities -> Nat]]
          /\ coverage' \in CoverageState
          /\ pending' \in [Collections -> OptionalSyncId] /\ loaded' \subseteq Subsets
          /\ UNCHANGED <<log, writes, epoch, retained, wire, journal, ingest, generation, sub,
                         versions, covered>>
        BY <1>2, LandingTypes
    <2>3. /\ PartialGate' /\ load' \in [Subsets -> Load]
          /\ \A x \in Subsets : gate' = x <=> load'[x].pc \in {"read", "apply"}
        BY <2>1, <2>2, LoadMoves
    <2>4. gate' \in Collections \cup {Free, Ingest}
        BY <2>1, SubsetsAreCollections DEF PartialInv, PartialTypeOK
    <2>5. sub' \in [Collections -> Subscriber]
        BY <2>2 DEF PartialInv, IInv, TypeInv, TypeOK
    <2>6. IInv'
        BY <2>2, <2>4, <2>5, TablesChange DEF PartialInv
    <2> QED
        BY <2>2, <2>3, <2>4, <2>6 DEF PartialInv, PartialTypeOK, CoverageState
<1> QED
    BY <1>1, <1>2 DEF LoadSubset

\* Applying a signal and acking it (partial-coverage.ts) keep the types and the gate.
LEMMA ApplierInv ==
    ASSUME PartialOK, PartialInv, RestoreSubsets \/ ApplySignal \/ ApplySnapshot \/ AckSubsets
    PROVE  PartialInv'
<1>1. /\ Partial \in Collections /\ sub \in [Collections -> Subscriber] /\ sub[Partial] \in Subscriber
      /\ store \in [Collections -> [Entities -> Nat]] /\ store[Partial] \in [Entities -> Nat]
      /\ disk \in [Collections -> [Entities -> Nat]]
      /\ pending \in [Collections -> OptionalSyncId] /\ generation \in Nat /\ journal \in Journal
      /\ coverage \in CoverageState /\ covered \subseteq Subsets /\ IInv
      /\ gate \in Collections \cup {Free, Ingest}
    BY SubsetsAreCollections DEF PartialInv, IInv, TypeInv, TypeOK, PartialTypeOK, CoverageState
<1>2. sub[Partial].sig \in Item
    BY <1>1 DEF Subscriber
<1>3. sub[Partial].sig.row \in Row /\ sub[Partial].sig.gen \in Nat
    BY <1>2 DEF Item
<1>4. ASSUME IInv', PartialGate', \A s \in Subsets : gate' = s <=> load'[s].pc \in {"read", "apply"},
             UNCHANGED <<versions, writes, load, loaded>>,
             coverage' \in CoverageState, covered' \subseteq Subsets
      PROVE  PartialInv'
    <2>1. gate' \in Collections \cup {Free, Ingest}
        BY <1>4 DEF IInv, TypeInv, TypeOK
    <2> QED
        BY <1>4, <2>1 DEF PartialInv, PartialTypeOK, CoverageState
<1>5. CASE RestoreSubsets
    <2> DEFINE seed == [gen |-> generation, marks |-> [s \in Subsets |-> journal.marks[s]]]
    <2>1. seed \in CoverageState
        BY <1>1, SubsetsAreCollections DEF CoverageState, Journal
    <2>2. coverage' = MergeCoverage(coverage, seed)
        BY <1>5 DEF RestoreSubsets
    <2> HIDE DEF seed
    <2>3. coverage' \in CoverageState
        BY <1>1, <2>1, <2>2, CoverageTypes
    <2>4. Attach(Partial) /\ UNCHANGED <<versions, writes, load, loaded, covered>>
        BY <1>5 DEF RestoreSubsets, Attach, ReadMark
    <2>5. IInv'
        BY <1>1, <2>4, NextIInv DEF Next
    <2>6. PartialGate' /\ \A s \in Subsets : gate' = s <=> load'[s].pc \in {"read", "apply"}
        BY <2>4, OwnStepKeepsGate
    <2> QED
        BY <1>1, <1>4, <2>3, <2>4, <2>5, <2>6
<1>6. ASSUME NEW s \in Subscriber, sub' = [sub EXCEPT ![Partial] = s],
             sub[Partial].pc \notin {"attach", "floor", "read"}, s.pc \notin {"attach", "floor", "read"},
             UNCHANGED <<log, writes, epoch, retained, wire, journal, ingest, generation, gate,
                         versions, load, loaded>>,
             store' \in [Collections -> [Entities -> Nat]], disk' \in [Collections -> [Entities -> Nat]],
             pending' \in [Collections -> OptionalSyncId],
             coverage' \in CoverageState, covered' \subseteq Subsets
      PROVE  PartialInv'
    <2>1. sub' \in [Collections -> Subscriber]
        BY <1>1, <1>6
    <2>2. IInv'
        BY <1>1, <1>6, <2>1, TablesChange
    <2>3. sub'[Partial] = s /\ \A x \in Subsets : sub'[x] = sub[x]
        BY <1>1, <1>6, SubsetsAreCollections
    <2>4. PartialGate'
        BY <1>6, <2>3 DEF PartialInv, PartialGate, Assembling
    <2>5. \A x \in Subsets : gate' = x <=> load'[x].pc \in {"read", "apply"}
        BY <1>6 DEF PartialInv, PartialTypeOK
    <2> QED
        BY <1>4, <1>6, <2>2, <2>4, <2>5
<1>7. CASE ApplySignal
    <2> DEFINE r == sub[Partial].sig.row
               row == AppliedRow(coverage, store[Partial][r.e], r)
               s == [sub[Partial] EXCEPT !.pc = "ack"]
    <2>1. s \in Subscriber /\ s.pc = "ack"
        BY ONLY <1>1 DEF Subscriber
    <2>2. sub[Partial].pc = "land" /\ sub' = [sub EXCEPT ![Partial] = s]
          /\ UNCHANGED <<log, writes, epoch, retained, wire, journal, ingest, generation, gate,
                         versions, load, loaded, pending>>
        BY <1>7 DEF ApplySignal
    <2>3. Commit(Partial, [store[Partial] EXCEPT ![r.e] = row])
          /\ covered' = CoveredSubsets(coverage) /\ coverage' = Advanced(coverage, covered', r.id)
        BY <1>1, <1>7 DEF ApplySignal
    <2>4. r.e \in Entities => row \in Nat
        BY <1>1, <1>3, AppliedRowTypes DEF Row
    <2>5. coverage' \in CoverageState /\ covered' \subseteq Subsets
        BY <1>1, <1>3, <2>3, CoverageTypes DEF Row, CoveredSubsets
    <2> HIDE DEF row, r, s
    <2>6. [store[Partial] EXCEPT ![r.e] = row] \in [Entities -> Nat]
        BY <1>1, <2>4
    <2>7. store' \in [Collections -> [Entities -> Nat]] /\ disk' \in [Collections -> [Entities -> Nat]]
        BY <1>1, <2>3, <2>6, CommitType
    <2> QED
        BY <1>1, <1>6, <2>1, <2>2, <2>5, <2>7
<1>8. CASE ApplySnapshot
    <2> DEFINE kept == KeptCoverage(coverage, sub[Partial].sig.gen, sub[Partial].sig.row.id)
               table == [e \in Entities |->
                   IF CoveringMarks(kept, HomeOf(store[Partial][e])) # {} THEN store[Partial][e] ELSE Absent]
               s == [sub[Partial] EXCEPT !.pc = "ack"]
    <2>1. s \in Subscriber /\ s.pc = "ack"
        BY ONLY <1>1 DEF Subscriber
    <2>2. sub[Partial].pc = "list" /\ sub' = [sub EXCEPT ![Partial] = s] /\ covered' = {}
          /\ UNCHANGED <<log, writes, epoch, retained, wire, journal, ingest, generation, gate,
                         versions, load, loaded, pending>>
        BY <1>8 DEF ApplySnapshot
    <2>3. \/ UNCHANGED <<store, disk, coverage>>
          \/ coverage' = kept /\ Commit(Partial, table)
        BY <1>1, <1>8 DEF ApplySnapshot
    <2>4. kept \in CoverageState
        BY <1>1, <1>3, CoverageTypes
    <2>5. table \in [Entities -> Nat]
        BY <1>1 DEF Absent
    <2> HIDE DEF kept, table, s
    <2>6. /\ store' \in [Collections -> [Entities -> Nat]] /\ disk' \in [Collections -> [Entities -> Nat]]
          /\ coverage' \in CoverageState
        BY <1>1, <2>3, <2>4, <2>5, CommitType
    <2> QED
        BY <1>1, <1>6, <2>1, <2>2, <2>6
<1>9. CASE AckSubsets
    <2> DEFINE at == sub[Partial].sig.row.id
               s == [sub[Partial] EXCEPT !.pc = "idle", !.sig = NoItem]
    <2>1. s \in Subscriber /\ s.pc = "idle"
        BY ONLY <1>1, ConstantTypes DEF Subscriber
    <2>2. sub[Partial].pc = "ack" /\ sub' = [sub EXCEPT ![Partial] = s] /\ covered' = {}
          /\ UNCHANGED <<log, writes, epoch, retained, wire, journal, ingest, generation, gate,
                         versions, load, loaded, store, disk, coverage>>
        BY <1>9 DEF AckSubsets
    <2>3. \/ pending' = pending
          \/ pending' = [c \in Collections |->
                 IF c \in covered \cup {Partial} THEN AdvanceSyncId(pending[c], at) ELSE pending[c]]
        BY <1>9 DEF AckSubsets
    <2>4. \A c \in Collections : AdvanceSyncId(pending[c], at) \in OptionalSyncId
        BY <1>1, <1>3, AdvanceType DEF Row, OptionalSyncId
    <2> HIDE DEF at, s
    <2>5. pending' \in [Collections -> OptionalSyncId]
        BY <1>1, <2>3, <2>4
    <2> QED
        BY <1>1, <1>6, <2>1, <2>2, <2>5
<1> QED
    BY <1>5, <1>7, <1>8, <1>9

\* The steps of the broker and its server keep them, the writes with the home of the new
\* row version, an unmount and a reload with nothing loaded.
LEMMA BrokerInv ==
    ASSUME PartialOK, PartialInv, WriteVersion \/ BrokerStep \/ Dispose \/ Reload
    PROVE  PartialInv'
<1>1. IInv /\ Partial \in Collections /\ EmptyCoverage \in CoverageState /\ coverage \in CoverageState
    BY SubsetsAreCollections, CoverageTypes DEF PartialInv, PartialTypeOK, CoverageState
<1>2. ASSUME IInv', PartialGate', \A s \in Subsets : gate' = s <=> load'[s].pc \in {"read", "apply"},
             versions' \in Seq(Homes \cup {Gone}), Len(versions') = writes',
             coverage' \in CoverageState, covered' \subseteq Subsets, loaded' \subseteq Subsets,
             load' \in [Subsets -> Load]
      PROVE  PartialInv'
    <2>1. gate' \in Collections \cup {Free, Ingest}
        BY <1>2 DEF IInv, TypeInv, TypeOK
    <2> QED
        BY <1>2, <2>1 DEF PartialInv, PartialTypeOK, CoverageState
<1>3. CASE WriteVersion
    <2>1. PICK e \in Entities, home \in Homes \cup {Gone} :
              (Write(e, home) \/ BulkChange(e, home)) /\ versions' = Append(versions, home)
        BY <1>3 DEF WriteVersion
    <2>2. UNCHANGED <<coverage, covered, load, loaded>>
        BY <1>3 DEF WriteVersion
    <2>3. UNCHANGED <<ingest, gate, sub>> /\ writes' = writes + 1
        BY <2>1 DEF Write, BulkChange
    <2>4. versions' \in Seq(Homes \cup {Gone}) /\ Len(versions') = Len(versions) + 1
        BY <2>1 DEF PartialInv, PartialTypeOK
    <2>5. IInv'
        BY <1>1, <2>1, NextIInv DEF Next, ServerWrites
    <2>6. PartialGate' /\ \A s \in Subsets : gate' = s <=> load'[s].pc \in {"read", "apply"}
        BY <2>2, <2>3, BrokerKeepsGate
    <2>7. Len(versions') = writes'
        BY <2>3, <2>4 DEF PartialInv, PartialTypeOK
    <2> QED
        BY <1>2, <2>2, <2>4, <2>5, <2>6, <2>7 DEF PartialInv, PartialTypeOK, CoverageState
<1>4. CASE BrokerStep
    <2>1. /\ UNCHANGED <<versions, coverage, covered, load>> /\ loaded' \in {loaded, {}}
          /\ \/ Expire \/ Restore \/ Serve \/ TimedFlush
             \/ Start \/ Run \/ Fail \/ Stop
             \/ Mount(Partial) \/ Attach(Partial) \/ Drain(Partial)
        BY <1>4 DEF BrokerStep, Attach, Drain
    <2>2. IInv'
        BY <1>1, <2>1, NextIInv DEF Next, Disturb
    <2>3. writes' = writes
        <3>1. CASE Expire \/ Restore \/ Serve \/ TimedFlush
            BY <3>1 DEF Expire, Restore, Serve, ServeList, ServeHydrate, TimedFlush
        <3>2. CASE Start \/ Fail \/ Stop \/ Run
            BY <3>2 DEF Start, Fail, Stop, Run, Accept, AppendChunk, PublishRow, AdvanceIngested,
                        FlushBeforePrune, PruneRead, PruneCommit, Recover, BeginRecovery, WipeJournal,
                        TellRecovery
        <3>3. CASE Mount(Partial) \/ Attach(Partial) \/ Drain(Partial)
            BY <3>3 DEF Mount, Attach, ReadMark, ReadFloor, ReadJournal, Drain, TakeReplay, TakeTail,
                        ListServer, Land, Ack
        <3> QED
            BY <2>1, <3>1, <3>2, <3>3
    <2>4. PartialGate' /\ \A s \in Subsets : gate' = s <=> load'[s].pc \in {"read", "apply"}
        <3>1. CASE Expire \/ Restore \/ Serve \/ TimedFlush
            <4>1. UNCHANGED <<ingest, gate, sub>>
                BY <3>1 DEF Expire, Restore, Serve, ServeList, ServeHydrate, TimedFlush
            <4> QED
                BY <2>1, <4>1, BrokerKeepsGate
        <3>2. CASE Start \/ Run \/ Fail \/ Stop
            BY <2>1, <3>2, BrokerKeepsGate
        <3>3. CASE Mount(Partial) \/ Attach(Partial) \/ Drain(Partial)
            BY <2>1, <3>3, OwnStepKeepsGate
        <3> QED
            BY <2>1, <3>1, <3>2, <3>3
    <2> QED
        BY <1>2, <2>1, <2>2, <2>3, <2>4 DEF PartialInv, PartialTypeOK, CoverageState
<1>5. CASE Dispose
    <2>1. Unmount(Partial) /\ coverage' = EmptyCoverage /\ covered' = {} /\ loaded' = {}
          /\ UNCHANGED <<versions, load>> /\ writes' = writes
        BY <1>5 DEF Dispose, Unmount
    <2>2. IInv'
        BY <1>1, <2>1, NextIInv DEF Next, Disturb
    <2>3. PartialGate' /\ \A s \in Subsets : gate' = s <=> load'[s].pc \in {"read", "apply"}
        BY <2>1, OwnStepKeepsGate
    <2> QED
        BY <1>1, <1>2, <2>1, <2>2, <2>3 DEF PartialInv, PartialTypeOK
<1>6. CASE Reload
    <2>1. Crash /\ coverage' = EmptyCoverage /\ covered' = {} /\ loaded' = {} /\ UNCHANGED versions
          /\ load' = [s \in Subsets |-> NoLoad]
        BY <1>6 DEF Reload, NoLoads
    <2>2. IInv'
        BY <1>1, <2>1, NextIInv DEF Next, Disturb
    <2>3. /\ writes' = writes /\ gate' = Free /\ ingest'.pc = "stopped"
          /\ \A c \in Collections : sub'[c].pc = "off"
        BY <2>1 DEF Crash, AllDetached, StoppedIngest, Detached
    <2>4. load' \in [Subsets -> Load] /\ \A s \in Subsets : load'[s].pc = "off"
        BY <2>1, NoLoadType DEF NoLoad
    <2>5. PartialGate'
        BY <2>3, SubsetsAreCollections DEF PartialGate, Assembling, Free, Ingest
    <2>6. \A s \in Subsets : gate' = s <=> load'[s].pc \in {"read", "apply"}
        BY <2>3, <2>4, SubsetsAreCollections
    <2> QED
        BY <1>1, <1>2, <2>1, <2>2, <2>3, <2>4, <2>5, <2>6 DEF PartialInv, PartialTypeOK
<1> QED
    BY <1>3, <1>4, <1>5, <1>6

\* The types, the gate and its holders are an inductive invariant of a partial collection.
LEMMA PartialInductive ==
    ASSUME PartialOK
    PROVE  PSpec => []PartialInv
<1>1. PInit => PartialInv
    BY PInitInv
<1>2. PartialInv /\ [PNext]_pvars => PartialInv'
    <2> SUFFICES ASSUME PartialInv, [PNext]_pvars PROVE PartialInv'
        OBVIOUS
    <2>1. CASE RestoreSubsets \/ ApplySignal \/ ApplySnapshot \/ AckSubsets
        BY <2>1, ApplierInv
    <2>2. CASE WriteVersion \/ BrokerStep \/ Dispose \/ Reload
        BY <2>2, BrokerInv
    <2>3. CASE \E s \in Subsets : LoadSubset(s)
        BY <2>3, LoadSubsetInv
    <2>4. CASE UNCHANGED pvars
        <3>1. UNCHANGED <<vars, versions, coverage, covered, load, loaded>>
            BY <2>4 DEF pvars, vars
        <3>2. IInv'
            BY <3>1, SameBroker DEF PartialInv
        <3>3. UNCHANGED <<gate, ingest, sub, writes>>
            BY <3>1 DEF vars
        <3> QED
            BY <3>1, <3>2, <3>3 DEF PartialInv, PartialTypeOK, PartialGate, Assembling
    <2> QED
        BY <2>1, <2>2, <2>3, <2>4 DEF PNext
<1> QED
    BY <1>1, <1>2, PTL DEF PSpec

\* Whatever the server, the network, the page and its loads do, a subset's load, the
\* coverage and the row versions keep their types, and the recovery gate is held by an
\* ensure exactly while it replays over its slice (sync-broker.ts): a load that fails,
\* an unmount, a recovery or a crash leaves no permit behind, and two of an attachment, a
\* replay and a recovery are never under way at once.
THEOREM PartialTypes ==
    ASSUME PartialOK
    PROVE  PSpec => []PartialTypeOK
<1>1. PartialInv => PartialTypeOK
    BY DEF PartialInv
<1> QED
    BY <1>1, PartialInductive, PTL

\* The generation changes under an ensure that replays over its slice by no step of the
\* broker: a recovery waits for the gate, and a reload ends every ensure.
LEMMA BrokerKeepsReplays ==
    ASSUME PartialOK, PartialInv, WriteVersion \/ BrokerStep \/ Dispose \/ Reload,
           NEW s \in Subsets, load'[s].pc \in {"read", "apply"}
    PROVE  load'[s] = load[s] /\ generation' = generation
<1>1. CASE WriteVersion \/ Dispose
    BY <1>1 DEF WriteVersion, Write, BulkChange, Dispose, Unmount
<1>2. CASE Reload
    BY <1>2 DEF Reload, NoLoads, NoLoad
<1>3. CASE BrokerStep
    <2>1. load' = load /\ gate = s
        BY <1>3 DEF BrokerStep, PartialInv, PartialTypeOK
    <2>2. gate # Free /\ gate # Ingest
        BY <2>1, SubsetsAreCollections
    <2>3. ~BeginRecovery
        BY <2>2 DEF BeginRecovery
    <2>4. CASE Expire \/ Restore \/ Serve \/ Start \/ TimedFlush \/ Fail \/ Stop
        BY <2>1, <2>4 DEF Expire, Restore, Serve, ServeList, ServeHydrate, Start, TimedFlush, Fail, Stop
    <2>5. CASE Run
        BY <2>1, <2>3, <2>5 DEF Run, Accept, AppendChunk, PublishRow, AdvanceIngested, FlushBeforePrune,
                                PruneRead, PruneCommit, Recover, WipeJournal, TellRecovery
    <2>6. CASE Mount(Partial) \/ ReadFloor(Partial) \/ ReadJournal(Partial)
               \/ TakeReplay(Partial) \/ TakeTail(Partial)
        BY <2>1, <2>6 DEF Mount, ReadFloor, ReadJournal, TakeReplay, TakeTail
    <2> QED
        BY <1>3, <2>4, <2>5, <2>6 DEF BrokerStep
<1> QED
    BY <1>1, <1>2, <1>3

\* An ensure enters its replay in the generation it noted (GateOrFail), and marks what it
\* replayed while it holds the gate.
LEMMA LoadKeepsReplays ==
    ASSUME PartialOK, PartialInv, NEW s \in Subsets, LoadSubset(s)
    PROVE  /\ UNCHANGED <<journal, ingest, generation>>
           /\ pending' = pending \/ gate = s
           /\ \A x \in Subsets : load'[x].pc \in {"read", "apply"} =>
                 \/ load'[x].gen = generation
                 \/ load[x].pc \in {"read", "apply"} /\ load'[x].gen = load[x].gen
<1>1. load \in [Subsets -> Load] /\ (gate = s <=> load[s].pc \in {"read", "apply"})
      /\ load[s] \in Load
    BY DEF PartialInv, PartialTypeOK
<1>2. ASSUME NEW next, load' = [load EXCEPT ![s] = next],
             \/ next.pc \notin {"read", "apply"}
             \/ next.gen = generation
             \/ load[s].pc \in {"read", "apply"} /\ next.gen = load[s].gen
      PROVE  \A x \in Subsets : load'[x].pc \in {"read", "apply"} =>
                 \/ load'[x].gen = generation
                 \/ load[x].pc \in {"read", "apply"} /\ load'[x].gen = load[x].gen
    BY <1>1, <1>2
<1>3. CASE \/ EnsureSubset(s) \/ PlanCursor(s) \/ PlanFloor(s) \/ Plan(s)
           \/ ServeStamp(s) \/ ServeMembers(s) \/ LoadFails(s) \/ CheckEpoch(s)
    <2>1. PICK next \in Load : load' = [load EXCEPT ![s] = next] /\ next.pc \notin {"read", "apply"}
        BY <1>3, PlanningTypes
    <2>2. UNCHANGED <<journal, ingest, generation, pending>>
        BY <1>3 DEF EnsureSubset, PlanCursor, PlanFloor, Plan, ServeStamp, ServeMembers, LoadFails,
                    CheckEpoch, LoadStep
    <2> QED
        BY <1>2, <2>1, <2>2
<1>4. CASE BeginReplay(s) \/ ReplaceSlice(s)
    <2>1. PICK pc : \/ load' = [load EXCEPT ![s] = NoLoad]
                    \/ /\ load[s].gen = generation
                       /\ \/ load' = [load EXCEPT ![s] = [load[s] EXCEPT !.pc = pc]]
                          \/ load' = [load EXCEPT ![s] = [load[s] EXCEPT !.pc = pc, !.members = NoRows]]
        BY <1>4 DEF BeginReplay, ReplaceSlice, GateOrFail
    <2>2. UNCHANGED <<journal, ingest, generation, pending>>
        BY <1>4 DEF BeginReplay, ReplaceSlice
    <2>3. CASE load' = [load EXCEPT ![s] = NoLoad]
        BY <1>2, <2>2, <2>3 DEF NoLoad
    <2>4. CASE /\ load[s].gen = generation
               /\ \/ load' = [load EXCEPT ![s] = [load[s] EXCEPT !.pc = pc]]
                  \/ load' = [load EXCEPT ![s] = [load[s] EXCEPT !.pc = pc, !.members = NoRows]]
        <3>1. [load[s] EXCEPT !.pc = pc].gen = load[s].gen
              /\ [load[s] EXCEPT !.pc = pc, !.members = NoRows].gen = load[s].gen
            BY <1>1 DEF Load
        <3> QED
            BY <1>2, <2>2, <2>4, <3>1
    <2> QED
        BY <2>1, <2>3, <2>4
<1>5. CASE ReadSlice(s)
    <2>1. load[s].pc = "read" /\ UNCHANGED <<journal, ingest, generation, pending>>
        BY <1>5 DEF ReadSlice, LoadStep, At
    <2>2. PICK rows, through : load' = [load EXCEPT ![s] =
              [load[s] EXCEPT !.pc = "apply", !.rows = rows, !.through = through]]
        BY <1>5 DEF ReadSlice, LoadStep
    <2>3. [load[s] EXCEPT !.pc = "apply", !.rows = rows, !.through = through].gen = load[s].gen
        BY <1>1 DEF Load
    <2> QED
        BY <1>2, <2>1, <2>2, <2>3
<1>6. CASE ReplayRow(s)
    <2>1. load[s].pc = "apply" /\ UNCHANGED <<journal, ingest, generation, pending>>
        BY <1>6 DEF ReplayRow, At
    <2>2. PICK rows : load' = [load EXCEPT ![s] = [load[s] EXCEPT !.rows = rows]]
        BY <1>1, <1>6 DEF ReplayRow
    <2>3. [load[s] EXCEPT !.rows = rows].gen = load[s].gen
        BY <1>1 DEF Load
    <2> QED
        BY <1>2, <2>1, <2>2, <2>3
<1>7. CASE FinishLoad(s)
    <2>1. load[s].pc = "apply" /\ load' = [load EXCEPT ![s] = NoLoad]
          /\ UNCHANGED <<journal, ingest, generation>>
        BY <1>7 DEF FinishLoad, At
    <2> QED
        BY <1>1, <1>2, <2>1 DEF NoLoad
<1> QED
    BY <1>3, <1>4, <1>5, <1>6, <1>7 DEF LoadSubset

\* No ensure of a subset crosses a recovery (sync-broker.ts): one that has the gate replays
\* its slice in the generation it began in, so that the generation need not be checked
\* again before its mark, and neither it nor the applier's ack leaves a mark pending or on
\* record between a recovery's new generation and its fanout.
THEOREM NoLoadCrossesRecovery ==
    ASSUME PartialOK
    PROVE  PSpec => []NoLoadAcrossRecovery
<1> DEFINE Current == \A s \in Subsets : load[s].pc \in {"read", "apply"} => load[s].gen = generation
<1>1. PInit => NoMarkAcrossRecovery /\ Current
    BY DEF PInit, Init, StoppedIngest, NoMarkAcrossRecovery, NoLoad
<1>2. PartialInv /\ NoMarkAcrossRecovery /\ Current /\ [PNext]_pvars => NoMarkAcrossRecovery' /\ Current'
    <2> SUFFICES ASSUME PartialInv, NoMarkAcrossRecovery, Current, [PNext]_pvars
                 PROVE  NoMarkAcrossRecovery' /\ Current'
        OBVIOUS
    <2>1. /\ IInv /\ (gate = Ingest <=> ingest.pc \in {"wipe", "tell"}) /\ Partial \in Collections
          /\ Free # Ingest /\ \A s \in Subsets : s # Ingest
        BY SubsetsAreCollections DEF PartialInv, PartialGate, Free, Ingest
    <2>2. CASE RestoreSubsets \/ WriteVersion \/ BrokerStep \/ Dispose \/ Reload
        <3>1. Next
            <4>1. CASE RestoreSubsets
                BY <2>1, <4>1 DEF RestoreSubsets, Next, Attach
            <4>2. CASE WriteVersion
                BY <4>2 DEF WriteVersion, Next, ServerWrites
            <4>3. CASE BrokerStep
                BY <2>1, <4>3 DEF BrokerStep, Next, Disturb, Attach, Drain
            <4>4. CASE Dispose \/ Reload
                BY <2>1, <4>4 DEF Dispose, Reload, Next, Disturb
            <4> QED
                BY <2>2, <4>1, <4>2, <4>3, <4>4
        <3>2. NoMarkAcrossRecovery'
            BY <2>1, <3>1, NextNoMark
        <3>3. Current'
            <4>1. CASE RestoreSubsets
                BY <4>1 DEF RestoreSubsets, ReadMark
            <4> QED
                BY <2>2, <4>1, BrokerKeepsReplays
        <3> QED
            BY <3>2, <3>3
    <2>3. CASE ApplySignal \/ ApplySnapshot \/ AckSubsets
        <3>1. UNCHANGED <<journal, ingest, generation, load>> /\ (pending' = pending \/ gate = Free)
            BY <2>3 DEF ApplySignal, ApplySnapshot, AckSubsets
        <3> QED
            BY <2>1, <3>1 DEF NoMarkAcrossRecovery
    <2>4. ASSUME NEW s \in Subsets, LoadSubset(s) PROVE NoMarkAcrossRecovery' /\ Current'
        <3>1. UNCHANGED <<journal, ingest, generation>> /\ (pending' = pending \/ gate = s)
            BY <2>4, LoadKeepsReplays
        <3>2. NoMarkAcrossRecovery'
            BY <2>1, <3>1 DEF NoMarkAcrossRecovery
        <3>3. Current'
            BY <2>4, <3>1, LoadKeepsReplays
        <3> QED
            BY <3>2, <3>3
    <2>5. CASE UNCHANGED pvars
        BY <2>5 DEF pvars, NoMarkAcrossRecovery
    <2> QED
        BY <2>2, <2>3, <2>4, <2>5 DEF PNext
<1>3. NoMarkAcrossRecovery /\ Current => NoLoadAcrossRecovery
    BY DEF NoLoadAcrossRecovery
<1> QED
    BY <1>1, <1>2, <1>3, PartialInductive, PTL DEF PSpec
=============================================================================
