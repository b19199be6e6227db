----------------------------- MODULE SyncBroker -----------------------------
(* The sync broker of one client (client/sync-broker.ts and the machines it   *)
(* wires: ingest.ts, subscribe.ts, last-applied-tracker.ts), the full         *)
(* collections it feeds (collection-drain.ts), the durable journal and the    *)
(* server's feed (server/src/sync-feed.ts).  Every await of the code is a     *)
(* step boundary; synchronous code between two awaits is one step.            *)
EXTENDS SyncJournal, Squash

CONSTANTS
    Homes,             \* scope values an entity may live under
    CollScope,         \* the scope a collection serves, or Global
    TrimEvery, MaxEventsPerModel, MaxEventsTotal,   \* RetentionOptions
    MaxWrites, MaxEpoch, MaxGeneration, MaxQueue,   \* bounds of the model
    Disturbances,      \* what the environment may do to the client and server
    Windows            \* the race windows of the code that are left open

Gone == "gone"         \* the home of an entity that does not exist
Global == "global"     \* the scope of an unscoped collection
Free == "free"         \* the recovery gate has its permit
Ingest == "ingest"     \* the ingest fiber holds the permit
NoEntity == "none"
Absent == 0            \* no row; a present row is the number of the write it shows

\* Four interleavings the code leaves open and that break a promise of its docs, and
\* "unawaited-commit": the drain does not wait for TanStack's commit of its rows.
\* With Windows = RaceWindows the module is the code; a window that is not in
\* Windows is closed by a guard on the one step that enters it.
RaceWindows == {"observed-pair", "interrupted-recovery", "prune-during-mount",
                "unrecorded-mount", "unawaited-commit"}

ASSUME ConstantsOK ==
    /\ IsFiniteSet(Entities) /\ IsFiniteSet(Collections)
    /\ EntityModel \in [Entities -> STRING]
    /\ CollModel \in [Collections -> Models]
    /\ CollScope \in [Collections -> Homes \cup {Global}]
    /\ Gone \notin Homes /\ Global \notin Homes
    /\ NoEntity \notin Entities
    /\ Free \notin Collections /\ Ingest \notin Collections
    /\ \A n \in {TrimEvery, MaxEventsPerModel, MaxEventsTotal,
                 MaxWrites, MaxEpoch, MaxGeneration, MaxQueue} : n \in Nat
    /\ Disturbances \subseteq {"crash", "drop", "expire", "restore", "resync", "stop", "unmount"}
    /\ Windows \subseteq RaceWindows

VARIABLES
    \* the server
    log,          \* its event log; a position is a SyncId
    writes,       \* number of writes so far: identifies row versions across timelines
    epoch,        \* identity of the timeline
    retained,     \* events up to here have been deleted by the server's retention
    wire,         \* the batch between server and client
    \* the client, durable
    journal,
    disk,         \* the rows of each collection that SQLite holds
    \* the client, in memory
    store,        \* the synced rows of each collection
    ingest,       \* the ingest fiber and the closure state that outlives it
    pending,      \* last-applied marks not flushed yet
    generation,
    gate,         \* who holds the recovery gate
    sub           \* per collection: the attachment of its drain

server == <<log, writes, epoch, retained>>
vars == <<log, writes, epoch, retained, wire, journal, store, disk,
          ingest, pending, generation, gate, sub>>

-----------------------------------------------------------------------------
(* Values *)

Entry == [e : Entities, tag : {"Insert", "Update", "Delete", "Resync"},
          home : Homes \cup {Gone}, w : Nat]

Row == [id : SyncId, e : Entities \cup {NoEntity}, tag : {"Upsert", "Delete"},
        home : Homes \cup {Gone}, w : Nat]
Item == [kind : {"None", "Event", "Mount", "Resync", "EpochReset"}, row : Row, gen : Nat]

ControlRow(at) == [id |-> at, e |-> NoEntity, tag |-> "Delete", home |-> Gone, w |-> 0]
NoItem == [kind |-> "None", row |-> ControlRow(0), gen |-> 0]

\* What the server puts on the wire: listed is a batch whose rows it has yet to
\* hydrate, sent one on its way to the client.
Batch == [stage : {"none", "listed", "sent"}, last : SyncId, epoch : Nat,
          resync : BOOLEAN, events : SUBSET Row]
NoBatch == [stage |-> "none", last |-> 0, epoch |-> 0, resync |-> FALSE, events |-> {}]

Journal == [log : SUBSET Row, cursor : OptionalSyncId, epoch : OptionalSyncId,
            resync : OptionalSyncId, floor : [Models -> OptionalSyncId],
            marks : [Collections -> OptionalSyncId]]

NoRows == [e \in Entities |-> Absent]
NoMarks == [c \in Collections |-> None]
NoPlan == [rows |-> {}, floor |-> [m \in Models |-> None]]

\* The batch the ingest fiber is working on.
Work == [kind : {"None", "Events", "Resync", "EpochReset"}, last : SyncId, epoch : Nat,
         rows : SUBSET Row, count : Nat]
NoWork == [kind |-> "None", last |-> 0, epoch |-> 0, rows |-> {}, count |-> 0]

IngestFiber ==
    [pc : {"stopped", "catchup", "stream", "append", "publish", "flush", "prune", "commit",
           "recover", "wipe", "tell"},
     state : {"CatchingUp", "Streaming", "Recovering"}, connected : BOOLEAN,
     work : Work, since : Nat,
     plan : [rows : SUBSET Row, floor : [Models -> OptionalSyncId]]]
StoppedIngest == [pc |-> "stopped", state |-> "CatchingUp", connected |-> FALSE,
                  work |-> NoWork, since |-> 0, plan |-> NoPlan]

Subscriber ==
    [pc : {"off", "attach", "floor", "read", "idle", "list", "land", "ack"},
     gen : Nat, mark : OptionalSyncId, cursor : OptionalSyncId, floor : OptionalSyncId,
     snap : OptionalSyncId, replay : SUBSET Row, queue : Seq(Item), guard : SyncId,
     sig : Item, listing : [Entities -> Nat]]
Detached == [pc |-> "off", gen |-> 0, mark |-> None, cursor |-> None, floor |-> None,
             snap |-> None, replay |-> {}, queue |-> <<>>, guard |-> 0,
             sig |-> NoItem, listing |-> NoRows]
AllDetached == [c \in Collections |-> Detached]

Oldest(rows) == CHOOSE r \in rows : \A s \in rows : r.id <= s.id

-----------------------------------------------------------------------------
(* The server's truth *)

\* The log entry that decides entity e at position t.
EntryAt(e, t) ==
    LET touching == {n \in 1..t : log[n].e = e}
    IN  IF touching = {} THEN [e |-> e, tag |-> "Delete", home |-> Gone, w |-> 0]
        ELSE log[Max(touching)]

\* The drain's scope test: a global collection takes every existing entity of its
\* model, a scoped one those that live under its scope.
InScope(c, e, home) ==
    /\ EntityModel[e] = CollModel[c]
    /\ home # Gone
    /\ CollScope[c] \in {Global, home}

\* What listFn would return for e at position t.
RowAt(c, e, t) == IF InScope(c, e, EntryAt(e, t).home) THEN EntryAt(e, t).w ELSE Absent

Truth(c) == [e \in Entities |-> RowAt(c, e, Len(log))]

\* The values e may show to be current through position m.
CurrentThrough(c, e, m) == {RowAt(c, e, t) : t \in m..Len(log)}

\* The client's cursor has not reached e's latest insert.
InsertAhead(e) ==
    \E n \in 1..Len(log) : log[n].e = e /\ log[n].tag = "Insert" /\ n > OrZero(journal.cursor)

\* ... but the client has been shown e already.
ShownEarly(e) ==
    LET unacknowledged == {r \in journal.log : r.id > OrZero(journal.cursor)}
    IN  /\ InsertAhead(e)
        /\ \/ \E c \in Collections : store[c][e] # Absent \/ sub[c].listing[e] # Absent
           \/ \E r \in wire.events \cup ingest.work.rows \cup unacknowledged : r.e = e

-----------------------------------------------------------------------------
(* Server steps *)

\* The application writes e under home (Gone deletes it) and records the event.
Write(e, home) ==
    /\ writes < MaxWrites
    /\ LET was == EntryAt(e, Len(log)).home IN
        /\ ~(was = Gone /\ home = Gone)
        /\ home = Gone => "observed-pair" \in Windows \/ ~ShownEarly(e)
        /\ log' = Append(log, [e |-> e, home |-> home, w |-> writes + 1,
                               tag |-> IF home = Gone THEN "Delete"
                                       ELSE IF was = Gone THEN "Insert" ELSE "Update"])
    /\ writes' = writes + 1
    /\ UNCHANGED <<epoch, retained, wire, journal, store, disk, ingest, pending, generation, gate, sub>>

\* A change deltas do not express (a bulk correction), announced by a Resync.
BulkChange(e, home) ==
    /\ "resync" \in Disturbances
    /\ writes < MaxWrites
    /\ log' = Append(log, [e |-> e, home |-> home, w |-> writes + 1, tag |-> "Resync"])
    /\ writes' = writes + 1
    /\ UNCHANGED <<epoch, retained, wire, journal, store, disk, ingest, pending, generation, gate, sub>>

\* The server's own retention deletes the oldest events.
Expire ==
    /\ "expire" \in Disturbances
    /\ \E n \in retained + 1 .. Len(log) : retained' = n
    /\ UNCHANGED <<log, writes, epoch, wire, journal, store, disk, ingest, pending, generation, gate, sub>>

\* A backup restore rewinds the log and starts a new timeline; the client has had a
\* batch of the old one.
Restore ==
    /\ "restore" \in Disturbances
    /\ epoch < MaxEpoch
    /\ journal.epoch # None
    /\ \E k \in 0 .. Len(log) - 1 :
        /\ log' = SubSeq(log, 1, k)
        /\ retained' = IF retained > k THEN k ELSE retained
    /\ epoch' = epoch + 1
    /\ UNCHANGED <<writes, wire, journal, store, disk, ingest, pending, generation, gate, sub>>

\* The positions of e's events in a range of the log, and the tag they fold to.
Touched(e, from, head) == {n \in from + 1 .. head : log[n].e = e}

FoldedTag(e, from, head) ==
    LET folded[n \in from .. head] ==
            IF n = from THEN "Drop"
            ELSE IF log[n].e = e THEN FoldTag(folded[n - 1], log[n].tag)
            ELSE folded[n - 1]
    IN  folded[head]

\* The squashed events of one batch: the last event of every entity of the range
\* whose tags do not cancel out.
ListedEvents(from, head) ==
    {[id |-> Max(Touched(e, from, head)), e |-> e, home |-> Gone, w |-> 0,
      tag |-> IF FoldedTag(e, from, head) = "Delete" THEN "Delete" ELSE "Upsert"] :
        e \in {x \in Entities : /\ Touched(x, from, head) # {}
                                /\ FoldedTag(x, from, head) # "Drop"}}

\* SyncFeed.catchup, up to the listing: read epoch and head, list, squash.  A
\* cursor older than retention, or a Resync in the range, makes it a resync.
\* A heartbeat of an open stream that carries nothing new is left out.
ServeList ==
    /\ ingest.pc \in {"catchup", "stream"}
    /\ wire.stage = "none"
    /\ LET from == OrZero(journal.cursor)
           head == Len(log)
           resync == from < retained \/ \E n \in from + 1 .. head : log[n].tag = "Resync"
       IN  /\ ingest.pc = "catchup" \/ head > from \/ resync \/ epoch # journal.epoch
           /\ wire' = [stage |-> "listed", last |-> head, epoch |-> epoch, resync |-> resync,
                       events |-> IF resync THEN {} ELSE ListedEvents(from, head)]
    /\ UNCHANGED <<log, writes, epoch, retained, journal, store, disk, ingest, pending, generation, gate, sub>>

\* A listed event with the entity's data of now; an entity gone by now is a Delete.
Hydrated(r) ==
    LET now == EntryAt(r.e, Len(log))
    IN  IF r.tag = "Delete" \/ now.home = Gone THEN [r EXCEPT !.tag = "Delete"]
        ELSE [r EXCEPT !.home = now.home, !.w = now.w]

\* ... hydrate, and start over if the timeline changed meanwhile.
ServeHydrate ==
    /\ wire.stage = "listed"
    /\ wire' = IF wire.epoch # epoch THEN NoBatch
               ELSE [wire EXCEPT !.stage = "sent", !.events = {Hydrated(r) : r \in @}]
    /\ UNCHANGED <<log, writes, epoch, retained, journal, store, disk, ingest, pending, generation, gate, sub>>

-----------------------------------------------------------------------------
(* Ingest: network -> journal + fanout *)

\* Fork the loop.  The closure's state survives an earlier interruption.
Start ==
    /\ ingest.pc = "stopped"
    /\ ingest' = IF ingest.state = "Streaming"
                 THEN [ingest EXCEPT !.pc = "stream", !.connected = TRUE]
                 ELSE [ingest EXCEPT !.pc = "catchup", !.connected = FALSE]
    /\ UNCHANGED <<log, writes, epoch, retained, wire, journal, store, disk, pending, generation, gate, sub>>

\* A failed request, a lost connection, a keep-alive timeout or a batch refused
\* before any write: back off and catch up again.
Fail ==
    /\ "drop" \in Disturbances
    /\ ingest.pc \in {"catchup", "stream"}
    /\ ingest.pc = "stream" \/ wire.stage # "none"
    /\ ingest' = [ingest EXCEPT !.pc = "catchup", !.connected = FALSE,
                    !.state = IF @ = "Recovering" THEN @ ELSE "CatchingUp"]
    /\ wire' = NoBatch
    /\ UNCHANGED <<log, writes, epoch, retained, journal, store, disk, pending, generation, gate, sub>>

\* accept and applyEpochChecked: a changed epoch or a Resync is a recovery, the
\* first epoch seen is stamped, anything else is a chunk of rows above the cursor.
Accept ==
    /\ ingest.pc \in {"catchup", "stream"}
    /\ wire.stage = "sent"
    /\ LET changed == journal.epoch # None /\ journal.epoch # wire.epoch
           fresh == {r \in wire.events : r.id > OrZero(journal.cursor)}
       IN  /\ ingest' =
                IF changed \/ wire.resync
                THEN [ingest EXCEPT !.pc = "recover", !.state = "Recovering",
                        !.work = [kind |-> IF changed THEN "EpochReset" ELSE "Resync",
                                  last |-> wire.last, epoch |-> wire.epoch,
                                  rows |-> {}, count |-> 0]]
                ELSE [ingest EXCEPT !.pc = "append",
                        !.work = [kind |-> "Events", last |-> wire.last, epoch |-> wire.epoch,
                                  rows |-> fresh, count |-> Cardinality(fresh)]]
           /\ journal' = IF journal.epoch = None
                         THEN [journal EXCEPT !.epoch = wire.epoch] ELSE journal
    /\ wire' = NoBatch
    /\ UNCHANGED <<log, writes, epoch, retained, store, disk, pending, generation, gate, sub>>

\* The whole chunk becomes durable in one append.
AppendChunk ==
    /\ ingest.pc = "append"
    /\ journal' = AppendRows(journal, ingest.work.rows)
    /\ ingest' = [ingest EXCEPT !.pc = "publish"]
    /\ UNCHANGED <<log, writes, epoch, retained, wire, store, disk, pending, generation, gate, sub>>

\* Offer an item to every attached subscriber it concerns.
Published(kind, row) ==
    [c \in Collections |->
        IF sub[c].pc # "off" /\ (kind = "Event" => RowModel(row) = CollModel[c])
        THEN [sub[c] EXCEPT !.queue = Append(@, [kind |-> kind, row |-> row, gen |-> generation])]
        ELSE sub[c]]

\* Fanout in order, one row at a time.
PublishRow ==
    /\ ingest.pc = "publish"
    /\ ingest.work.rows # {}
    /\ sub' = Published("Event", Oldest(ingest.work.rows))
    /\ ingest' = [ingest EXCEPT !.work.rows = @ \ {Oldest(@)}]
    /\ UNCHANGED <<log, writes, epoch, retained, wire, journal, store, disk, pending, generation, gate>>

\* Back on the stream, with nothing in hand.
Streaming(since) ==
    [StoppedIngest EXCEPT !.pc = "stream", !.state = "Streaming", !.connected = TRUE, !.since = since]

\* Only then the cursor moves; every TrimEvery events the journal is pruned.
AdvanceIngested ==
    /\ ingest.pc = "publish"
    /\ ingest.work.rows = {}
    /\ journal' = AdvanceCursor(journal, ingest.work.last)
    /\ LET since == ingest.since + ingest.work.count
       IN  ingest' = IF since < TrimEvery THEN Streaming(since)
                     ELSE [ingest EXCEPT !.pc = "flush", !.since = 0]
    /\ UNCHANGED <<log, writes, epoch, retained, wire, store, disk, pending, generation, gate, sub>>

\* The tracker's flush: under the gate, uninterruptible.
FlushMarks ==
    /\ gate = Free
    /\ journal' = FoldMarks(journal, pending)
    /\ pending' = NoMarks

FlushBeforePrune ==
    /\ ingest.pc = "flush"
    /\ FlushMarks
    /\ ingest' = [ingest EXCEPT !.pc = "prune"]
    /\ UNCHANGED <<log, writes, epoch, retained, wire, store, disk, generation, gate, sub>>

\* A collection that will have a mark has none on record yet.
Unrecorded(c) == journal.marks[c] = None /\ (sub[c].pc # "off" \/ pending[c] # None)

\* prune reads the log and the marks ...
PruneRead ==
    /\ ingest.pc = "prune"
    /\ "unrecorded-mount" \in Windows \/ \A c \in Collections : ~Unrecorded(c)
    /\ LET plan == PlanPrune(journal, MaxEventsPerModel, MaxEventsTotal)
       IN  ingest' = IF plan.rows = {} THEN Streaming(0)
                     ELSE [ingest EXCEPT !.pc = "commit", !.plan = plan]
    /\ UNCHANGED <<log, writes, epoch, retained, wire, journal, store, disk, pending, generation, gate, sub>>

\* ... and deletes in a later commit.
PruneCommit ==
    /\ ingest.pc = "commit"
    /\ \/ "prune-during-mount" \in Windows
       \/ \A c \in Collections : sub[c].pc = "read" => ingest.plan.floor[CollModel[c]] = None
    /\ journal' = CommitPrune(journal, ingest.plan)
    /\ ingest' = Streaming(0)
    /\ UNCHANGED <<log, writes, epoch, retained, wire, store, disk, pending, generation, gate, sub>>

\* Mutant: pending marks are not cleared.
BeginRecovery_KeepPending ==
    /\ ingest.pc = "recover"
    /\ gate = Free
    /\ gate' = Ingest
    /\ generation' = generation + 1
    /\ ingest' = [ingest EXCEPT !.pc = "wipe"]
    /\ UNCHANGED <<log, writes, epoch, retained, wire, journal, store, disk, pending, sub>>

\* Mutant: the gate is not waited for.
BeginRecovery_Ungated ==
    /\ ingest.pc = "recover"
    /\ gate' = Ingest
    /\ generation' = generation + 1
    /\ pending' = NoMarks
    /\ ingest' = [ingest EXCEPT !.pc = "wipe"]
    /\ UNCHANGED <<log, writes, epoch, retained, wire, journal, store, disk, sub>>

\* Recovery, step by step and all under the gate: a new generation and no pending
\* marks, then the journal's reset, then the fanout.
BeginRecovery ==
    /\ ingest.pc = "recover"
    /\ gate = Free
    /\ gate' = Ingest
    /\ generation' = generation + 1
    /\ pending' = NoMarks
    /\ ingest' = [ingest EXCEPT !.pc = "wipe"]
    /\ UNCHANGED <<log, writes, epoch, retained, wire, journal, store, disk, sub>>

WipeJournal ==
    /\ ingest.pc = "wipe"
    /\ journal' = IF ingest.work.kind = "EpochReset"
                  THEN ResetToEpoch(ingest.work.epoch, ingest.work.last)
                  ELSE ResetCoverage(journal, ingest.work.last)
    /\ ingest' = [ingest EXCEPT !.pc = "tell"]
    /\ UNCHANGED <<log, writes, epoch, retained, wire, store, disk, pending, generation, gate, sub>>

\* Mutant: nobody is told.
TellRecovery_Silent ==
    /\ ingest.pc = "tell"
    /\ gate' = Free
    /\ ingest' = IF ingest.connected
                 THEN [ingest EXCEPT !.pc = "catchup", !.connected = FALSE, !.work = NoWork]
                 ELSE Streaming(ingest.since)
    /\ UNCHANGED <<log, writes, epoch, retained, wire, journal, store, disk, pending, generation, sub>>

\* A recovery met on the stream reconnects through catchup; one met in a catchup
\* goes on to connect.
TellRecovery ==
    /\ ingest.pc = "tell"
    /\ sub' = Published(ingest.work.kind, ControlRow(ingest.work.last))
    /\ gate' = Free
    /\ ingest' = IF ingest.connected
                 THEN [ingest EXCEPT !.pc = "catchup", !.connected = FALSE, !.work = NoWork]
                 ELSE Streaming(ingest.since)
    /\ UNCHANGED <<log, writes, epoch, retained, wire, journal, store, disk, pending, generation>>

\* Mutant: an interrupted section keeps its permit.
Stop_KeepsGate ==
    /\ "stop" \in Disturbances
    /\ ingest.pc \notin {"stopped", "tell"}
    /\ generation < MaxGeneration
    /\ ingest' = [StoppedIngest EXCEPT !.state = ingest.state, !.since = ingest.since]
    /\ wire' = NoBatch
    /\ UNCHANGED <<log, writes, epoch, retained, journal, store, disk, pending, generation, gate, sub>>

\* The fiber is interrupted (the hook unmounts, forkSync replaces it) at an await;
\* a held permit is released.
Stop ==
    /\ "stop" \in Disturbances
    /\ ingest.pc # "stopped"
    /\ ingest.pc = "tell" => "interrupted-recovery" \in Windows
    /\ generation < MaxGeneration
    /\ \A c \in Collections : Len(sub[c].queue) < MaxQueue
    /\ ingest' = [StoppedIngest EXCEPT !.state = ingest.state, !.since = ingest.since]
    /\ wire' = NoBatch
    /\ gate' = IF gate = Ingest THEN Free ELSE gate
    /\ UNCHANGED <<log, writes, epoch, retained, journal, store, disk, pending, generation, sub>>

-----------------------------------------------------------------------------
(* Serve: one subscriber's attachment and drain *)

\* subscribe: take the gate, subscribe to the fanout, note the generation ...
Mount(c) ==
    /\ sub[c].pc = "off"
    /\ gate = Free
    /\ gate' = c
    /\ sub' = [sub EXCEPT ![c] = [Detached EXCEPT !.pc = "attach", !.gen = generation]]
    /\ UNCHANGED <<log, writes, epoch, retained, wire, journal, store, disk, ingest, pending, generation>>

\* ... then read the collection's mark, pending ones included, and the cursor ...
ReadMark(c) ==
    /\ sub[c].pc = "attach"
    /\ sub' = [sub EXCEPT ![c] = [@ EXCEPT !.pc = "floor", !.cursor = journal.cursor,
                                    !.mark = MaxSyncId(journal.marks[c], pending[c])]]
    /\ UNCHANGED <<log, writes, epoch, retained, wire, journal, store, disk, ingest, pending, generation, gate>>

\* ... then the model's prune floor ...
ReadFloor(c) ==
    /\ sub[c].pc = "floor"
    /\ sub' = [sub EXCEPT ![c] = [@ EXCEPT !.pc = "read", !.floor = journal.floor[CollModel[c]]]]
    /\ UNCHANGED <<log, writes, epoch, retained, wire, journal, store, disk, ingest, pending, generation, gate>>

\* ... then the last resync and the journal slice; rows read cover the tail up to
\* their highest id.
ReadJournal(c) ==
    /\ sub[c].pc = "read"
    /\ LET s == sub[c]
           plan == PlanMount(s.mark, s.cursor, s.floor, journal.resync)
           rows == ReadRows(journal, CollModel[c], plan.since)
       IN  sub' = [sub EXCEPT ![c] =
              [s EXCEPT !.pc = "idle", !.mark = None, !.cursor = None, !.floor = None,
                        !.snap = IF plan.decision = "Snapshot" THEN plan.since ELSE None,
                        !.replay = rows,
                        !.guard = Max({plan.guard} \cup {r.id : r \in rows})]]
    /\ gate' = Free
    /\ UNCHANGED <<log, writes, epoch, retained, wire, journal, store, disk, ingest, pending, generation>>

\* A delivery is handled only in the generation that produced it.
Handling(s, item) ==
    IF item.gen # generation THEN s
    ELSE [s EXCEPT !.sig = item, !.pc = IF item.kind = "Event" THEN "land" ELSE "list"]

\* The next signal: the mount snapshot, then the replay slice, then the tail.
TakeReplay(c) ==
    LET s == sub[c] IN
    /\ s.pc = "idle"
    /\ \/ /\ s.snap # None
          /\ sub' = [sub EXCEPT ![c] = Handling([s EXCEPT !.snap = None],
                        [kind |-> "Mount", row |-> ControlRow(s.snap), gen |-> s.gen])]
       \/ /\ s.snap = None
          /\ s.replay # {}
          /\ sub' = [sub EXCEPT ![c] = Handling([s EXCEPT !.replay = @ \ {Oldest(@)}],
                        [kind |-> "Event", row |-> Oldest(s.replay), gen |-> s.gen])]
    /\ UNCHANGED <<log, writes, epoch, retained, wire, journal, store, disk, ingest, pending, generation, gate>>

TakeTail(c) ==
    LET s == sub[c]
        item == Head(s.queue)
        rest == [s EXCEPT !.queue = Tail(@), !.guard = GuardAfter(@, item.kind, item.row.id)]
    IN
    /\ s.pc = "idle"
    /\ s.snap = None /\ s.replay = {} /\ s.queue # <<>>
    /\ sub' = [sub EXCEPT ![c] = IF IsStale(s.guard, item.kind, item.row.id)
                                 THEN rest ELSE Handling(rest, item)]
    /\ UNCHANGED <<log, writes, epoch, retained, wire, journal, store, disk, ingest, pending, generation, gate>>

\* A Snapshot re-lists the server's truth ...
ListServer(c) ==
    /\ sub[c].pc = "list"
    /\ sub' = [sub EXCEPT ![c] = [@ EXCEPT !.pc = "land", !.listing = Truth(c)]]
    /\ UNCHANGED <<log, writes, epoch, retained, wire, journal, store, disk, ingest, pending, generation, gate>>

\* ... and replaces the table; an Upsert in scope is written, one out of scope
\* deletes, a Delete deletes.
Landed(c, s) ==
    IF s.sig.kind = "Event"
    THEN [store[c] EXCEPT ![s.sig.row.e] =
            IF s.sig.row.tag = "Upsert" /\ InScope(c, s.sig.row.e, s.sig.row.home)
            THEN s.sig.row.w ELSE Absent]
    ELSE s.listing

\* Mutant: the rows are handed to TanStack, and their commit is not waited for.
Commit_Unawaited(c, rows) ==
    /\ store' = [store EXCEPT ![c] = rows]
    /\ disk' \in {disk, [disk EXCEPT ![c] = rows]}

\* begin, write, commit: the rows show at once.  Whether they reach SQLite too is only
\* seen by a crash; a commit that does carries the ones before it along.
Commit(c, rows) ==
    /\ store' = [store EXCEPT ![c] = rows]
    /\ disk' \in {[disk EXCEPT ![c] = rows]} \cup {d \in {disk} : "unawaited-commit" \in Windows}

Land(c) ==
    /\ sub[c].pc = "land"
    /\ Commit(c, Landed(c, sub[c]))
    /\ sub' = [sub EXCEPT ![c].pc = "ack", ![c].listing = NoRows]
    /\ UNCHANGED <<log, writes, epoch, retained, wire, journal, ingest, pending, generation, gate>>

\* Mutant: the ack covers everything ingested, not the signal just applied.
Ack_ThroughCursor(c) ==
    /\ sub[c].pc = "ack"
    /\ gate = Free
    /\ pending' = IF sub[c].sig.gen # generation THEN pending
                  ELSE [pending EXCEPT ![c] = AdvanceSyncId(@, journal.cursor)]
    /\ sub' = [sub EXCEPT ![c].pc = "idle", ![c].sig = NoItem]
    /\ UNCHANGED <<log, writes, epoch, retained, wire, journal, store, disk, ingest, generation, gate>>

\* Mutant: neither the gate nor the generation is checked.
Ack_Unchecked(c) ==
    /\ sub[c].pc = "ack"
    /\ pending' = [pending EXCEPT ![c] = AdvanceSyncId(@, sub[c].sig.row.id)]
    /\ sub' = [sub EXCEPT ![c].pc = "idle", ![c].sig = NoItem]
    /\ UNCHANGED <<log, writes, epoch, retained, wire, journal, store, disk, ingest, generation, gate>>

\* The broker acks under the gate, unless a recovery began meanwhile.
Ack(c) ==
    /\ sub[c].pc = "ack"
    /\ gate = Free
    /\ pending' = IF sub[c].sig.gen # generation THEN pending
                  ELSE [pending EXCEPT ![c] = AdvanceSyncId(@, sub[c].sig.row.id)]
    /\ sub' = [sub EXCEPT ![c].pc = "idle", ![c].sig = NoItem]
    /\ UNCHANGED <<log, writes, epoch, retained, wire, journal, store, disk, ingest, generation, gate>>

\* The drain is interrupted and the instance disposed of; its rows stay persisted.
Unmount(c) ==
    /\ "unmount" \in Disturbances
    /\ sub[c].pc # "off"
    /\ sub' = [sub EXCEPT ![c] = Detached]
    /\ gate' = IF gate = c THEN Free ELSE gate
    /\ UNCHANGED <<log, writes, epoch, retained, wire, journal, store, disk, ingest, pending, generation>>

\* The tracker's timer.
TimedFlush ==
    /\ pending # NoMarks
    /\ FlushMarks
    /\ UNCHANGED <<log, writes, epoch, retained, wire, store, disk, ingest, generation, gate, sub>>

\* The page goes away: only the journal and the rows on disk remain.  Marks of a flush
\* that was under way, and so had the gate, may have been written or not.
Crash ==
    /\ "crash" \in Disturbances
    /\ \E written \in SUBSET {c \in Collections : pending[c] # None /\ gate = Free} :
        journal' = FoldMarks(journal, [c \in Collections |->
                                         IF c \in written THEN pending[c] ELSE None])
    /\ wire' = NoBatch
    /\ ingest' = StoppedIngest
    /\ pending' = NoMarks
    /\ generation' = 0
    /\ gate' = Free
    /\ sub' = AllDetached
    /\ store' = disk
    /\ UNCHANGED <<log, writes, epoch, retained, disk>>

-----------------------------------------------------------------------------
Init ==
    /\ log = <<>> /\ writes = 0 /\ epoch = 0 /\ retained = 0
    /\ wire = NoBatch
    /\ journal = EmptyJournal
    /\ store = [c \in Collections |-> NoRows] /\ disk = store
    /\ ingest = StoppedIngest
    /\ pending = NoMarks
    /\ generation = 0
    /\ gate = Free
    /\ sub = [c \in Collections |-> Detached]

ServerWrites == \E e \in Entities, home \in Homes \cup {Gone} : Write(e, home) \/ BulkChange(e, home)

Serve == ServeList \/ ServeHydrate

Recover == BeginRecovery \/ WipeJournal \/ TellRecovery

Run == Accept \/ AppendChunk \/ PublishRow \/ AdvanceIngested
       \/ FlushBeforePrune \/ PruneRead \/ PruneCommit \/ Recover

Attach(c) == ReadMark(c) \/ ReadFloor(c) \/ ReadJournal(c)

Drain(c) == TakeReplay(c) \/ TakeTail(c) \/ ListServer(c) \/ Land(c) \/ Ack(c)

\* What the environment does to the client.
Disturb == Fail \/ Stop \/ Crash \/ \E c \in Collections : Unmount(c)

Next ==
    \/ ServerWrites \/ Expire \/ Restore \/ Serve
    \/ Start \/ Run \/ TimedFlush \/ Disturb
    \/ \E c \in Collections : Mount(c) \/ Attach(c) \/ Drain(c)

Spec == Init /\ [][Next]_vars

\* The server answers, the application keeps the sync loop running, and fibers that
\* can step do.
FairSpec ==
    /\ Spec
    /\ WF_vars(Serve) /\ WF_vars(Start) /\ WF_vars(Run)
    /\ \A c \in Collections : WF_vars(Attach(c) \/ Drain(c))

-----------------------------------------------------------------------------
(* What the broker promises *)

\* Every variable stays what the code declares it to be; in particular a tail guard
\* and a replay start are always positions, never an absent mark.
TypeOK ==
    /\ log \in Seq(Entry)
    /\ writes \in Nat /\ epoch \in Nat /\ retained \in Nat
    /\ wire \in Batch
    /\ journal \in Journal
    /\ store \in [Collections -> [Entities -> Nat]]
    /\ disk \in [Collections -> [Entities -> Nat]]
    /\ ingest \in IngestFiber
    /\ pending \in [Collections -> OptionalSyncId]
    /\ generation \in Nat
    /\ gate \in Collections \cup {Free, Ingest}
    /\ sub \in [Collections -> Subscriber]

\* The journal's coordinates are those of the server's present timeline.
OnTimeline == journal.epoch = epoch

\* A last-applied mark, durable or pending, tells the truth: every row of the
\* collection shows its entity as of some position at or after the mark, unless the
\* journal still holds a newer row of the entity (the server squashed its events
\* forward, past others of the same batch) or says that it pruned one.
CoverageSound ==
    OnTimeline =>
        \A c \in Collections :
            LET mark == MaxSyncId(journal.marks[c], pending[c])
            IN  mark # None /\ journal.floor[CollModel[c]] <= mark =>
                    \A e \in Entities :
                        \/ store[c][e] \in CurrentThrough(c, e, mark)
                        \/ \E r \in journal.log : r.e = e /\ r.id > mark

\* Every synced write is in SQLite.
Durable == disk = store

\* The row of e after replaying the journal over the persisted table.
Replayed(c, e) ==
    LET rows == {r \in ReadRows(journal, CollModel[c], journal.marks[c]) : r.e = e}
        newest == CHOOSE r \in rows : \A x \in rows : x.id <= r.id
    IN  IF rows = {} THEN disk[c][e]
        ELSE IF newest.tag = "Upsert" /\ InScope(c, e, newest.home) THEN newest.w ELSE Absent

\* A crash at this very moment loses nothing, provided every synced write is durable
\* before its mark: a collection whose next mount would trust its table and replay the
\* journal ends current through the cursor.  ("unawaited-commit" breaks it, as
\* docs/persistence.md says: a synced write is not an awaitable durability
\* acknowledgement.)
RemountSound ==
    OnTimeline =>
        \A c \in Collections :
            Decision(journal.marks[c], journal.cursor, journal.floor[CollModel[c]],
                     journal.resync) # "Snapshot"
            => \A e \in Entities :
                Replayed(c, e) \in CurrentThrough(c, e, OrZero(journal.cursor))

\* The deliveries waiting in the queue that dropStale will let through: those of this
\* generation above the guard and above everything queued before them.
Unheard(c) ==
    LET s == sub[c]
    IN  {k \in 1 .. Len(s.queue) :
            /\ s.queue[k].gen = generation
            /\ ~IsStale(s.guard, s.queue[k].kind, s.queue[k].row.id)
            /\ \A j \in 1 .. k - 1 : ~IsStale(s.queue[j].row.id, s.queue[k].kind, s.queue[k].row.id)}

\* What a serving drain still has to apply, in order of position.
Outstanding(c) ==
    LET s == sub[c]
    IN  s.replay \cup {s.queue[k].row : k \in Unheard(c)}
        \cup (IF s.pc = "land" THEN {s.sig.row} ELSE {})

SnapshotDue(c) ==
    LET s == sub[c]
    IN  \/ s.snap # None
        \/ s.pc \in {"list", "land"} /\ s.sig.kind # "Event"
        \/ \E i \in 1 .. Len(s.queue) : s.queue[i].kind # "Event"

\* No event falls between reading the journal and tailing, or between recovery and
\* fanout: a serving collection that has no Snapshot coming will, with the signals
\* it was already handed, be current through the cursor.
DeliverySound ==
    OnTimeline /\ ingest.state # "Recovering" =>
        \A c \in Collections :
            sub[c].pc \in {"idle", "land", "ack"} /\ ~SnapshotDue(c) =>
                \A e \in Entities :
                    LET rows == {r \in Outstanding(c) : r.e = e}
                        newest == CHOOSE r \in rows : \A x \in rows : x.id <= r.id
                        final == IF rows = {} THEN store[c][e]
                                 ELSE IF newest.tag = "Upsert" /\ InScope(c, e, newest.home)
                                 THEN newest.w ELSE Absent
                    IN  final \in CurrentThrough(c, e, OrZero(journal.cursor))

\* The gate is held by exactly the fiber that is inside a gated section.
GateHeld ==
    /\ gate = Ingest <=> ingest.pc \in {"wipe", "tell"}
    /\ \A c \in Collections : gate = c <=> sub[c].pc \in {"attach", "floor", "read"}

\* No mark crosses a recovery: none is pending from the moment the generation
\* changes until the fanout, and none is durable once the journal is wiped.
NoMarkAcrossRecovery ==
    /\ ingest.pc \in {"wipe", "tell"} => pending = NoMarks
    /\ ingest.pc = "tell" => journal.marks = NoMarks

\* A mount assembles its stream against one generation and one set of marks.
Assembling(c) == sub[c].pc \in {"attach", "floor", "read"}
MountAtomic ==
    [][\A c \in Collections : Assembling(c) /\ Assembling(c)' =>
        UNCHANGED <<generation, pending, journal.marks, journal.resync>>]_vars

\* If the environment stops disturbing the client, a collection that stays mounted
\* ends up showing the server's truth for good.
Converges ==
    \A c \in Collections :
        <>[][~Disturb]_vars /\ <>[](sub[c].pc # "off") => <>[](store[c] = Truth(c))
=============================================================================
