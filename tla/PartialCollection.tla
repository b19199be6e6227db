------------------------- MODULE PartialCollection -------------------------
(* A partial collection on top of the broker: its rows arrive subset by       *)
(* subset.  ensureSubset (client/sync-broker.ts) loads a subset, the applier  *)
(* and the slice landing of partial-coverage.ts decide what a signal or a     *)
(* fetched slice may touch, and SyncFeed.hydrateBatch answers the fetch.  The *)
(* collection's application gate makes every application one step.            *)
EXTENDS SyncBroker

CONSTANTS
    Partial,           \* the collection; every other element of Collections is a subset
    SubsetHomes,       \* the homes whose rows a subset holds
    LoadWindows        \* the race windows of loading that are left open

Subsets == Collections \ {Partial}

\* Four more interleavings the code leaves open, closed and opened like RaceWindows.
LoadRaceWindows == {"unflushed-remount", "dropped-coverage", "plan-during-recovery",
                    "prune-during-load"}

\* What the constants must be; the small instances assume it, the theorems state it.
PartialOK ==
    /\ Partial \in Collections
    /\ SubsetHomes \in [Subsets -> SUBSET Homes]
    /\ \A c \in Collections : CollScope[c] = Global /\ CollModel[c] = CollModel[Partial]
    /\ LoadWindows \subseteq LoadRaceWindows

VARIABLES
    versions,     \* the home of every row version: what an extractor reads off a row
    coverage,     \* the subsets proven current, in which generation, through where
    covered,      \* the subsets the signal just applied is to be acked for
    load,         \* per subset: the running ensure
    loaded        \* the subsets whose last ensure of this generation resolved

partial == <<versions, coverage, covered, load, loaded>>
pvars == <<log, writes, epoch, retained, wire, journal, store, disk, ingest, pending,
           generation, gate, sub, versions, coverage, covered, load, loaded>>

-----------------------------------------------------------------------------
(* Coverage *)

EmptyCoverage == [gen |-> 0, marks |-> [s \in Subsets |-> None]]

\* Marks of the newer generation, or the larger of two marks of the same one.
MergeCoverage(a, b) ==
    IF a.gen # b.gen THEN IF a.gen > b.gen THEN a ELSE b
    ELSE [a EXCEPT !.marks = [s \in Subsets |-> MaxSyncId(@[s], b.marks[s])]]

\* The given subsets are current through at.
Advanced(cov, subsets, at) ==
    [cov EXCEPT !.marks = [s \in Subsets |->
        IF s \in subsets THEN AdvanceSyncId(@[s], at) ELSE @[s]]]

CoveredSubsets(cov) == {s \in Subsets : cov.marks[s] # None}

\* The extractors applied to a row version; no row is in no subset.
HomeOf(w) == IF w = Absent THEN Gone ELSE versions[w]

\* The marks of the covered subsets a row under this home belongs to.
CoveringMarks(cov, home) == {cov.marks[s] : s \in {x \in CoveredSubsets(cov) : home \in SubsetHomes[x]}}

NewerThan(cov, home, at) == \E mark \in CoveringMarks(cov, home) : mark > at

\* What an Upsert or Delete leaves of the row it names: a signal some covering mark
\* of the old or new membership is past is stale; a fresh one writes a covered row
\* and deletes one that left every covered subset.  (A Delete's home is Gone.)
AppliedRow(cov, old, r) ==
    IF \E mark \in CoveringMarks(cov, r.home) \cup CoveringMarks(cov, HomeOf(old)) : r.id <= mark
    THEN old
    ELSE IF CoveringMarks(cov, r.home) # {} THEN r.w
    ELSE Absent

\* What a Snapshot keeps of the coverage: nothing of an older generation, else the
\* marks it does not outrun.
KeptCoverage(cov, gen, at) ==
    [gen |-> gen, marks |-> [s \in Subsets |->
        IF gen = cov.gen /\ cov.marks[s] >= at THEN cov.marks[s] ELSE None]]

\* Mutant: rows proved newer by an overlapping subset are overwritten.
SliceRow_Overwrite(state, reset, s, at, old, new) ==
    IF new # Absent THEN new
    ELSE IF reset \/ HomeOf(old) \in SubsetHomes[s] THEN Absent
    ELSE old

\* One row of a landing slice: a fetched row is written and a row of the subset that
\* was not fetched is deleted, unless an overlapping subset proves it newer than the
\* slice; a new generation deletes whatever else is there.
SliceRow(state, reset, s, at, old, new) ==
    IF new # Absent
    THEN IF NewerThan(state, HomeOf(new), at) \/ NewerThan(state, HomeOf(old), at) THEN old ELSE new
    ELSE IF reset \/ (HomeOf(old) \in SubsetHomes[s] /\ ~NewerThan(state, HomeOf(old), at)) THEN Absent
    ELSE old

-----------------------------------------------------------------------------
(* The instance and its drain *)

\* Taking a signal and applying it is one synchronous run: nothing steps in between.
Applying == sub[Partial].pc \in {"land", "list"}

\* The broker, restoring the durable subset marks while it assembles the mount.
RestoreSubsets ==
    /\ ReadMark(Partial)
    /\ LET seed == [gen |-> generation, marks |-> [s \in Subsets |-> journal.marks[s]]]
       IN  coverage' = MergeCoverage(coverage, seed)
    /\ UNCHANGED <<versions, covered, load, loaded>>

\* An Upsert or a Delete; live delivery proves every covered subset current.
ApplySignal ==
    /\ sub[Partial].pc = "land"
    /\ LET r == sub[Partial].sig.row
       IN  /\ Commit(Partial, [store[Partial] EXCEPT ![r.e] = AppliedRow(coverage, @, r)])
           /\ covered' = CoveredSubsets(coverage)
           /\ coverage' = Advanced(coverage, covered', r.id)
    /\ sub' = [sub EXCEPT ![Partial].pc = "ack"]
    /\ UNCHANGED <<log, writes, epoch, retained, wire, journal, ingest, pending, generation,
                   gate, versions, load, loaded>>

\* A Snapshot lists nothing: it drops what is not proven at or past it, so that the
\* next ensure fetches.
ApplySnapshot ==
    /\ sub[Partial].pc = "list"
    /\ LET at == sub[Partial].sig.row.id
           gen == sub[Partial].sig.gen
           kept == KeptCoverage(coverage, gen, at)
           lost == {s \in CoveredSubsets(coverage) : kept.marks[s] = None}
       IN  /\ gen = coverage.gen => lost = {} \/ "dropped-coverage" \in LoadWindows
           /\ IF gen < coverage.gen THEN UNCHANGED <<store, disk, coverage>>
              ELSE /\ coverage' = kept
                   /\ Commit(Partial, [e \in Entities |->
                        IF CoveringMarks(kept, HomeOf(store[Partial][e])) # {}
                        THEN store[Partial][e] ELSE Absent])
    /\ covered' = {}
    /\ sub' = [sub EXCEPT ![Partial].pc = "ack"]
    /\ UNCHANGED <<log, writes, epoch, retained, wire, journal, ingest, pending, generation,
                   gate, versions, load, loaded>>

\* Mutant: every subset is acked, covered or not.
AckSubsets_All ==
    /\ sub[Partial].pc = "ack"
    /\ gate = Free
    /\ pending' = IF sub[Partial].sig.gen # generation THEN pending
                  ELSE [c \in Collections |-> AdvanceSyncId(pending[c], sub[Partial].sig.row.id)]
    /\ sub' = [sub EXCEPT ![Partial].pc = "idle", ![Partial].sig = NoItem]
    /\ covered' = {}
    /\ UNCHANGED <<log, writes, epoch, retained, wire, journal, store, disk, ingest, generation,
                   gate, versions, coverage, load, loaded>>

\* The ack marks the subsets the application reported, and the collection.
AckSubsets ==
    /\ sub[Partial].pc = "ack"
    /\ gate = Free
    /\ pending' = IF sub[Partial].sig.gen # generation THEN pending
                  ELSE [c \in Collections |->
                          IF c \in covered \cup {Partial}
                          THEN AdvanceSyncId(pending[c], sub[Partial].sig.row.id)
                          ELSE pending[c]]
    /\ sub' = [sub EXCEPT ![Partial].pc = "idle", ![Partial].sig = NoItem]
    /\ covered' = {}
    /\ UNCHANGED <<log, writes, epoch, retained, wire, journal, store, disk, ingest, generation,
                   gate, versions, coverage, load, loaded>>

\* The instance is disposed of; its rows stay persisted and marks not flushed yet
\* stay with the tracker.  No ensure is running.
Dispose ==
    /\ ~Applying
    /\ Unmount(Partial)
    /\ \A s \in Subsets : load[s].pc = "off"
    /\ \/ "unflushed-remount" \in LoadWindows
       \/ \A s \in Subsets : pending[s] = None
    /\ coverage' = EmptyCoverage
    /\ covered' = {}
    /\ loaded' = {}
    /\ UNCHANGED <<versions, load>>

-----------------------------------------------------------------------------
(* ensureSubset *)

Load == [pc : {"off", "cursor", "floor", "plan", "ask", "fetch", "answer", "land", "replay",
               "read", "apply"},
         gen : Nat, mark : OptionalSyncId, cursor : OptionalSyncId, floor : OptionalSyncId,
         since : SyncId, through : SyncId, rows : SUBSET Row,
         epoch : Nat, members : [Entities -> Nat]]
NoLoad == [pc |-> "off", gen |-> 0, mark |-> None, cursor |-> None, floor |-> None,
           since |-> 0, through |-> 0, rows |-> {}, epoch |-> 0, members |-> NoRows]
NoLoads == [s \in Subsets |-> NoLoad]

\* The ensure of s is at the given point, and may go on.
At(s, pc) == load[s].pc = pc /\ ~Applying

\* One step of the ensure of s that touches nothing but its own state.
LoadStep(s, from, next) ==
    /\ At(s, from)
    /\ load' = [load EXCEPT ![s] = next]
    /\ UNCHANGED <<log, writes, epoch, retained, wire, journal, store, disk, ingest, pending,
                   generation, gate, sub, versions, coverage, covered, loaded>>

\* loadBy*: one ensure per subset at a time.  Note the generation and read the
\* durable mark; none of the planning reads is under the recovery gate ...
EnsureSubset(s) ==
    /\ gate = Ingest => "plan-during-recovery" \in LoadWindows
    /\ LoadStep(s, "off", [NoLoad EXCEPT !.pc = "cursor", !.gen = generation, !.mark = journal.marks[s]])

\* ... then the pending mark and the cursor, then the floor ...
PlanCursor(s) ==
    LoadStep(s, "cursor", [load[s] EXCEPT !.pc = "floor", !.mark = MaxSyncId(@, pending[s]),
                                          !.cursor = journal.cursor])

PlanFloor(s) ==
    LoadStep(s, "floor", [load[s] EXCEPT !.pc = "plan", !.floor = journal.floor[CollModel[s]]])

\* ... then the last resync.  A Skip resolves at once, unless a recovery began.
Plan(s) ==
    LET l == load[s]
        plan == PlanMount(l.mark, l.cursor, l.floor, journal.resync)
    IN  /\ At(s, "plan")
        /\ load' = [load EXCEPT ![s] =
             IF plan.decision = "Skip" THEN NoLoad
             ELSE [NoLoad EXCEPT !.gen = l.gen,
                     !.pc = IF plan.decision = "Replay" THEN "replay" ELSE "ask",
                     !.since = plan.since, !.through = plan.guard]]
        /\ loaded' = IF plan.decision = "Skip" /\ l.gen = generation THEN loaded \cup {s} ELSE loaded
        /\ UNCHANGED <<log, writes, epoch, retained, wire, journal, store, disk, ingest, pending,
                       generation, gate, sub, versions, coverage, covered>>

\* hydrateBatch: the epoch and the head, read first, are the stamp ...
ServeStamp(s) ==
    LoadStep(s, "ask", [NoLoad EXCEPT !.pc = "fetch", !.gen = load[s].gen, !.since = Len(log),
                                      !.through = Len(log), !.epoch = epoch])

\* ... then the rows of the subset; all over again if the timeline changed.
ServeMembers(s) ==
    LoadStep(s, "fetch",
        IF load[s].epoch # epoch THEN [NoLoad EXCEPT !.pc = "ask", !.gen = load[s].gen]
        ELSE [load[s] EXCEPT !.pc = "answer", !.members = [e \in Entities |->
                LET now == EntryAt(e, Len(log))
                IN  IF now.home \in SubsetHomes[s] THEN now.w ELSE Absent]])

\* The fetch fails or the server refuses: no mark, the next call asks again.
LoadFails(s) == LoadStep(s, "fetch", NoLoad)

\* A stamp of another timeline than the journal's is refused.
CheckEpoch(s) ==
    LoadStep(s, "answer",
        IF journal.epoch # None /\ load[s].epoch # journal.epoch THEN NoLoad
        ELSE [load[s] EXCEPT !.pc = "land"])

\* Mutant: a recovery since the ensure began goes unnoticed.
GateOrFail_Unchecked(s, next) ==
    /\ gate = Free
    /\ sub[Partial].pc # "off"
    /\ gate' = s /\ load' = [load EXCEPT ![s] = next]

\* Both paths take the recovery gate and fail if a recovery began since.  The gate is
\* granted in order and the drain, forked with the instance, asked for it before.
GateOrFail(s, next) ==
    /\ gate = Free
    /\ sub[Partial].pc # "off"
    /\ IF load[s].gen = generation
       THEN gate' = s /\ load' = [load EXCEPT ![s] = next]
       ELSE gate' = gate /\ load' = [load EXCEPT ![s] = NoLoad]

BeginReplay(s) ==
    /\ At(s, "replay")
    /\ GateOrFail(s, [load[s] EXCEPT !.pc = "read"])
    /\ UNCHANGED <<log, writes, epoch, retained, wire, journal, store, disk, ingest, pending,
                   generation, sub, versions, coverage, covered, loaded>>

\* Mutant: events ingested while the slice was under way are not replayed over it.
ReplaceSlice_NoReplay(s) ==
    LET l == load[s]
        reset == l.gen > coverage.gen
        state == IF reset THEN [EmptyCoverage EXCEPT !.gen = l.gen] ELSE coverage
    IN  /\ At(s, "land")
        /\ GateOrFail(s, [l EXCEPT !.pc = "apply", !.members = NoRows])
        /\ IF l.gen # generation THEN UNCHANGED <<store, disk, coverage>>
           ELSE /\ Commit(Partial, [e \in Entities |->
                     SliceRow(state, reset, s, l.since, store[Partial][e], l.members[e])])
                /\ coverage' = Advanced(state, {s}, l.since)
        /\ UNCHANGED <<log, writes, epoch, retained, wire, journal, ingest, pending,
                       generation, sub, versions, covered, loaded>>

\* The slice lands in one transaction and activates the subset's coverage at the stamp.
ReplaceSlice(s) ==
    LET l == load[s]
        reset == l.gen > coverage.gen
        state == IF reset THEN [EmptyCoverage EXCEPT !.gen = l.gen] ELSE coverage
    IN  /\ At(s, "land")
        /\ GateOrFail(s, [l EXCEPT !.pc = "read", !.members = NoRows])
        /\ IF l.gen # generation THEN UNCHANGED <<store, disk, coverage>>
           ELSE /\ Commit(Partial, [e \in Entities |->
                     SliceRow(state, reset, s, l.since, store[Partial][e], l.members[e])])
                /\ coverage' = Advanced(state, {s}, l.since)
        /\ UNCHANGED <<log, writes, epoch, retained, wire, journal, ingest, pending,
                       generation, sub, versions, covered, loaded>>

\* replayFrom: the journal's rows past the stamp or mark ...
ReadSlice(s) ==
    LET rows == ReadRows(journal, CollModel[s], load[s].since)
    IN  LoadStep(s, "read", [load[s] EXCEPT !.pc = "apply", !.rows = rows,
                                !.through = Max({@} \cup {r.id : r \in rows})])

\* ... applied one by one, proving this subset current and no other ...
ReplayRow(s) ==
    LET r == Oldest(load[s].rows)
    IN  /\ At(s, "apply") /\ load[s].rows # {}
        /\ Commit(Partial, [store[Partial] EXCEPT ![r.e] = AppliedRow(coverage, @, r)])
        /\ coverage' = Advanced(coverage, {s}, r.id)
        /\ load' = [load EXCEPT ![s].rows = @ \ {r}]
        /\ UNCHANGED <<log, writes, epoch, retained, wire, journal, ingest, pending,
                       generation, gate, sub, versions, covered, loaded>>

\* Mutant: the permit is not returned.
FinishLoad_KeepsGate(s) ==
    /\ At(s, "apply") /\ load[s].rows = {}
    /\ pending' = [pending EXCEPT ![s] = AdvanceSyncId(@, load[s].through)]
    /\ load' = [load EXCEPT ![s] = NoLoad]
    /\ loaded' = loaded \cup {s}
    /\ UNCHANGED <<log, writes, epoch, retained, wire, journal, store, disk, ingest, generation,
                   gate, sub, versions, coverage, covered>>

\* ... and then the mark, through the last of them.
FinishLoad(s) ==
    /\ At(s, "apply") /\ load[s].rows = {}
    /\ pending' = [pending EXCEPT ![s] = AdvanceSyncId(@, load[s].through)]
    /\ gate' = Free
    /\ load' = [load EXCEPT ![s] = NoLoad]
    /\ loaded' = loaded \cup {s}
    /\ UNCHANGED <<log, writes, epoch, retained, wire, journal, store, disk, ingest, generation,
                   sub, versions, coverage, covered>>

-----------------------------------------------------------------------------
(* The composition *)

\* A write of the broker's server also fixes what its row version looks like; the
\* window "observed-pair" includes rows a fetched slice is about to show.
WriteVersion ==
    /\ ~Applying
    /\ \E e \in Entities, home \in Homes \cup {Gone} :
        /\ \/ /\ Write(e, home)
              /\ home = Gone /\ "observed-pair" \notin Windows =>
                    ~(InsertAhead(e) /\ \E s \in Subsets : load[s].members[e] # Absent)
           \/ BulkChange(e, home)
        /\ versions' = Append(versions, home)
    /\ UNCHANGED <<coverage, covered, load, loaded>>

\* Dead weight is decided while an ensure has no mark on record, or a count cap
\* commits between an ensure's reads.
PruneWaits ==
    \/ "prune-during-load" \in LoadWindows
    \/ \A s \in Subsets : load[s].pc = "off"

\* Every other step of the broker; a new generation disowns what was loaded.
BrokerStep ==
    /\ ~Applying
    /\ \/ Expire \/ Restore \/ Serve \/ Start \/ Run \/ TimedFlush \/ Fail \/ Stop
       \/ Mount(Partial) \/ ReadFloor(Partial) \/ ReadJournal(Partial)
       \/ TakeReplay(Partial) \/ TakeTail(Partial)
    /\ ingest.pc \in {"prune", "commit"} /\ ingest' # ingest => PruneWaits
    /\ loaded' = IF generation' = generation THEN loaded ELSE {}
    /\ UNCHANGED <<versions, coverage, covered, load>>

Reload ==
    /\ ~Applying
    /\ Crash
    /\ coverage' = EmptyCoverage
    /\ covered' = {}
    /\ load' = NoLoads
    /\ loaded' = {}
    /\ UNCHANGED versions

LoadSubset(s) ==
    EnsureSubset(s) \/ PlanCursor(s) \/ PlanFloor(s) \/ Plan(s)
    \/ ServeStamp(s) \/ ServeMembers(s) \/ LoadFails(s) \/ CheckEpoch(s)
    \/ BeginReplay(s) \/ ReplaceSlice(s) \/ ReadSlice(s) \/ ReplayRow(s) \/ FinishLoad(s)

PInit ==
    /\ Init
    /\ versions = <<>>
    /\ coverage = EmptyCoverage
    /\ covered = {}
    /\ load = [s \in Subsets |-> NoLoad]
    /\ loaded = {}

PNext ==
    \/ RestoreSubsets \/ ApplySignal \/ ApplySnapshot \/ AckSubsets
    \/ WriteVersion \/ BrokerStep \/ Dispose \/ Reload
    \/ \E s \in Subsets : LoadSubset(s)

PSpec == PInit /\ [][PNext]_pvars

-----------------------------------------------------------------------------
(* What a partial collection promises *)

\* Loads, coverage and marks keep their types; a planned replay always has a start.
PartialTypeOK ==
    /\ versions \in Seq(Homes \cup {Gone}) /\ Len(versions) = writes
    /\ coverage \in [gen : Nat, marks : [Subsets -> OptionalSyncId]]
    /\ covered \subseteq Subsets /\ loaded \subseteq Subsets
    /\ load \in [Subsets -> Load]
    /\ gate \in Collections \cup {Free, Ingest}
    /\ \A s \in Subsets : gate = s <=> load[s].pc \in {"read", "apply"}

\* What subset s shows of a row version, and whether that is what the server had of e
\* at some position from m on.
View(s, w) == IF HomeOf(w) \in SubsetHomes[s] THEN w ELSE Absent
ShownFrom(s, w, e, m) ==
    LET shown == View(s, w)
    IN  \E t \in m .. Len(log) : shown = View(s, RowAt(Partial, e, t))

\* A slice of another subset, fetched after e left that one, has taken e away: the
\* event that says where e went is yet to come.
TakenAhead(rows, e) ==
    rows[e] = Absent /\ \E n \in OrZero(journal.cursor) + 1 .. Len(log) : log[n].e = e

\* No ensure crosses a recovery: once it has the gate and replays over its slice the
\* generation it noted stays the present one, and no mark, its own or the applier's, is
\* pending or on record between the change of generation and the fanout.
NoLoadAcrossRecovery ==
    /\ NoMarkAcrossRecovery
    /\ \A s \in Subsets : load[s].pc \in {"read", "apply"} => load[s].gen = generation

\* Every mark of a subset, the tracker's and the coverage map's, tells the truth:
\* the subset's rows show the server as of some position at or after it, unless the
\* journal holds a newer row of the entity or says that it pruned one.
SubsetMarksSound ==
    OnTimeline /\ ingest.pc \notin {"wipe", "tell"} =>
        \A s \in Subsets :
            LET tracked == MaxSyncId(journal.marks[s], pending[s])
                marks == {tracked} \cup IF coverage.gen = generation THEN {coverage.marks[s]} ELSE {}
            IN  \A m \in marks \ {None} :
                    journal.floor[CollModel[s]] <= m =>
                        \A e \in Entities :
                            \/ \E r \in journal.log : r.e = e /\ r.id > m
                            \/ ShownFrom(s, store[Partial][e], e, m)
                            \/ TakenAhead(store[Partial], e)

\* The rows and coverage once the drain has applied what it was already handed.
AfterOutstanding ==
    LET out == Outstanding(Partial)
        after[n \in 0 .. Len(log)] ==
            IF n = 0 THEN [rows |-> store[Partial], cov |-> coverage]
            ELSE IF \A r \in out : r.id # n THEN after[n - 1]
            ELSE LET r == CHOOSE r \in out : r.id = n
                     acc == after[n - 1]
                 IN  [rows |-> [acc.rows EXCEPT ![r.e] = AppliedRow(acc.cov, @, r)],
                      cov |-> Advanced(acc.cov, CoveredSubsets(acc.cov), n)]
    IN  after[Len(log)]

\* loadBy* resolves when the subset is current, and a mounted subset stays so: with
\* the signals already handed over applied, it shows the server through the cursor.
\* (A replay in progress shows its rows one by one.)
LoadedStaysCurrent ==
    OnTimeline /\ ingest.state # "Recovering" /\ gate \notin Subsets
    /\ sub[Partial].pc \in {"idle", "ack"} /\ ~SnapshotDue(Partial) =>
        LET rows == AfterOutstanding.rows
        IN  \A s \in loaded, e \in Entities :
                \/ ShownFrom(s, rows[e], e, OrZero(journal.cursor))
                \/ TakenAhead(rows, e)
=============================================================================
