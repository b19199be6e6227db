------------------------------ MODULE WritePath ------------------------------
(* A device that writes todos optimistically.  The bridge of                  *)
(* define-collection.ts sends one request per mutation and folds the answer   *)
(* into the synced rows, while the drain and the ensures write the same rows  *)
(* from the server's events (partial-coverage.ts).  The session's other       *)
(* devices meet this one only in the server, where their requests arrive at   *)
(* any time.  How events get from the wire to the drain is in SyncBroker and  *)
(* PartialCollection; here they reach the device in order, each resolved when *)
(* it is served.                                                              *)
EXTENDS DemoServer, SequencesExt

CONSTANTS
    ProjectOf,          \* the project a todo is written into; the demo never moves one
    MaxWrites,          \* the mutations made, here and elsewhere
    MaxRecoveries       \* the recoveries

ASSUME WriteConstants ==
    /\ ProjectOf \in [TodoIds -> ProjectIds]
    /\ MaxWrites \in Nat /\ MaxRecoveries \in Nat

\* Interleavings that leave a synced row behind the server.  "hidden-row": what the
\* applier finds of a row is what the device shows, and a pending delete hides a row the
\* store still holds, so its removal is skipped.  "kept-row": a recovery that keeps a
\* subset writes down what the device shows of it, pending mutations included.
\* "late-answer": the answer to a write comes after the event of a later write of that
\* row has been applied.
Races == {"hidden-row", "kept-row", "late-answer"}

VARIABLES
    mutations,          \* the unsettled optimistic mutations, oldest first
    synced,             \* the synced rows
    coverage,           \* the projects proven current, in which generation, through where
    journal,            \* the todo signals since the last recovery
    applied,            \* how many of them the drain has applied
    ingested,           \* the last syncId ingested
    generation,         \* the recoveries so far
    slice,              \* the answer to a running ensure
    writes,             \* the mutations made so far
    raced               \* history, not state of the code: the races each row last lost

device == <<mutations, synced, coverage, journal, applied, ingested, generation, slice, raced>>
wvars == <<projects, todos, events, mutations, synced, coverage, journal, applied, ingested,
           generation, slice, raced, writes>>

None == -1
NoSlice == [project |-> NoRow]
NoCoverage(gen) == [gen |-> gen, marks |-> [p \in ProjectIds |-> None]]

Mutation == [todo : TodoIds, kind : Tags, row : Todo \cup {NoRow},
             state : {"asked", "confirmed", "failed"}, at : Nat]
Signal == [kind : {"Event"}, at : Nat, todo : TodoIds, row : Todo \cup {NoRow}]
          \cup [kind : {"Snapshot"}, at : Nat]

WInit ==
    /\ ServerInit
    /\ mutations = <<>>
    /\ synced = [t \in TodoIds |-> NoRow]
    /\ coverage = NoCoverage(0)
    /\ journal = <<>>
    /\ applied = 0 /\ ingested = 0 /\ generation = 0
    /\ slice = NoSlice
    /\ writes = 0
    /\ raced = [t \in TodoIds |-> {}]

\* The newest pending mutation of a todo hides what the given rows hold of it.
On(t) == {i \in DOMAIN mutations : mutations[i].todo = t}
Shown(rows, t) == IF On(t) = {} THEN rows[t] ELSE mutations[Max(On(t))].row

\* The device hides the row the given rows hold of t.
Hidden(rows, t) == rows[t] # NoRow /\ Shown(rows, t) = NoRow

Known(model, id) == \E i \in DOMAIN events : Names(events[i], model, id)

-----------------------------------------------------------------------------
(* Mutations *)

\* collection.insert / update / delete: shown at once, and one request each.
Mutate(t, kind, row) ==
    /\ writes < MaxWrites
    /\ writes' = writes + 1
    /\ mutations' = Append(mutations,
            [todo |-> t, kind |-> kind, row |-> row, state |-> "asked", at |-> 0])
    /\ UNCHANGED <<server, synced, coverage, journal, applied, ingested, generation, slice, raced>>

\* addTodo, and a new session's first todos: the id is new, and the project may still
\* be on its way to the server.
Insert(t) ==
    /\ ~Known("Todo", t) /\ On(t) = {}
    /\ Mutate(t, "Insert", [project |-> ProjectOf[t], version |-> writes + 1])

\* Toggling a todo that is shown, and deleting it.
Update(t) ==
    LET row == Shown(synced, t)
    IN  row # NoRow /\ Mutate(t, "Update", [row EXCEPT !.version = writes + 1])

Delete(t) == Shown(synced, t) # NoRow /\ Mutate(t, "Delete", NoRow)

\* The request reaches the server, in no particular order, and is accepted ...
Confirm(i) ==
    LET m == mutations[i]
    IN  /\ m.state = "asked"
        /\ IF m.kind = "Delete" THEN RemoveTodo(m.todo) ELSE UpsertTodo(m.todo, m.row)
        /\ mutations' = [mutations EXCEPT ![i].state = "confirmed", ![i].at = Len(events')]
        /\ UNCHANGED <<synced, coverage, journal, applied, ingested, generation, slice, raced, writes>>

\* ... or it is refused, or lost, or the answer is.
Fails(i) ==
    /\ mutations[i].state # "failed"
    /\ mutations' = [mutations EXCEPT ![i].state = "failed"]
    /\ UNCHANGED <<server, synced, coverage, journal, applied, ingested, generation, slice, raced, writes>>

\* A later write of the same todo is already under the mark of its project.
Overtaken(m) ==
    \E n \in m.at + 1 .. coverage.marks[ProjectOf[m.todo]] : Names(events[n], "Todo", m.todo)

\* Mutant: the row is written whether or not the server took it.
Settle_Always(i) ==
    LET m == mutations[i]
    IN  /\ m.state # "asked"
        /\ synced' = [synced EXCEPT ![m.todo] = m.row]
        /\ raced' = [raced EXCEPT ![m.todo] = IF Overtaken(m) THEN {"late-answer"} ELSE {}]
        /\ mutations' = RemoveAt(mutations, i)
        /\ UNCHANGED <<server, coverage, journal, applied, ingested, generation, slice, writes>>

\* The bridge: a confirmed row is written (a confirmed delete removed) and the
\* mutation dropped; a failure drops the mutation alone.
Settle(i) ==
    LET m == mutations[i]
    IN  /\ m.state # "asked"
        /\ IF m.state = "failed" THEN UNCHANGED <<synced, raced>>
           ELSE /\ synced' = [synced EXCEPT ![m.todo] = m.row]
                /\ raced' = [raced EXCEPT ![m.todo] = IF Overtaken(m) THEN {"late-answer"} ELSE {}]
        /\ mutations' = RemoveAt(mutations, i)
        /\ UNCHANGED <<server, coverage, journal, applied, ingested, generation, slice, writes>>

\* A request of another device; it may write a todo that yet another one has deleted.
Elsewhere(t) ==
    /\ writes < MaxWrites
    /\ writes' = writes + 1
    /\ On(t) # {} => Known("Todo", t)
    /\ RemoveTodo(t) \/ UpsertTodo(t, [project |-> ProjectOf[t], version |-> writes + 1])
    /\ UNCHANGED device

\* A project is added, under a new id, or removed, here or elsewhere.  (The Project
\* collection is drained like any other: see SyncBroker.)
ProjectWrite(p) ==
    /\ \/ RemoveProject(p)
       \/ ~Known("Project", p) /\ UpsertProject(p)
    /\ UNCHANGED <<device, writes>>

-----------------------------------------------------------------------------
(* Events *)

\* The next event arrives, resolved as it is served: its row as it is by then, or a
\* Delete when there is none.  An event of another model only moves the cursor.
Receive ==
    LET i == ingested + 1
        e == events[i]
    IN  /\ i <= Len(events)
        /\ ingested' = i
        /\ journal' = IF e.model # "Todo" THEN journal
                      ELSE Append(journal, [kind |-> "Event", at |-> i, todo |-> e.id,
                             row |-> IF e.tag = "Delete" THEN NoRow ELSE todos[e.id]])
        /\ UNCHANGED <<server, mutations, synced, coverage, applied, generation, slice, raced, writes>>

\* Mutant: the drain goes on at its old place in the wiped journal.
Recover_KeepsPlace ==
    /\ generation < MaxRecoveries
    /\ generation' = generation + 1
    /\ journal' = <<[kind |-> "Snapshot", at |-> Len(events)]>>
    /\ ingested' = Len(events)
    /\ UNCHANGED <<server, mutations, synced, coverage, applied, slice, raced, writes>>

\* A recovery: the journal is wiped and the drain told to start over from the head.
Recover ==
    /\ generation < MaxRecoveries
    /\ generation' = generation + 1
    /\ journal' = <<[kind |-> "Snapshot", at |-> Len(events)]>>
    /\ applied' = 0
    /\ ingested' = Len(events)
    /\ UNCHANGED <<server, mutations, synced, coverage, slice, raced, writes>>

\* The mark that covers a row, if its project is covered.
Covering(marks, row) == IF row = NoRow THEN {} ELSE {marks[row.project]} \ {None}
Covered(marks) == {p \in ProjectIds : marks[p] # None}

\* The given projects are current through at.
Advanced(marks, covered, at) ==
    [p \in ProjectIds |-> IF p \in covered THEN Max({marks[p], at}) ELSE marks[p]]

\* Mutant: a signal is applied however old it is.
Land_AnyAge(rows, marks, sig) ==
    LET old == Shown(rows, sig.todo)
        new == IF Covering(marks, sig.row) # {} THEN sig.row ELSE NoRow
    IN  IF old = NoRow /\ new = NoRow THEN rows ELSE [rows EXCEPT ![sig.todo] = new]

\* makePartialApplier on one event: it is stale if a mark covering the row it brings,
\* or the row the device shows, is not before it; a fresh one writes a covered row and
\* deletes a shown one that is gone or not covered.
Land(rows, marks, sig) ==
    LET old == Shown(rows, sig.todo)
        new == IF Covering(marks, sig.row) # {} THEN sig.row ELSE NoRow
    IN  IF \/ \E mark \in Covering(marks, sig.row) \cup Covering(marks, old) : sig.at <= mark
           \/ old = NoRow /\ new = NoRow
        THEN rows
        ELSE [rows EXCEPT ![sig.todo] = new]

\* ... and what the signal makes of the races of its row: one that the mark is past
\* changes nothing, any other settles them, unless it finds nothing where a row is hidden.
RacedBy(races, rows, marks, sig) ==
    [races EXCEPT ![sig.todo] =
        IF sig.at <= marks[ProjectOf[sig.todo]] THEN @
        ELSE IF Hidden(rows, sig.todo) /\ Covering(marks, sig.row) = {} THEN @ \cup {"hidden-row"}
        ELSE {}]

\* The drain applies the next event; it proves every covered project current.
ApplyEvent ==
    LET sig == journal[applied + 1]
        marks == coverage.marks
    IN  /\ applied < Len(journal) /\ sig.kind = "Event"
        /\ synced' = Land(synced, marks, sig)
        /\ raced' = RacedBy(raced, synced, marks, sig)
        /\ coverage' = [coverage EXCEPT !.marks = Advanced(@, Covered(marks), sig.at)]
        /\ applied' = applied + 1
        /\ UNCHANGED <<server, mutations, journal, ingested, generation, slice, writes>>

\* The drain applies the recovery's Snapshot: what the device shows of a project that
\* an ensure of this generation already covered is written, everything else goes.
ApplySnapshot ==
    LET sig == journal[applied + 1]
        kept == IF coverage.gen < generation THEN NoCoverage(generation)
                ELSE [coverage EXCEPT !.marks = [p \in ProjectIds |-> IF @[p] >= sig.at THEN @[p] ELSE None]]
        show == [t \in TodoIds |-> Shown(synced, t)]
    IN  /\ applied < Len(journal) /\ sig.kind = "Snapshot"
        /\ synced' = [t \in TodoIds |-> IF Covering(kept.marks, show[t]) # {} THEN show[t] ELSE NoRow]
        /\ raced' = [t \in TodoIds |-> IF kept.marks[ProjectOf[t]] = None THEN {}
                                       ELSE IF show[t] = synced[t] THEN raced[t]
                                       ELSE raced[t] \cup {"kept-row"}]
        /\ coverage' = kept
        /\ applied' = applied + 1
        /\ UNCHANGED <<server, mutations, journal, ingested, generation, slice, writes>>

-----------------------------------------------------------------------------
(* Ensures *)

\* loadByProjectId of a project no mark covers: the server answers with its head and
\* the rows of a project that exists (any other is Forbidden) ...
FetchSlice(p) ==
    /\ slice = NoSlice
    /\ coverage.gen = generation => coverage.marks[p] = None
    /\ p \in projects
    /\ slice' = [project |-> p, at |-> Len(events), gen |-> generation,
                 rows |-> [t \in TodoIds |-> IF t \in ListByProject(p) THEN todos[t] ELSE NoRow]]
    /\ UNCHANGED <<server, mutations, synced, coverage, journal, applied, ingested, generation, raced, writes>>

\* ... the answer is lost, or a recovery has made it worthless ...
LoseSlice ==
    /\ slice # NoSlice
    /\ slice' = NoSlice
    /\ UNCHANGED <<server, mutations, synced, coverage, journal, applied, ingested, generation, raced, writes>>

\* The marks an ensure lands on, and the rows: those fetched are written, those shown of
\* the project but not fetched are deleted (all rows shown, under a new generation).
Reset(s) == s.gen > coverage.gen
LandedMarks(s) ==
    Advanced(IF Reset(s) THEN NoCoverage(s.gen).marks ELSE coverage.marks, {s.project}, s.at)
LandedRows(s) ==
    LET gone(row) == row # NoRow /\ (Reset(s) \/ row.project = s.project)
    IN  [t \in TodoIds |-> IF s.rows[t] # NoRow THEN s.rows[t]
                           ELSE IF gone(Shown(synced, t)) THEN NoRow ELSE synced[t]]

\* The races of the rows it leaves alone, and of one that is hidden from it.
LandedRaces(s) ==
    [t \in TodoIds |-> IF ~Reset(s) /\ ProjectOf[t] # s.project THEN raced[t]
                       ELSE IF s.rows[t] = NoRow /\ Hidden(synced, t) THEN raced[t] \cup {"hidden-row"}
                       ELSE {}]

\* The events ingested since the fetch, replayed over it in their order.
Replayed(s) ==
    LET after[n \in 0 .. Len(journal)] ==
            IF n = 0 THEN [rows |-> LandedRows(s), marks |-> LandedMarks(s), raced |-> LandedRaces(s)]
            ELSE LET acc == after[n - 1]
                     sig == journal[n]
                 IN  IF sig.kind = "Event" /\ sig.at > s.at
                     THEN [rows |-> Land(acc.rows, acc.marks, sig),
                           marks |-> Advanced(acc.marks, {s.project}, sig.at),
                           raced |-> RacedBy(acc.raced, acc.rows, acc.marks, sig)]
                     ELSE acc
    IN  after[Len(journal)]

\* ... or it lands.
LandSlice ==
    LET s == slice
        done == Replayed(s)
    IN  /\ s # NoSlice /\ s.gen = generation
        /\ synced' = done.rows /\ raced' = done.raced
        /\ coverage' = [gen |-> s.gen, marks |-> done.marks]
        /\ slice' = NoSlice
        /\ UNCHANGED <<server, mutations, journal, applied, ingested, generation, writes>>

-----------------------------------------------------------------------------
(* The composition *)

WNext ==
    \/ \E p \in ProjectIds : ProjectWrite(p) \/ FetchSlice(p)
    \/ \E t \in TodoIds : Insert(t) \/ Update(t) \/ Delete(t) \/ Elsewhere(t)
    \/ \E i \in DOMAIN mutations : Confirm(i) \/ Fails(i) \/ Settle(i)
    \/ Receive \/ Recover \/ ApplyEvent \/ ApplySnapshot \/ LoseSlice \/ LandSlice

WSpec == WInit /\ [][WNext]_wvars

-----------------------------------------------------------------------------
(* What a device may show *)

\* The events and the device's mutations, rows, marks and signals keep their types.
WriteTypeOK ==
    /\ ServerTypeOK
    /\ mutations \in Seq(Mutation)
    /\ synced \in [TodoIds -> Todo \cup {NoRow}]
    /\ coverage \in [gen : 0 .. generation, marks : [ProjectIds -> Nat \cup {None}]]
    /\ journal \in Seq(Signal)
    /\ applied \in 0 .. Len(journal) /\ ingested \in 0 .. Len(events)
    /\ raced \in [TodoIds -> SUBSET Races]

\* What the server held of t once it had dispatched the first n events of its log.
HeldAt(log, t, n) ==
    LET about == {i \in 1 .. n : Names(log[i], "Todo", t)}
    IN  IF about = {} THEN NoRow ELSE log[Max(about)].row
Within(p, row) == IF row # NoRow /\ row.project = p THEN row ELSE NoRow

\* The synced row of t is what the server held of it at the mark of p or later.
MarkTells(p, t) ==
    LET m == coverage.marks[p]
    IN  coverage.gen = generation /\ m # None =>
            \E n \in m .. Len(events) : Within(p, synced[t]) = Within(p, HeldAt(events, t, n))

\* A coverage mark tells the truth while the device writes: a synced row is behind the
\* mark of its project only after a race it has lost, and then no longer than to the next
\* event, slice or answer that writes it.
MarksHoldUnderWrites ==
    \A p \in ProjectIds, t \in TodoIds : raced[t] = {} => MarkTells(p, t)

\* A coverage mark tells the truth, races or not.
\* (docs/partial-indexes.md: "my rows reflect the server through position N")
RowsReflectTheServer == \A p \in ProjectIds, t \in TodoIds : MarkTells(p, t)

\* What is synced has been server truth: a mutation the server refused, or that is
\* still on its way, is never left in the rows that survive it, except by a recovery that
\* keeps what the device shows.
SyncedIsServerTruth ==
    \A t \in TodoIds : synced[t] # NoRow /\ "kept-row" \notin raced[t] =>
        \E n \in DOMAIN events : Names(events[n], "Todo", t) /\ events[n].row = synced[t]
=============================================================================
