------------------------ MODULE MCPartialCollection ------------------------
(* Small instances of PartialCollection: two disjoint subsets under one index *)
(* (by home), or two overlapping ones of two indexes.                         *)
EXTENDS PartialCollection

ASSUME PartialConstants == PartialOK

MCEntityModel == [e \in Entities |-> "m"]
MCCollModel == [c \in Collections |-> "m"]
MCCollScope == [c \in Collections |-> Global]
MCByHome == [s \in Subsets |-> IF s = "s1" THEN {"h1"} ELSE {"h2"}]
MCOverlap == [s \in Subsets |-> IF s = "s1" THEN {"h1"} ELSE Homes]

\* A state a client passes through: mounted and streaming, the wider subset loaded
\* while the server was empty, and one event on its way.
FirstEvent == [id |-> 1, e |-> "e1", tag |-> "Upsert", home |-> "h1", w |-> 1]
Serving ==
    /\ log = <<[e |-> "e1", tag |-> "Insert", home |-> "h1", w |-> 1]>> /\ writes = 1
    /\ epoch = 0 /\ retained = 0
    /\ wire = [stage |-> "sent", last |-> 1, epoch |-> 0, resync |-> FALSE, events |-> {FirstEvent}]
    /\ journal = [EmptyJournal EXCEPT !.epoch = 0, !.cursor = 0,
                                            !.marks = [c \in Collections |-> IF c = "s1" THEN None ELSE 0]]
    /\ store = [c \in Collections |-> NoRows] /\ disk = store
    /\ ingest = Streaming(0) /\ pending = NoMarks /\ generation = 0 /\ gate = Free
    /\ sub = [c \in Collections |-> IF c = Partial THEN [Detached EXCEPT !.pc = "idle"] ELSE Detached]
    /\ versions = <<"h1">>
    /\ coverage = [EmptyCoverage EXCEPT !.marks = [s \in Subsets |-> IF s = "s2" THEN 0 ELSE None]]
    /\ covered = {}
    /\ load = [s \in Subsets |-> NoLoad] /\ loaded = Subsets \ {"s1"}

ServingSpec == Serving /\ [][PNext]_pvars

\* A later state, of a client of one subset: that event is journaled, applied and acked,
\* its mark waits for a flush, and nothing was loaded yet.
Settled ==
    /\ log = <<[e |-> "e1", tag |-> "Insert", home |-> "h1", w |-> 1]>> /\ writes = 1
    /\ epoch = 0 /\ retained = 0
    /\ wire = NoBatch
    /\ journal = [EmptyJournal EXCEPT !.epoch = 0, !.cursor = 1, !.log = {FirstEvent},
                                      !.marks = [c \in Collections |-> IF c \in Subsets THEN None ELSE 0]]
    /\ store = [c \in Collections |-> NoRows] /\ disk = store
    /\ ingest = Streaming(1) /\ pending = [NoMarks EXCEPT ![Partial] = 1] /\ generation = 0 /\ gate = Free
    /\ sub = [c \in Collections |->
                 IF c = Partial THEN [Detached EXCEPT !.pc = "idle", !.guard = 1] ELSE Detached]
    /\ versions = <<"h1">>
    /\ coverage = [EmptyCoverage EXCEPT !.marks = [s \in Subsets |-> None]] /\ covered = {}
    /\ load = [s \in Subsets |-> NoLoad] /\ loaded = {}

SettledSpec == Settled /\ [][PNext]_pvars
=============================================================================
