--------------------------- MODULE CoverageTheorems ---------------------------
(* The invariant of Coverage, over what the collections have been handed while *)
(* others move, a recovery, a mount and the steps of a drain, and what it      *)
(* promises: with the race windows closed, marks tell the truth, a crash loses *)
(* nothing and no delivery falls between the steps of a mount or a recovery,   *)
(* for every instance of the constants.                                        *)
EXTENDS CoverageProofs

-----------------------------------------------------------------------------
(* What is handed to a collection *)

\* The rows that a collection in tune will apply are true of the log.
LEMMA HandedFacts ==
    ASSUME Base, CoverageInv, OnLog, NEW c \in Collections, InTune(c)
    PROVE  /\ \A e : PlacedRows(e, Handed(c))
           /\ \A r \in Handed(c) :
                /\ r \in Row /\ r.id \in Nat /\ RowTells(r)
                /\ r.id > Here => /\ Safe(r.e, Here, r.id) /\ Plain(Here, r.id)
                                  /\ \E x \in journal.log : x.id = r.id /\ x.e = r.e
<1> DEFINE s == sub[c]
<1>1. Truths /\ LogTags /\ LogOK /\ Here \in Nat /\ Len(log) \in Nat /\ \A x \in journal.log : x.id \in Nat
    BY BaseLog DEF CoverageInv, Truths
<1>2. Handed(c) \subseteq {s.queue[k].row : k \in Queued(c)} \cup s.replay \cup {s.sig.row}
    BY DEF Handed, Live
<1>3. \A r \in Handed(c) : r \in Row /\ r.id \in Nat
    BY SMTT(40), <1>2, SubscriberTypes DEF Queued
<1>4. \A r \in Handed(c) : RowTells(r) /\ (r.id > Here => \E x \in journal.log : x.id = r.id)
    BY DEF InTune
<1>5. ASSUME NEW r \in Handed(c), r.id > Here
      PROVE  Safe(r.e, Here, r.id) /\ Plain(Here, r.id) /\ \E x \in journal.log : x.id = r.id /\ x.e = r.e
    <2>1. PICK x \in journal.log : x.id = r.id
        BY <1>4, <1>5
    <2>2. Safe(x.e, Here, x.id) /\ Told(x.id) /\ RowTells(x)
        BY <1>1, <1>5, <2>1 DEF Truths, JournalTells
    <2>3. x.e = r.e
        BY <1>4, <2>1, <2>2 DEF RowTells, Placed
    <2>4. PICK h \in x.id .. Len(log) : Accounted(journal.log, h)
        BY <2>2 DEF Told
    <2>5. Plain(Here, h) /\ h \in Nat /\ h >= r.id
        BY <1>1, <1>3, <2>1, <2>4 DEF Accounted
    <2>6. Plain(Here, r.id)
        BY <1>1, <1>3, <2>5 DEF Plain
    <2> QED
        BY <2>1, <2>2, <2>3, <2>6
<1>6. \A e : PlacedRows(e, Handed(c))
    BY <1>3, <1>4 DEF PlacedRows, RowTells
<1> QED
    BY <1>3, <1>4, <1>5, <1>6

\* A drain's step that leaves as much to apply, and applies what it took, stays in tune.
LEMMA DrainInTune ==
    ASSUME Base, CoverageInv, OnLog, NEW c \in Collections, Rest, InTune(c),
           NEW H, NEW U, NEW T, Handed(c)' = H, Unlisted(c)' = U, Table(c)' = T,
           InStep(c)' \/ \E j \in Queued(c)' : CalledAt(c, j)',
           \A k \in Queued(c)' : sub'[c].queue[k].gen = generation =>
               \E j \in Queued(c) : sub[c].queue[j].gen = generation /\ sub'[c].queue[k].row = sub[c].queue[j].row,
           H \subseteq Handed(c), \A r \in H : r.id > Current(c)',
           \A x \in journal.log : Reached(c, x.id)' => Reached(c, x.id),
           \A e \in Mine(c), m \in Here .. Len(log) :
               Covers(c, e, Here) /\ Covers(c, e, m) =>
                   \/ Covered(c, e, H, U, T, m)
                   \/ m > Here /\ \E r \in Handed(c) : r.e = e /\ r.id > m
    PROVE  InTune(c)'
<1>1. /\ Truths /\ LogTags /\ LogOK /\ Here \in Nat /\ Len(log) \in Nat
      /\ \A x \in journal.log : x.id \in Nat /\ Placed(x) /\ x.id <= Len(log)
    <2>1. Truths /\ LogTags /\ LogOK /\ Here \in Nat /\ Len(log) \in Nat /\ \A x \in journal.log : x.id \in Nat
        BY BaseLog DEF CoverageInv, Truths
    <2> QED
        BY <2>1 DEF Truths, JournalTells, RowTells, Placed
<1>2. /\ journal' = journal /\ ingest' = ingest /\ generation' = generation /\ log' = log /\ Here' = Here
    BY DEF Rest, Here
<1>3. ASSUME NEW k \in Queued(c)', sub'[c].queue[k].gen = generation'
      PROVE  Backed(sub[c].queue[k].row.id)'
    <2>1. PICK j \in Queued(c) : sub[c].queue[j].gen = generation /\ sub'[c].queue[k].row = sub[c].queue[j].row
        BY <1>2, <1>3
    <2>2. Backed(sub[c].queue[j].row.id)
        BY <2>1 DEF InTune
    <2> QED
        BY <1>2, <2>1, <2>2 DEF Backed
<1>4. OneRowEach(H)'
    <2>1. OneRowEach(Handed(c))
        BY DEF InTune
    <2> QED
        BY <2>1 DEF OneRowEach
<1>5. ASSUME NEW r \in H
      PROVE  /\ RowTells(r)' /\ r.e \in Mine(c)' /\ r.id > Current(c)' /\ Kept(c, r)'
             /\ r.id > Here' => \E x \in journal'.log : x.id = r.id
    <2>1. r \in Handed(c) /\ r.id > Current(c)'
        BY <1>5
    <2>2. RowTells(r) /\ r.e \in Mine(c) /\ Kept(c, r) /\ (r.id > Here => \E x \in journal.log : x.id = r.id)
        BY <2>1 DEF InTune
    <2>3. RowTells(r)' = RowTells(r) /\ Kept(c, r)' = Kept(c, r) /\ Mine(c)' = Mine(c)
        BY <1>2, SameLog DEF Kept, Mine
    <2> QED
        BY <1>2, <2>1, <2>2, <2>3
<1>6. ASSUME NEW e \in Mine(c), NEW m \in Here .. Len(log), Covers(c, e, m)
      PROVE  \/ Covered(c, e, H, U, T, m)'
             \/ m > Here /\ \E r \in journal.log : r.e = e /\ r.id > m
    <2>1. Covers(c, e, Here)
        BY DEF InTune
    <2>2. CASE Covered(c, e, H, U, T, m)
        BY <1>2, <2>2, SameCursor
    <2>3. CASE m > Here /\ \E r \in Handed(c) : r.e = e /\ r.id > m
        <3>1. PICK r \in Handed(c) : r.e = e /\ r.id > m
            BY <2>3
        <3>2. r.id > Here
            BY <1>1, <2>3, <3>1, HandedFacts
        <3> QED
            BY <2>3, <3>1, <3>2, HandedFacts
    <2> QED
        BY <1>6, <2>1, <2>2, <2>3
<1>7. ASSUME NEW e \in Mine(c)
      PROVE  Covered(c, e, H, U, T, Here)'
    <2>1. Covers(c, e, Here) /\ Here \in Here .. Len(log)
        BY <1>1 DEF InTune, Truths, JournalTells, Behind
    <2>2. Covered(c, e, H, U, T, Here)
        BY <1>1, <2>1
    <2> QED
        BY <1>2, <2>2, SameCursor
<1>8. ASSUME NEW x \in journal.log, x.id > Here, x.e \in Mine(c), Reached(c, x.id)'
      PROVE  Covered(c, x.e, H, U, T, x.id)' \/ \E y \in journal.log : y.e = x.e /\ y.id > x.id
    <2>1. Reached(c, x.id) /\ x.id \in Here .. Len(log)
        BY <1>1, <1>8
    <2>2. Covers(c, x.e, x.id) \/ \E y \in journal.log : y.e = x.e /\ y.id > x.id
        BY <1>8, <2>1 DEF InTune
    <2> QED
        BY <1>6, <1>8, <2>1, <2>2
<1>9. ASSUME ingest.pc = "publish", NEW e \in Mine(c)
      PROVE  Covered(c, e, H, U, T, ingest.work.last)' \/ \E r \in ingest.work.rows : r.e = e
    <2> PICK h : h = ingest.work.last
        OBVIOUS
    <2>1. h \in Here .. Len(log) /\ \A x \in journal.log : x.id \in 1 .. h
        BY <1>1, <1>9, PublishedWork
    <2>2. Covers(c, e, h) \/ \E r \in ingest.work.rows : r.e = e
        BY <1>9 DEF InTune
    <2>3. ~\E r \in journal.log : r.id > h
        BY <1>1, <2>1
    <2>4. ingest'.work.last = h
        BY <1>2
    <2> QED
        BY <1>2, <1>6, <2>1, <2>2, <2>3, <2>4
<1>10. \A e, m : Covers(c, e, m)' = Covered(c, e, H, U, T, m)'
    BY DEF Covers
<1>11. Mine(c)' = Mine(c)
    BY DEF Mine
<1>12. \A e \in Mine(c)' : Covers(c, e, Here)'
    <2>1. PICK m : m = Here
        OBVIOUS
    <2>2. \A e \in Mine(c) : Covered(c, e, H, U, T, m)'
        BY <1>2, <1>7, <2>1
    <2> QED
        BY <1>2, <1>10, <1>11, <2>1, <2>2
<1>13. ASSUME NEW x \in journal'.log, x.id > Here', x.e \in Mine(c)', Reached(c, x.id)'
       PROVE  Covers(c, x.e, x.id)' \/ \E y \in journal'.log : y.e = x.e /\ y.id > x.id
    BY <1>2, <1>8, <1>10, <1>11, <1>13
<1>14. ingest'.pc = "publish" =>
          \A e \in Mine(c)' : Covers(c, e, ingest.work.last)' \/ \E r \in ingest'.work.rows : r.e = e
    BY <1>2, <1>9, <1>10, <1>11
<1>15. OneRowEach(Handed(c))'
    BY <1>4 DEF OneRowEach
<1>16. \A r \in Handed(c)' : /\ RowTells(r)' /\ r.e \in Mine(c)' /\ r.id > Current(c)' /\ Kept(c, r)'
                             /\ r.id > Here' => \E x \in journal'.log : x.id = r.id
    BY <1>5
<1>17. InStep(c)' \/ \E j \in Queued(c)' : CalledAt(c, j)'
    OBVIOUS
<1> QED
    BY ONLY <1>3, <1>12, <1>13, <1>14, <1>15, <1>16, <1>17 DEF InTune

-----------------------------------------------------------------------------
(* Steps that leave a collection's drain alone *)

\* Only the beginning of a recovery, or a crash, changes the generation.
LEMMA GenerationSteps ==
    ASSUME Base, [Next]_vars
    PROVE  generation' = generation \/ BeginRecovery \/ Crash
<1>1. CASE UNCHANGED vars
    BY <1>1 DEF vars
<1>2. CASE ServerWrites \/ Expire \/ Restore \/ Serve
    BY <1>2 DEF ServerWrites, Write, BulkChange, Expire, Restore, Serve, ServeList, ServeHydrate
<1>3. CASE Start \/ TimedFlush
    BY <1>3 DEF Start, TimedFlush
<1>4. CASE Run
    BY <1>4 DEF Run, Recover, Accept, AppendChunk, PublishRow, AdvanceIngested, FlushBeforePrune, PruneRead, PruneCommit,
                WipeJournal, TellRecovery
<1>5. CASE Disturb
    BY <1>5 DEF Disturb, Fail, Stop, Unmount
<1>6. ASSUME NEW c \in Collections, Mount(c) \/ Attach(c) \/ Drain(c) PROVE generation' = generation
    BY <1>6 DEF Mount, Attach, ReadMark, ReadFloor, ReadJournal, Drain, TakeReplay, TakeTail, ListServer, Land, Ack
<1> QED
    BY <1>1, <1>2, <1>3, <1>4, <1>5, <1>6 DEF Next

\* Work is published only once it is in the journal, and as long as rows of it are left.
LEMMA PublishingSteps ==
    ASSUME Base, [Next]_vars, ingest'.pc = "publish"
    PROVE  ingest' = ingest \/ AppendChunk \/ PublishRow
<1>1. CASE \E c \in Collections : Unmount(c) \/ Mount(c) \/ Attach(c) \/ Drain(c)
    BY <1>1 DEF Unmount, Mount, Attach, ReadMark, ReadFloor, ReadJournal, Drain, TakeReplay, TakeTail,
                ListServer, Land, Ack
<1>2. CASE Start \/ Fail \/ Stop \/ Crash
    BY <1>2, StartStep, FailStep, StopStep, CrashStep DEF StoppedIngest
<1>3. CASE Accept \/ PruneRead \/ FlushBeforePrune \/ BeginRecovery \/ TellRecovery
    BY <1>3, AcceptStep, PruneReadStep, FlushBeforePruneStep, BeginStep, TellStep
<1>4. CASE AdvanceIngested \/ PruneCommit \/ WipeJournal
    BY <1>4 DEF AdvanceIngested, PruneCommit, WipeJournal, Streaming, StoppedIngest, Base, TypeInv, TypeOK, IngestFiber
<1>5. CASE ServerWrites \/ Expire \/ Restore \/ Serve \/ TimedFlush \/ UNCHANGED vars
    BY <1>5, ServeStep DEF ServerWrites, Write, BulkChange, Expire, Restore, TimedFlush, vars
<1> QED
    BY <1>1, <1>2, <1>3, <1>4, <1>5 DEF Next, Run, Recover, Disturb

\* A collection that is left alone keeps its table, its marks and what it was handed.
LEMMA StillSteps ==
    ASSUME Base, CoverageInv, [Next]_vars, NEW c \in Collections, Serving(c), sub'[c] = sub[c],
           ~WipeJournal, ~BeginRecovery
    PROVE  /\ generation' = generation /\ store'[c] = store[c] /\ Current(c)' = Current(c)
           /\ Queued(c)' = Queued(c) /\ Controls(c)' = Controls(c) /\ Handed(c)' = Handed(c)
           /\ Unlisted(c)' = Unlisted(c) /\ Table(c)' = Table(c) /\ \A i : Reached(c, i)' = Reached(c, i)
<1>1. sub[c].pc \in {"idle", "list", "land", "ack"}
    BY DEF Serving
<1>2. ~Crash
    BY <1>1, CrashStep DEF Detached
<1>3. generation' = generation
    BY <1>2, GenerationSteps
<1>4. store'[c] = store[c]
    <2>1. ~Land(c)
        BY LandStep
    <2> QED
        BY <2>1, StoreSteps
<1>5. Current(c)' = Current(c)
    <2>1. ~Ack(c)
        BY AckStep
    <2> QED
        BY <1>2, <2>1, MarkSteps
<1>6. Queued(c)' = Queued(c) /\ Controls(c)' = Controls(c)
    BY <1>3 DEF Queued, Controls
<1>7. Live(c)' = Live(c)
    BY <1>3, <1>6 DEF Live
<1>8. Handed(c)' = Handed(c) /\ Unlisted(c)' = Unlisted(c)
    BY <1>6, <1>7 DEF Handed, Landing, Unlisted
<1>9. Table(c)' = Table(c)
    BY <1>4 DEF Table, Listing
<1>10. \A i : Reached(c, i)' = Reached(c, i)
    BY <1>3, <1>6 DEF Reached
<1> QED
    BY <1>3, <1>4, <1>5, <1>6, <1>8, <1>9, <1>10

\* It stays in tune if its rows stay true of what the step makes of log, cursor and journal.
LEMMA StillInTune ==
    ASSUME Base, CoverageInv, [Next]_vars, OnLog, OnLog', NEW c \in Collections, Serving(c), InTune(c),
           sub'[c] = sub[c], ~WipeJournal, ~BeginRecovery,
           NEW H, NEW U, NEW T, H = Handed(c), U = Unlisted(c), T = Table(c),
           \A r \in H : r.id > Here' => \E x \in journal'.log : x.id = r.id,
           PruneCommit => Current(c) # None \/ H = {},
           \A e \in Mine(c) : Covered(c, e, H, U, T, Here)',
           \A x \in journal'.log : x.id > Here' /\ x.e \in Mine(c) /\ Reached(c, x.id) =>
               Covered(c, x.e, H, U, T, x.id)' \/ \E y \in journal'.log : y.e = x.e /\ y.id > x.id,
           ingest'.pc = "publish" =>
               \A e \in Mine(c) : Covered(c, e, H, U, T, ingest.work.last)' \/ \E r \in ingest'.work.rows : r.e = e
    PROVE  InTune(c)'
<1> DEFINE s == sub[c]
<1>1. /\ generation' = generation /\ Current(c)' = Current(c)
      /\ Queued(c)' = Queued(c) /\ Handed(c)' = H /\ Unlisted(c)' = U /\ Table(c)' = T
      /\ \A i : Reached(c, i)' = Reached(c, i)
    BY StillSteps
<1>2. /\ \A i \in Nat : Backed(i) => Backed(i)'
      /\ Here \in Nat /\ Here' \in Nat /\ Here <= Here'
    BY Backing
<1>3. /\ s.queue \in Seq(Item) /\ Len(s.queue) \in Nat
      /\ s.guard \in Nat /\ s.snap \in Nat \cup {None} /\ (\A k \in Queued(c) : s.queue[k].row.id \in Nat)
      /\ Current(c) \in Nat \cup {None} /\ None = -1
    BY SubscriberTypes DEF Queued
<1>4. ASSUME InStep(c) PROVE InStep(c)'
    <2>1. Backed(s.guard)
        BY <1>4 DEF InStep
    <2>2. Backed(sub[c].guard)'
        BY SMTT(40), <1>2, <1>3, <2>1
    <2> QED
        BY <1>1, <1>4, <2>2 DEF InStep
<1>5. ASSUME NEW j \in Queued(c), CalledAt(c, j) PROVE CalledAt(c, j)'
    <2>1. s.queue[j].row.id <= Here'
        BY SMTT(40), <1>2, <1>3, <1>5 DEF CalledAt
    <2>2. GuardBy(c, j, s.queue[j].row.id)' = GuardBy(c, j, s.queue[j].row.id)
        BY DEF GuardBy
    <2>3. GuardBy(c, j, sub[c].queue[j].row.id)' = GuardBy(c, j, sub[c].queue[j].row.id)
        BY DEF GuardBy
    <2> QED
        BY <1>1, <1>5, <2>1, <2>3 DEF CalledAt
<1>6. ASSUME NEW k \in Queued(c)', sub'[c].queue[k].gen = generation'
      PROVE  Backed(sub[c].queue[k].row.id)'
    <2>1. k \in Queued(c) /\ s.queue[k].gen = generation
        BY <1>1, <1>6
    <2>2. Backed(s.queue[k].row.id) /\ s.queue[k].row.id \in Nat
        BY <1>3, <2>1 DEF InTune
    <2> QED
        BY <1>2, <2>2
<1>7. OneRowEach(Handed(c))'
    BY <1>1 DEF InTune, OneRowEach
<1>8. ASSUME NEW r \in Handed(c)'
      PROVE  /\ RowTells(r)' /\ r.e \in Mine(c)' /\ r.id > Current(c)' /\ Kept(c, r)'
             /\ r.id > Here' => \E x \in journal'.log : x.id = r.id
    <2>1. r \in H /\ r \in Row /\ r.id \in Nat
        BY <1>1, HandedFacts
    <2>2. RowTells(r) /\ r.e \in Mine(c) /\ r.id > Current(c) /\ Kept(c, r)
        BY <2>1 DEF InTune
    <2>3. RowTells(r)'
        <3>1. CASE log' = log
            BY <2>2, <3>1, SameLog
        <3>2. CASE ServerWrites
            <4>1. LogTags
                BY DEF CoverageInv
            <4>2. PICK x : Grown(x)
                BY <3>2, <4>1, WritesGrow
            <4> QED
                BY <2>1, <2>2, <4>1, <4>2, GrownRows
        <3>3. ~Restore
            BY RestoredLog DEF CoverageInv, Truths
        <3> QED
            BY <3>1, <3>2, <3>3, LogSteps
    <2>4. Kept(c, r)'
        <3>1. PruneCommit => Current(c) # None /\ r.id > Current(c)
            BY <2>1, <2>2
        <3> QED
            BY <2>1, <2>2, <3>1, KeptStands
    <2>5. Mine(c)' = Mine(c)
        BY DEF Mine
    <2> QED
        BY <1>1, <2>1, <2>2, <2>3, <2>4, <2>5
<1>9. \A e, m : Covers(c, e, m)' = Covered(c, e, H, U, T, m)'
    BY <1>1 DEF Covers
<1>10. Mine(c)' = Mine(c)
    BY DEF Mine
<1>11. \A e \in Mine(c)' : Covers(c, e, Here)'
    <2>1. \A e : Covers(c, e, Here)' = Covered(c, e, H, U, T, Here)'
        BY <1>1 DEF Covers
    <2> QED
        BY <1>10, <2>1
<1>12. ASSUME NEW x \in journal'.log, x.id > Here', x.e \in Mine(c)', Reached(c, x.id)'
       PROVE  Covers(c, x.e, x.id)' \/ \E y \in journal'.log : y.e = x.e /\ y.id > x.id
    BY <1>1, <1>9, <1>10, <1>12
<1>13. ingest'.pc = "publish" =>
          \A e \in Mine(c)' : Covers(c, e, ingest.work.last)' \/ \E r \in ingest'.work.rows : r.e = e
    <2>1. \A e : Covers(c, e, ingest.work.last)' = Covered(c, e, H, U, T, ingest.work.last)'
        BY <1>1 DEF Covers
    <2> QED
        BY <1>10, <2>1
<1>14. InStep(c)' \/ \E j \in Queued(c)' : CalledAt(c, j)'
    <2>1. InStep(c) \/ \E j \in Queued(c) : CalledAt(c, j)
        BY DEF InTune
    <2> QED
        BY <1>1, <1>4, <1>5, <2>1
<1> QED
    BY ONLY <1>6, <1>7, <1>8, <1>11, <1>12, <1>13, <1>14 DEF InTune

\* Steps that change neither the log nor the journal's rows and cursor.
LEMMA InTuneAside ==
    ASSUME Base, CoverageInv, [Next]_vars, OnLog, OnLog', NEW c \in Collections, Serving(c), InTune(c),
           sub'[c] = sub[c], log' = log, SameRows \/ Accept, ~AppendChunk, ~WipeJournal, ~BeginRecovery, ~PruneCommit
    PROVE  InTune(c)'
<1> PICK H, U, T : H = Handed(c) /\ U = Unlisted(c) /\ T = Table(c)
    OBVIOUS
<1>1. journal'.log = journal.log /\ Here' = Here
    BY AcceptStep DEF SameRows, Here
<1>2. \A e, m : Covered(c, e, H, U, T, m)' <=> Covers(c, e, m)
    BY <1>1, SameCursor DEF Covers
<1>3. \A e \in Mine(c) : Covered(c, e, H, U, T, Here)'
    <2>1. PICK m : m = Here
        OBVIOUS
    <2>2. \A e \in Mine(c) : Covered(c, e, H, U, T, m)'
        BY <1>2, <2>1 DEF InTune
    <2> QED
        BY <1>1, <2>1, <2>2
<1>4. ASSUME NEW x \in journal'.log, x.id > Here', x.e \in Mine(c), Reached(c, x.id)
      PROVE  Covered(c, x.e, H, U, T, x.id)' \/ \E y \in journal'.log : y.e = x.e /\ y.id > x.id
    BY <1>1, <1>2, <1>4 DEF InTune
<1>5. ASSUME ingest'.pc = "publish", NEW e \in Mine(c)
      PROVE  Covered(c, e, H, U, T, ingest.work.last)' \/ \E r \in ingest'.work.rows : r.e = e
    <2> PICK h : h = ingest.work.last
        OBVIOUS
    <2>1. ingest' = ingest \/ PublishRow
        BY <1>5, PublishingSteps
    <2>2. ingest.pc = "publish" /\ ingest'.work.last = h
        BY <1>5, <2>1, PublishStep
    <2>3. Covered(c, e, H, U, T, h)' \/ \E r \in ingest.work.rows : r.e = e
        BY <1>2, <2>2 DEF InTune
    <2>4. CASE \E r \in ingest.work.rows : r.e = e
        <3>1. CASE ingest' = ingest
            BY <2>4, <3>1
        <3>2. CASE PublishRow
            <4>1. PICK q \in ingest.work.rows : /\ ingest'.work.rows = ingest.work.rows \ {q}
                                                /\ Offered("Event", q)
                BY <3>2, PublishStep
            <4>2. RowModel(q) # CollModel[c]
                <5>1. SUFFICES ASSUME RowModel(q) = CollModel[c] PROVE FALSE
                    OBVIOUS
                <5>2. sub[c].pc # "off"
                    BY DEF Serving
                <5>3. Len(sub'[c].queue) = Len(sub[c].queue) + 1 /\ Len(sub[c].queue) \in Nat
                    BY <4>1, <5>1, <5>2, PublishedItems
                <5> QED
                    BY <5>3
            <4>3. q.e # e
                BY <4>2 DEF RowModel, Mine
            <4> QED
                BY <2>4, <4>1, <4>3
        <3> QED
            BY <2>1, <3>1, <3>2
    <2> QED
        BY <2>2, <2>3, <2>4
<1>6. \A r \in H : r.id > Here' => \E x \in journal'.log : x.id = r.id
    BY <1>1 DEF InTune
<1> QED
    BY <1>3, <1>4, <1>5, <1>6, StillInTune

\* Writes: nothing on its way to the collection, and no row it shows, is contradicted.
LEMMA InTuneGrown ==
    ASSUME Base, CoverageInv, [Next]_vars, OnLog, OnLog', NEW c \in Collections, Serving(c), InTune(c),
           ServerWrites
    PROVE  InTune(c)'
<1> PICK H, U, T : H = Handed(c) /\ U = Unlisted(c) /\ T = Table(c)
    OBVIOUS
<1>0. LogTags
    BY DEF CoverageInv
<1>1. PICK x : Grown(x)
    BY <1>0, WritesGrow
<1>2. /\ LogOK /\ Here \in Nat /\ Len(log) \in Nat /\ Here' = Here /\ Here <= Len(log)
      /\ UNCHANGED <<epoch, journal, store, ingest, pending, generation, gate, sub>>
    BY <1>0, <1>1, BaseLog, GrownLog DEF Grown, CoverageInv, JournalTells, Behind
<1>3. \A r \in H : Placed(r)
    BY HandedFacts DEF RowTells
<1>4. ASSUME NEW e \in Entities, NEW m \in Here .. Len(log), Covers(c, e, m)
      PROVE  Covered(c, e, H, U, T, m)'
    <2>1. Covered(c, e, H, U, T, m)
        BY <1>4 DEF Covers
    <2>2. ASSUME NEW r \in H, r.e = e, Newest(H, r) PROVE r.id >= m \/ Quiet(e, r.id, m)'
        <3>1. r.id >= m \/ Quiet(e, r.id, m)
            BY <2>1, <2>2 DEF Covered
        <3>2. r.id \in 0 .. Len(log) /\ m \in 0 .. Len(log)
            BY <1>2, <1>3 DEF Placed
        <3> QED
            BY <1>0, <1>1, <3>1, <3>2, GrownRows
    <2>3. ASSUME Shows(c, e, T[e], m) PROVE Shows(c, e, T[e], m)'
        <3>1. T[e] # Absent => ShownTo(e)
            BY DEF Table, ShownTo
        <3> QED
            BY <1>0, <1>1, <2>3, <3>1, GrownShows
    <2>4. (\A r \in H : r.e # e) => U \/ Shows(c, e, T[e], m)'
        BY <2>1, <2>3 DEF Covered
    <2>5. \A r \in H : r.e = e /\ Newest(H, r) => r.id >= m \/ Quiet(e, r.id, m)'
        BY <2>2
    <2> QED
        BY <2>4, <2>5 DEF Covered, Newest
<1>5. \A e \in Mine(c) : Covered(c, e, H, U, T, Here)'
    <2>1. PICK m : m = Here
        OBVIOUS
    <2>2. \A e \in Mine(c) : Covered(c, e, H, U, T, m)'
        BY <1>2, <1>4, <2>1 DEF InTune, Mine
    <2> QED
        BY <1>2, <2>1, <2>2
<1>6. ASSUME NEW y \in journal'.log, y.id > Here', y.e \in Mine(c), Reached(c, y.id)
      PROVE  Covered(c, y.e, H, U, T, y.id)' \/ \E z \in journal'.log : z.e = y.e /\ z.id > y.id
    <2>1. y \in journal.log /\ y.id > Here
        BY <1>2, <1>6
    <2>2. y.id \in Here .. Len(log)
        BY <1>2, <2>1 DEF CoverageInv, JournalTells, RowTells, Placed
    <2>3. Covers(c, y.e, y.id) \/ \E z \in journal.log : z.e = y.e /\ z.id > y.id
        BY <1>6, <2>1 DEF InTune
    <2>4. y.e \in Entities
        BY <1>6 DEF Mine
    <2> QED
        BY <1>2, <1>4, <2>2, <2>3, <2>4
<1>7. ASSUME ingest'.pc = "publish", NEW e \in Mine(c)
      PROVE  Covered(c, e, H, U, T, ingest.work.last)' \/ \E r \in ingest'.work.rows : r.e = e
    <2> PICK h : h = ingest.work.last
        OBVIOUS
    <2>1. ingest.pc = "publish" /\ ingest'.work.last = h
        BY <1>2, <1>7
    <2>2. h \in Here .. Len(log)
        BY <2>1, PublishedWork DEF CoverageInv, Truths
    <2>3. Covers(c, e, h) \/ \E r \in ingest.work.rows : r.e = e
        BY <2>1 DEF InTune
    <2> QED
        BY <1>2, <1>4, <2>1, <2>2, <2>3 DEF Mine
<1>8. \A r \in H : r.id > Here' => \E z \in journal'.log : z.id = r.id
    BY <1>2 DEF InTune
<1>9. ~PruneCommit /\ ~WipeJournal /\ ~BeginRecovery
    <2>1. ingest' = ingest
        BY <1>2
    <2> QED
        BY <2>1, PrunedJournal, WipedJournal, BeginStep DEF CoverageInv, Truths
<1> QED
    BY <1>2, <1>5, <1>6, <1>7, <1>8, <1>9, StillInTune

\* A chunk becomes durable: what the collection was told before says enough of its rows.
LEMMA InTuneAppend ==
    ASSUME Base, CoverageInv, [Next]_vars, OnLog, OnLog', NEW c \in Collections, Serving(c), InTune(c),
           AppendChunk
    PROVE  InTune(c)'
<1> PICK H, U, T : H = Handed(c) /\ U = Unlisted(c) /\ T = Table(c)
    OBVIOUS
<1>1. /\ Truths /\ LogTags /\ LogOK /\ Here \in Nat /\ Len(log) \in Nat
      /\ \A x \in journal.log : x.id \in Nat /\ Placed(x) /\ x.e \in Entities
      /\ Here \in Here .. Len(log)
    <2>1. Truths /\ LogTags /\ LogOK /\ Here \in Nat /\ Len(log) \in Nat /\ \A x \in journal.log : x.id \in Nat
        BY BaseLog DEF CoverageInv, Truths
    <2> QED
        BY <2>1 DEF Truths, JournalTells, RowTells, Behind
<1>2. /\ ingest.pc = "append" /\ ingest'.pc = "publish" /\ ingest'.work = ingest.work
      /\ journal'.log = {r \in journal.log : \A y \in ingest.work.rows : y.id # r.id} \cup ingest.work.rows
      /\ journal'.cursor = journal.cursor /\ Here' = Here /\ sub' = sub /\ log' = log
    BY AppendStep DEF Here
<1>3. BatchRows(ingest.work.rows, ingest.work.last)
    BY <1>1, <1>2 DEF Truths, WorkTells
<1>4. \A x \in journal.log : \E y \in journal'.log : y.id = x.id /\ y.e = x.e
    <2>1. SUFFICES ASSUME NEW x \in journal.log PROVE \E y \in journal'.log : y.id = x.id /\ y.e = x.e
        OBVIOUS
    <2>2. CASE \E y \in ingest.work.rows : y.id = x.id
        BY <1>1, <1>2, <1>3, <2>2 DEF BatchRows, Placed
    <2> QED
        BY <1>2, <2>2
<1>5. \A e, m : Covered(c, e, H, U, T, m)' <=> Covers(c, e, m)
    BY <1>2, SameCursor DEF Covers
<1>6. \A e \in Mine(c) : Covered(c, e, H, U, T, Here)'
    <2>1. PICK m : m = Here
        OBVIOUS
    <2>2. \A e \in Mine(c) : Covered(c, e, H, U, T, m)'
        BY <1>5, <2>1 DEF InTune
    <2> QED
        BY <1>2, <2>1, <2>2
<1>7. /\ \A e : PlacedRows(e, Handed(c))
      /\ \A e : \A r \in Handed(c) : r.e = e /\ r.id > Here => Safe(e, Here, r.id)
    BY HandedFacts
<1>8. ASSUME NEW e \in Mine(c), NEW h \in Here .. Len(log), Plain(Here, h), GoneAt(e, Here), GoneAt(e, h)
      PROVE  Covers(c, e, h)
    <2>1. Covers(c, e, Here)
        BY DEF InTune
    <2> QED
        BY <1>1, <1>7, <1>8, <2>1, CoveredOnGone DEF Covers
<1>9. ASSUME NEW x \in ingest.work.rows, x.e \in Mine(c), Reached(c, x.id)
      PROVE  Covers(c, x.e, x.id) \/ \E y \in journal.log : y.e = x.e /\ y.id > x.id
    <2>1. /\ x.id \in Here + 1 .. ingest.work.last /\ x.id \in Nat /\ Placed(x) /\ Safe(x.e, Here, x.id)
          /\ x.e \in Entities
        BY <1>1, <1>3 DEF BatchRows, Placed
    <2>2. PICK z \in journal.log : z.id >= x.id
        <3>1. \A k \in Queued(c) : sub[c].queue[k].row.id \in Nat
            BY SubscriberTypes DEF Queued
        <3>2. sub[c].guard \in Nat
            BY SubscriberTypes
        <3>3. CASE Controls(c) = {} /\ x.id <= sub[c].guard
            <4>1. InStep(c)
                BY <3>3 DEF InTune, CalledAt, Controls
            <4>2. Backed(sub[c].guard)
                BY <4>1 DEF InStep
            <4> QED
                BY SMTT(40), <1>1, <2>1, <3>2, <3>3, <4>2 DEF Backed
        <3>4. CASE \E k \in Queued(c) : sub[c].queue[k].gen = generation /\ x.id <= sub[c].queue[k].row.id
            <4>1. PICK k \in Queued(c) : sub[c].queue[k].gen = generation /\ x.id <= sub[c].queue[k].row.id
                BY <3>4
            <4>2. Backed(sub[c].queue[k].row.id)
                BY <4>1 DEF InTune
            <4> QED
                BY <1>1, <2>1, <3>1, <4>1, <4>2 DEF Backed
        <3> QED
            BY <1>9, <3>3, <3>4 DEF Reached
    <2>3. Told(z.id)
        BY <1>1, <2>1, <2>2 DEF Truths, JournalTells
    <2>4. PICK h \in z.id .. Len(log) : Accounted(journal.log, h)
        BY <2>3 DEF Told
    <2>5. h \in Here .. Len(log) /\ Plain(Here, h) /\ x.id \in Here + 1 .. h
        BY <1>1, <2>1, <2>2, <2>4 DEF Accounted
    <2>6. ~Untouched(x.e, Here, h)
        BY <2>1, <2>5 DEF Untouched, Placed
    <2>7. CASE \E r \in journal.log : r.e = x.e /\ r.id \in Here + 1 .. h /\ Untouched(x.e, r.id, h)
        <3>1. PICK r \in journal.log : r.e = x.e /\ r.id \in Here + 1 .. h /\ Untouched(x.e, r.id, h)
            BY <2>7
        <3>2. r.id \in Nat /\ r.id > Here
            BY <1>1, <3>1
        <3>3. r.id >= x.id
            <4>1. SUFFICES ASSUME r.id < x.id PROVE FALSE
                BY <2>1, <3>2
            <4>2. x.id \in r.id + 1 .. h
                BY <2>1, <2>5, <3>2, <4>1
            <4> QED
                BY <2>1, <3>1, <4>2 DEF Untouched, Placed
        <3>4. CASE r.id = x.id
            <4>1. Covers(c, r.e, r.id) \/ \E y \in journal.log : y.e = r.e /\ y.id > r.id
                BY <1>9, <3>1, <3>2, <3>4 DEF InTune
            <4> QED
                BY <3>1, <3>4, <4>1
        <3> QED
            BY <2>1, <3>1, <3>2, <3>3, <3>4
    <2>8. CASE GoneAt(x.e, Here) /\ GoneAt(x.e, h)
        <3>1. Covers(c, x.e, h)
            BY <1>8, <1>9, <2>5, <2>8
        <3> QED
            BY <1>1, <1>7, <2>1, <2>5, <2>8, <3>1, CoveredBack DEF Covers
    <2> QED
        BY <2>1, <2>4, <2>6, <2>7, <2>8 DEF Accounted
<1>10. ASSUME NEW x \in journal'.log, x.id > Here', x.e \in Mine(c), Reached(c, x.id)
       PROVE  Covered(c, x.e, H, U, T, x.id)' \/ \E y \in journal'.log : y.e = x.e /\ y.id > x.id
    <2>1. Covers(c, x.e, x.id) \/ \E y \in journal.log : y.e = x.e /\ y.id > x.id
        BY <1>2, <1>9, <1>10 DEF InTune
    <2> QED
        BY <1>4, <1>5, <2>1
<1>11. ASSUME NEW e \in Mine(c)
       PROVE  Covered(c, e, H, U, T, ingest.work.last)' \/ \E r \in ingest'.work.rows : r.e = e
    <2> PICK h : h = ingest.work.last
        OBVIOUS
    <2>1. Accounted(ingest.work.rows, h) /\ e \in Entities /\ Covers(c, e, Here)
        BY <1>3 DEF BatchRows, Mine, InTune
    <2>2. h \in Here .. Len(log) /\ Plain(Here, h)
        BY <2>1 DEF Accounted
    <2>3. CASE Untouched(e, Here, h)
        <3>1. Covers(c, e, h)
            BY <1>1, <1>7, <2>1, <2>2, <2>3, CoveredOn DEF Covers
        <3> QED
            BY <1>2, <1>5, <3>1
    <2>4. CASE GoneAt(e, Here) /\ GoneAt(e, h)
        BY <1>2, <1>5, <1>8, <2>2, <2>4
    <2> QED
        BY <1>2, <2>1, <2>3, <2>4 DEF Accounted
<1>12. \A r \in H : r.id > Here' => \E x \in journal'.log : x.id = r.id
    BY <1>2, <1>4, HandedFacts
<1>13. ~PruneCommit /\ ~WipeJournal /\ ~BeginRecovery
    BY <1>1, <1>2, PrunedJournal, WipedJournal, BeginStep
<1> QED
    BY <1>2, <1>6, <1>10, <1>11, <1>12, <1>13, StillInTune

\* The cursor passes a batch that was published in full.
LEMMA InTuneAdvance ==
    ASSUME Base, CoverageInv, [Next]_vars, OnLog, OnLog', NEW c \in Collections, Serving(c), InTune(c),
           AdvanceIngested
    PROVE  InTune(c)'
<1> PICK H, U, T : H = Handed(c) /\ U = Unlisted(c) /\ T = Table(c)
    OBVIOUS
<1> PICK h : h = ingest.work.last
    OBVIOUS
<1>1. Truths /\ LogTags /\ LogOK /\ Here \in Nat /\ Len(log) \in Nat
    BY BaseLog DEF CoverageInv, Truths
<1>2. /\ ingest.pc = "publish" /\ ingest.work.rows = {} /\ ingest'.pc \in {"stream", "flush"}
      /\ journal'.log = journal.log /\ Here' = h /\ log' = log /\ sub' = sub
    BY <1>1, AdvancedCursor
<1>3. h \in Here .. Len(log) /\ \A x \in journal.log : x.id \in 1 .. h
    BY <1>1, <1>2, PublishedWork
<1>4. ASSUME NEW e \in Mine(c) PROVE Covered(c, e, H, U, T, h)'
    <2>1. Covered(c, e, H, U, T, h)
        BY <1>2 DEF InTune, Covers
    <2>2. \A r \in H : r.e = e /\ Newest(H, r) => r.id >= h \/ Quiet(e, r.id, h)'
        BY <1>2, <2>1, SameLog DEF Covered
    <2>3. Shows(c, e, T[e], h) => Shows(c, e, T[e], h)'
        <3>1. ASSUME Shows(c, e, T[e], h) PROVE Shows(c, e, T[e], h)'
            <4>1. PICK t \in h .. Len(log) : T[e] = RowAt(c, e, t) /\ (T[e] = Absent \/ Safe(e, h, t))
                BY <3>1 DEF Shows
            <4>2. t \in h .. Len(log') /\ T[e] = RowAt(c, e, t)' /\ (T[e] = Absent \/ Safe(e, h, t)')
                BY <1>2, <4>1, SameLog
            <4>3. Safe(e, h, t)' => Safe(e, Here, t)'
                BY <1>2 DEF Safe, GoneAt, EntryAt
            <4> QED
                BY <4>2, <4>3 DEF Shows
        <3> QED
            BY <3>1
    <2>4. (\A r \in H : r.e # e) => U \/ Shows(c, e, T[e], h)'
        BY <2>1, <2>3 DEF Covered
    <2> QED
        BY <2>2, <2>4 DEF Covered, Newest
<1>5. \A e \in Mine(c) : Covered(c, e, H, U, T, Here)'
    BY <1>2, <1>4 DEF Covered
<1>6. \A x \in journal'.log : ~(x.id > Here')
    BY <1>1, <1>2, <1>3
<1>7. \A r \in H : r.id > Here' => \E x \in journal'.log : x.id = r.id
    BY <1>1, <1>2, <1>3, HandedFacts
<1>8. ~PruneCommit /\ ~WipeJournal /\ ~BeginRecovery
    BY <1>1, <1>2, PrunedJournal, WipedJournal, BeginStep
<1> QED
    BY <1>2, <1>5, <1>6, <1>7, <1>8, StillInTune

\* A prune takes nothing that the collection was handed and still relies on.
LEMMA InTunePrune ==
    ASSUME Base, CoverageInv, [Next]_vars, OnLog, OnLog', NEW c \in Collections, Serving(c), InTune(c),
           PruneCommit
    PROVE  InTune(c)'
<1> DEFINE s == sub[c]
<1> PICK H, U, T : H = Handed(c) /\ U = Unlisted(c) /\ T = Table(c)
    OBVIOUS
<1>1. Truths /\ LogTags /\ LogOK /\ Here \in Nat /\ Len(log) \in Nat /\ \A x \in journal.log : x.id \in Nat
    BY BaseLog DEF CoverageInv, Truths
<1>2. /\ ingest.pc = "commit" /\ ingest'.pc = "stream"
      /\ journal'.log = journal.log \ ingest.plan.rows /\ Here' = Here /\ log' = log /\ sub' = sub
    BY PrunedJournal
<1>3. \A x \in journal.log : x.id <= Here
    BY <1>2 DEF CoverageInv, Pruning
<1>4. \A r \in H : ~(r.id > Here)
    <2>1. SUFFICES ASSUME NEW r \in H, r.id > Here PROVE FALSE
        OBVIOUS
    <2>2. PICK x \in journal.log : x.id = r.id
        BY <2>1 DEF InTune
    <2> QED
        BY <1>1, <1>3, <2>1, <2>2
<1>5. \A e \in Mine(c) : Covered(c, e, H, U, T, Here)'
    <2>1. PICK m : m = Here
        OBVIOUS
    <2>2. \A e \in Mine(c) : Covered(c, e, H, U, T, m)
        BY <2>1 DEF InTune, Covers
    <2>3. \A e \in Mine(c) : Covered(c, e, H, U, T, m)'
        BY <1>2, <2>2, SameCursor
    <2> QED
        BY <1>2, <2>1, <2>3
<1>6. \A x \in journal'.log : ~(x.id > Here')
    BY <1>1, <1>2, <1>3
<1>7. ASSUME Current(c) = None PROVE H = {}
    <2>1. Fresh(c)
        BY <1>2, <1>7 DEF CoverageInv, Pruning, Serving
    <2>2. Queued(c) = {}
        BY <2>1 DEF Fresh, Queued
    <2>3. InStep(c)
        BY <2>2 DEF InTune
    <2>4. s.snap \in Nat \cup {None} /\ s.sig.row.id \in Nat /\ None = -1 /\ \A r \in s.replay : r.id \in Nat
        BY SubscriberTypes
    <2>5. s.replay \subseteq H
        BY <2>3, HandedInStep
    <2>6. s.replay = {} /\ ~Landing(c)
        <3>1. CASE s.snap >= Here
            <4>1. s.snap # None /\ s.pc = "idle"
                BY <1>1, <2>3, <2>4, <3>1 DEF InStep
            <4>2. \A r \in s.replay : r.id > Here
                BY <1>1, <2>3, <2>4, <3>1 DEF InStep
            <4> QED
                BY <1>4, <2>5, <4>1, <4>2 DEF Landing
        <3>2. CASE s.snap = None /\ s.pc \in {"list", "land", "ack"} /\ s.sig.kind # "Event" /\ s.sig.row.id >= Here
            <4>1. \A r \in s.replay : r.id > Here
                BY <1>1, <2>3, <2>4, <3>2 DEF InStep
            <4> QED
                BY <1>4, <2>5, <3>2, <4>1 DEF Landing
        <3> QED
            BY <2>1, <3>1, <3>2 DEF Fresh
    <2> QED
        BY <2>2, <2>3, <2>6, HandedInStep
<1>8. ~WipeJournal /\ ~BeginRecovery
    BY <1>1, <1>2, WipedJournal, BeginStep
<1> QED
    BY <1>2, <1>4, <1>5, <1>6, <1>7, <1>8, StillInTune

\* r is beyond everything the collection was handed.
Beyond(c, r) ==
    /\ \A k \in Queued(c) : sub[c].queue[k].gen = generation => sub[c].queue[k].row.id < r.id
    /\ Controls(c) # {} \/ sub[c].guard < r.id

\* A published row is applied if it is beyond what came before it.
LEMMA PublishedHands ==
    ASSUME Base, NEW c \in Collections, NEW r \in Row, Offered("Event", r), generation' = generation, store' = store,
           sub[c].pc # "off", RowModel(r) = CollModel[c]
    PROVE  /\ Controls(c)' = Controls(c) /\ Unlisted(c)' = Unlisted(c) /\ Table(c)' = Table(c)
           /\ Handed(c)' = IF Beyond(c, r) THEN Handed(c) \cup {r} ELSE Handed(c)
           /\ \A i \in Nat : Reached(c, i)' => Reached(c, i) \/ i <= r.id
<1> DEFINE s == sub[c]
           t == sub'[c]
           n == Len(s.queue) + 1
<1>1. /\ t.pc = s.pc /\ t.gen = s.gen /\ t.snap = s.snap /\ t.replay = s.replay /\ t.guard = s.guard
      /\ t.sig = s.sig /\ t.listing = s.listing /\ Len(s.queue) \in Nat /\ Len(t.queue) = n
      /\ t.queue[n].kind = "Event" /\ t.queue[n].row = r /\ t.queue[n].gen = generation
      /\ \A k \in 1 .. Len(s.queue) : t.queue[k] = s.queue[k]
    BY PublishedItems
<1>2. Queued(c) = 1 .. n - 1 /\ Queued(c)' = 1 .. n
    BY <1>1 DEF Queued
<1>3. \A k \in Queued(c) : k \in Queued(c)' /\ t.queue[k] = s.queue[k] /\ k # n
    BY <1>1, <1>2
<1>4. Queued(c)' = Queued(c) \cup {n} /\ n \notin Queued(c)
    BY <1>1, <1>2
<1>5. Controls(c)' = Controls(c)
    BY ZenonT(60), <1>1, <1>3, <1>4 DEF Controls
<1>6. Unlisted(c)' = Unlisted(c) /\ Table(c)' = Table(c) /\ (Landing(c)' <=> Landing(c))
    BY <1>1, <1>5 DEF Unlisted, Table, Listing, Landing
<1>7. ASSUME NEW k \in Queued(c) PROVE k \in Live(c)' <=> k \in Live(c)
    <2>1. \A j \in 1 .. k - 1 : j \in Queued(c)
        BY <1>1, <1>2
    <2>2. (\A j \in 1 .. k - 1 : t.queue[j].gen = generation' => t.queue[j].row.id < t.queue[k].row.id)
          <=> (\A j \in 1 .. k - 1 : s.queue[j].gen = generation => s.queue[j].row.id < s.queue[k].row.id)
        BY <1>3, <2>1
    <2> QED
        BY <1>1, <1>3, <1>5, <2>2 DEF Live
<1>8. n \in Live(c)' <=> Beyond(c, r)
    <2>1. (\A j \in 1 .. n - 1 : t.queue[j].gen = generation' => t.queue[j].row.id < t.queue[n].row.id)
          <=> (\A k \in Queued(c) : s.queue[k].gen = generation => s.queue[k].row.id < r.id)
        BY <1>1, <1>2, <1>3
    <2>2. n \in Queued(c)'
        BY <1>4
    <2> QED
        BY <1>1, <1>5, <2>1, <2>2 DEF Live, Beyond
<1>9. Live(c) \subseteq Queued(c) /\ Live(c)' \subseteq Queued(c)'
    BY DEF Live
<1>10. \A k \in Live(c) : t.queue[k].row = s.queue[k].row
    BY <1>3, <1>9
<1>11. ASSUME Beyond(c, r) PROVE Handed(c)' = Handed(c) \cup {r}
    <2>1. Live(c)' = Live(c) \cup {n}
        BY <1>4, <1>7, <1>8, <1>9, <1>11
    <2>2. {t.queue[k].row : k \in Live(c)'} = {s.queue[k].row : k \in Live(c)} \cup {r}
        <3>1. t.queue[n].row = r
            BY <1>1
        <3>2. {t.queue[k].row : k \in Live(c) \cup {n}} = {t.queue[k].row : k \in Live(c)} \cup {t.queue[n].row}
            OBVIOUS
        <3>3. {t.queue[k].row : k \in Live(c)} = {s.queue[k].row : k \in Live(c)}
            BY <1>10
        <3> QED
            BY <2>1, <3>1, <3>2, <3>3
    <2> QED
        BY <1>1, <1>5, <1>6, <2>2 DEF Handed
<1>12. ASSUME ~Beyond(c, r) PROVE Handed(c)' = Handed(c)
    <2>1. Live(c)' = Live(c)
        BY <1>4, <1>7, <1>8, <1>9, <1>12
    <2>2. {t.queue[k].row : k \in Live(c)'} = {s.queue[k].row : k \in Live(c)}
        BY <1>10, <2>1
    <2> QED
        BY <1>1, <1>5, <1>6, <2>2 DEF Handed
<1>13. ASSUME NEW i \in Nat, Reached(c, i)' PROVE Reached(c, i) \/ i <= r.id
    <2>1. CASE Controls(c)' = {} /\ i <= t.guard
        BY <1>1, <1>5, <2>1 DEF Reached
    <2>2. CASE \E k \in Queued(c)' : t.queue[k].gen = generation' /\ i <= t.queue[k].row.id
        <3>1. PICK k \in Queued(c)' : t.queue[k].gen = generation' /\ i <= t.queue[k].row.id
            BY <2>2
        <3>2. CASE k = n
            BY <1>1, <3>1, <3>2
        <3>3. CASE k \in Queued(c)
            BY <1>3, <3>1, <3>3 DEF Reached
        <3> QED
            BY <1>4, <3>2, <3>3
    <2> QED
        BY <1>13, <2>1, <2>2 DEF Reached
<1> QED
    BY <1>5, <1>6, <1>11, <1>12, <1>13

\* Covering depends on an entity's own rows only.
LEMMA CoveredByOwn ==
    ASSUME NEW c, NEW e, NEW U, NEW T, NEW m, NEW rows, NEW more,
           \A r : r.e = e => (r \in rows <=> r \in more)
    PROVE  Covered(c, e, rows, U, T, m) <=> Covered(c, e, more, U, T, m)
<1>1. \A r : r.e = e => (Newest(rows, r) <=> Newest(more, r))
    BY DEF Newest
<1> QED
    BY <1>1 DEF Covered

\* A row is handed to the collection it concerns.
LEMMA InTunePublished ==
    ASSUME Base, CoverageInv, [Next]_vars, OnLog, OnLog', NEW c \in Collections, Serving(c), InTune(c),
           PublishRow, sub'[c] # sub[c]
    PROVE  InTune(c)'
<1> DEFINE s == sub[c]
           t == sub'[c]
           n == Len(s.queue) + 1
<1>1. /\ Truths /\ LogTags /\ LogOK /\ Here \in Nat /\ Len(log) \in Nat
      /\ \A x \in journal.log : x \in Row /\ x.id \in Nat /\ Placed(x) /\ RowTells(x) /\ x.e \in Entities
      /\ \A x, y \in journal.log : x.id = y.id => x = y
      /\ Here \in Here .. Len(log)
    <2>1. Truths /\ LogTags /\ LogOK /\ Here \in Nat /\ Len(log) \in Nat
          /\ \A x \in journal.log : x \in Row /\ x.id \in Nat
        BY BaseLog DEF CoverageInv, Truths
    <2> QED
        BY <2>1 DEF Truths, JournalTells, RowTells, Behind, OneRowEach
<1>2. PICK r \in ingest.work.rows :
        /\ \A x \in ingest.work.rows : r.id <= x.id
        /\ Offered("Event", r)
        /\ ingest.pc = "publish" /\ ingest'.pc = "publish"
        /\ ingest'.work.rows = ingest.work.rows \ {r} /\ ingest'.work.last = ingest.work.last
        /\ UNCHANGED <<log, journal, store, pending, generation>>
    BY PublishStep
<1> PICK h : h = ingest.work.last
    OBVIOUS
<1>3. s.pc # "off" /\ RowModel(r) = CollModel[c]
    BY <1>2 DEF Offered, Published
<1>4. /\ r \in journal.log /\ r \in Row /\ r.id \in Nat /\ Backed(r.id) /\ r.id > Here
      /\ Untouched(r.e, r.id, h) /\ RowTells(r) /\ r.e \in Entities
    BY <1>1, <1>2, PublishedBacked
<1>5. r.e \in Mine(c)
    BY <1>3, <1>4 DEF RowModel, Mine
<1>6. /\ Accounted(journal.log, h) /\ h \in Here .. Len(log) /\ Plain(Here, h)
      /\ \A x \in journal.log : x.id \in 1 .. h
    BY SMTT(40), <1>1, <1>2, PublishedWork
<1>7. /\ t.pc = s.pc /\ t.gen = s.gen /\ t.snap = s.snap /\ t.replay = s.replay /\ t.guard = s.guard
      /\ t.sig = s.sig /\ t.listing = s.listing /\ Len(s.queue) \in Nat /\ Len(t.queue) = n
      /\ t.queue[n].kind = "Event" /\ t.queue[n].row = r /\ t.queue[n].gen = generation
      /\ \A k \in 1 .. Len(s.queue) : t.queue[k] = s.queue[k]
    BY <1>2, <1>3, PublishedItems
<1>8. /\ Queued(c) = 1 .. n - 1 /\ Queued(c)' = Queued(c) \cup {n} /\ n \notin Queued(c)
      /\ \A k \in Queued(c) : t.queue[k] = s.queue[k]
    BY SMTT(40), <1>7 DEF Queued
<1>9. /\ generation' = generation /\ Here' = Here /\ journal' = journal /\ log' = log
      /\ Current(c)' = Current(c) /\ Mine(c)' = Mine(c)
    BY <1>2 DEF Here, Current, Mine
<1>10. /\ s.guard \in Nat /\ s.snap \in Nat \cup {None} /\ (\A k \in Queued(c) : s.queue[k].row.id \in Nat)
       /\ Current(c) \in Nat \cup {None} /\ None = -1 /\ (\A x \in s.replay : x.id \in Nat) /\ s.sig.row.id \in Nat
    BY SubscriberTypes DEF Queued
<1> PICK H, U, T, H1 : H = Handed(c) /\ U = Unlisted(c) /\ T = Table(c) /\ H1 = Handed(c)'
    OBVIOUS
<1>11. /\ Unlisted(c)' = U /\ Table(c)' = T /\ H1 = (IF Beyond(c, r) THEN H \cup {r} ELSE H)
       /\ \A i \in Nat : Reached(c, i)' => Reached(c, i) \/ i <= r.id
    BY <1>2, <1>3, <1>4, PublishedHands
<1>12. Beyond(c, r) => r.id > Current(c) /\ \A x \in H : x.id < r.id /\ x.id \in Nat
    <2>1. ASSUME Beyond(c, r), Controls(c) = {} PROVE r.id > Current(c) /\ \A x \in H : x.id < r.id
        <3>1. InStep(c)
            BY <2>1 DEF InTune, CalledAt, Controls
        <3>2. Current(c) <= s.guard /\ (\A x \in s.replay : x.id <= s.guard) /\ (Landing(c) => s.sig.row.id <= s.guard)
            BY <3>1 DEF InStep, Landing
        <3>3. s.guard < r.id /\ \A k \in Queued(c) : s.queue[k].row.id < r.id
            BY <2>1, <3>1 DEF Beyond, InStep
        <3>4. H \subseteq {s.queue[k].row : k \in Queued(c)} \cup s.replay \cup (IF Landing(c) THEN {s.sig.row} ELSE {})
            BY <3>1, HandedInStep
        <3> QED
            BY <1>4, <1>10, <3>2, <3>3, <3>4
    <2>2. ASSUME Beyond(c, r), Controls(c) # {} PROVE r.id > Current(c) /\ \A x \in H : x.id < r.id
        <3>1. Current(c) = None
            BY <2>2 DEF InTune, InStep, CalledAt, Controls
        <3>2. H = {s.queue[k].row : k \in Live(c)}
            BY <2>2 DEF Handed
        <3>3. \A k \in Live(c) : s.queue[k].row.id < r.id
            BY <2>2 DEF Live, Beyond
        <3> QED
            BY SMTT(40), <1>4, <1>10, <3>1, <3>2, <3>3
    <2>3. \A x \in H : x.id \in Nat
        BY HandedFacts
    <2> QED
        BY <2>1, <2>2, <2>3
<1>13. ~Beyond(c, r) => Reached(c, r.id)
    <2>1. ASSUME NEW k \in Queued(c), s.queue[k].gen = generation, ~(s.queue[k].row.id < r.id) PROVE Reached(c, r.id)
        BY <1>4, <1>10, <2>1 DEF Reached
    <2>2. ASSUME Controls(c) = {}, ~(s.guard < r.id) PROVE Reached(c, r.id)
        BY <1>4, <1>10, <2>2 DEF Reached
    <2> QED
        BY <2>1, <2>2 DEF Beyond
<1>14. \A i, j \in Nat : i <= j /\ Reached(c, j) => Reached(c, i)
    BY <1>10 DEF Reached
<1>15. Reached(c, r.id) => Covers(c, r.e, r.id)
    <2>1. SUFFICES ASSUME Reached(c, r.id), NEW y \in journal.log, y.e = r.e, y.id > r.id PROVE FALSE
        BY <1>4, <1>5 DEF InTune
    <2>2. y.id \in r.id + 1 .. h /\ Placed(y)
        BY <1>1, <1>4, <1>6, <2>1
    <2> QED
        BY <1>4, <2>1, <2>2 DEF Untouched, Placed
<1>16. /\ \A e : PlacedRows(e, H)
       /\ \A x \in H : x.id \in Nat /\ (x.id > Here => Safe(x.e, Here, x.id) /\ \E y \in journal.log : y.id = x.id)
    BY HandedFacts
<1>17. ASSUME NEW e, NEW m, e # r.e, Covered(c, e, H, U, T, m) PROVE Covered(c, e, H1, U, T, m)
    BY <1>11, <1>17, CoveredByOwn
<1>18. ASSUME NEW m, r.id >= m \/ Quiet(r.e, r.id, m), Beyond(c, r) PROVE Covered(c, r.e, H1, U, T, m)
    <2>1. r \in H1 /\ \A x \in H1 : x = r \/ (x.id < r.id /\ x.id \in Nat)
        BY <1>11, <1>12, <1>18
    <2>2. \A x \in H1 : x.e = r.e /\ Newest(H1, x) => x = r
        BY <1>4, <2>1 DEF Newest
    <2> QED
        BY <1>18, <2>1, <2>2 DEF Covered
\* item (1): in step, or called
<1>19. InStep(c)' \/ \E j \in Queued(c)' : CalledAt(c, j)'
    <2>1. ASSUME InStep(c) PROVE InStep(c)'
        <3>1. Backed(sub[c].guard)'
            BY <1>7, <1>9, <2>1 DEF InStep, Backed
        <3>2. \A k \in Queued(c)' : t.queue[k].gen = generation' /\ t.queue[k].kind = "Event"
            BY <1>7, <1>8, <1>9, <2>1 DEF InStep
        <3> QED
            BY <1>7, <1>9, <2>1, <3>1, <3>2 DEF InStep
    <2>2. ASSUME NEW j \in Queued(c), CalledAt(c, j) PROVE CalledAt(c, j)' /\ j \in Queued(c)'
        <3>1. \A k \in 1 .. j - 1 : k \in Queued(c)
            BY <1>7, <1>8
        <3>2. \A k \in 1 .. j - 1 : t.queue[k].gen < generation'
            BY <1>8, <1>9, <2>2, <3>1 DEF CalledAt
        <3>3. t.queue[j] = s.queue[j] /\ t.queue[j].row.id < r.id
            <4>1. t.queue[j] = s.queue[j]
                BY <1>8
            <4>2. s.queue[j].row.id <= Here /\ s.queue[j].row.id \in Nat
                BY <1>10, <2>2 DEF CalledAt
            <4>3. s.queue[j].row.id < r.id
                BY <1>1, <1>4, <4>2
            <4> QED
                BY <4>1, <4>3
        <3>4. ASSUME NEW k \in j + 1 .. Len(t.queue)
              PROVE  t.queue[k].gen = generation' /\ t.queue[k].kind = "Event" /\ t.queue[k].row.id > t.queue[j].row.id
            <4>1. (k \in j + 1 .. Len(s.queue) /\ k \in Queued(c)) \/ k = n
                BY SMTT(40), <1>7, <1>8
            <4>2. CASE k = n
                BY <1>4, <1>7, <1>9, <1>10, <3>3, <4>2
            <4>3. CASE k \in j + 1 .. Len(s.queue) /\ k \in Queued(c)
                BY <1>8, <1>9, <2>2, <3>3, <4>3 DEF CalledAt
            <4> QED
                BY <4>1, <4>2, <4>3
        <3>5. GuardBy(c, j, sub[c].queue[j].row.id) => GuardBy(c, j, sub[c].queue[j].row.id)'
            <4>1. \A i \in 0 .. j - 1 : \A k \in i + 1 .. j - 1 : k \in 1 .. j - 1
                BY <1>7, <1>8
            <4>2. \A i \in 0 .. j - 1 : (\E k \in i + 1 .. j - 1 : t.queue[k].kind = "EpochReset")
                                       <=> (\E k \in i + 1 .. j - 1 : s.queue[k].kind = "EpochReset")
                BY <1>8, <3>1, <4>1
            <4>3. \A i \in 1 .. j - 1 : i \in 0 .. j - 1 /\ t.queue[i] = s.queue[i]
                BY <1>7, <1>8, <3>1
            <4>4. 0 \in 0 .. j - 1
                BY <1>7, <1>8
            <4> QED
                BY <1>7, <3>3, <4>2, <4>3, <4>4 DEF GuardBy
        <3>6. t.queue[j].row.id <= Here'
            BY <1>9, <2>2, <3>3 DEF CalledAt
        <3> QED
            BY <1>7, <1>8, <1>9, <2>2, <3>2, <3>3, <3>4, <3>5, <3>6 DEF CalledAt
    <2> QED
        BY <2>1, <2>2 DEF InTune
<1>20. ASSUME NEW k \in Queued(c)', sub'[c].queue[k].gen = generation' PROVE Backed(sub[c].queue[k].row.id)'
    <2>1. Backed(t.queue[k].row.id)
        BY <1>4, <1>7, <1>8, <1>9, <1>20 DEF InTune
    <2> QED
        BY <1>9, <2>1 DEF Backed
<1>21. OneRowEach(Handed(c))'
    <2>1. OneRowEach(H)
        BY DEF InTune
    <2>2. OneRowEach(H1)
        BY <1>4, <1>11, <1>12, <2>1 DEF OneRowEach
    <2> QED
        BY <2>2 DEF OneRowEach
<1>22. ASSUME NEW x \in H1
       PROVE  /\ RowTells(x)' /\ x.e \in Mine(c)' /\ x.id > Current(c)' /\ Kept(c, x)'
              /\ x.id > Here' => \E y \in journal'.log : y.id = x.id
    <2>1. RowTells(x)' = RowTells(x) /\ Kept(c, x)' = Kept(c, x)
        BY <1>9, SameLog DEF Kept
    <2>2. CASE x \in H
        BY <1>9, <2>1, <2>2 DEF InTune
    <2>3. CASE x = r /\ Beyond(c, r)
        <3>1. Kept(c, r)
            BY <1>4 DEF Kept
        <3> QED
            BY <1>4, <1>5, <1>9, <1>12, <2>1, <2>3, <3>1
    <2> QED
        BY <1>11, <2>2, <2>3
<1>23. ASSUME NEW e \in Mine(c) PROVE Covered(c, e, H1, U, T, Here)
    <2>1. Covered(c, e, H, U, T, Here)
        BY DEF InTune, Covers
    <2>2. CASE e # r.e
        BY <1>17, <2>1, <2>2
    <2>3. CASE e = r.e
        <3>1. CASE Beyond(c, r)
            BY <1>1, <1>4, <1>18, <2>3, <3>1
        <3>2. CASE ~Beyond(c, r)
            BY <1>11, <2>1, <3>2
        <3> QED
            BY <3>1, <3>2
    <2> QED
        BY <2>2, <2>3
<1>24. ASSUME NEW x \in journal.log, x.id > Here, x.e \in Mine(c), Reached(c, x.id)'
       PROVE  Covered(c, x.e, H1, U, T, x.id) \/ \E y \in journal.log : y.e = x.e /\ y.id > x.id
    <2>1. x.id \in Nat /\ Placed(x) /\ x.e \in Entities
        BY <1>1
    <2>2. CASE Reached(c, x.id)
        <3>1. Covered(c, x.e, H, U, T, x.id) \/ \E y \in journal.log : y.e = x.e /\ y.id > x.id
            BY <1>24, <2>2 DEF InTune, Covers
        <3>2. CASE x.e # r.e \/ ~Beyond(c, r)
            BY <1>11, <1>17, <3>1, <3>2
        <3>3. CASE x.e = r.e /\ Beyond(c, r)
            <4>1. x.id < r.id
                <5>1. CASE \E k \in Queued(c) : s.queue[k].gen = generation /\ x.id <= s.queue[k].row.id
                    BY <1>4, <1>10, <2>1, <3>3, <5>1 DEF Beyond
                <5>2. CASE Controls(c) = {} /\ x.id <= s.guard
                    BY <1>4, <1>10, <2>1, <3>3, <5>2 DEF Beyond
                <5> QED
                    BY <2>2, <5>1, <5>2 DEF Reached
            <4> QED
                BY <1>4, <2>1, <3>3, <4>1
        <3> QED
            BY <3>2, <3>3
    <2>3. CASE ~Reached(c, x.id)
        <3>1. x.id <= r.id
            BY <1>11, <1>24, <2>1, <2>3
        <3>2. Beyond(c, r)
            BY <1>4, <1>13, <1>14, <2>1, <2>3, <3>1
        <3>3. CASE x.e = r.e
            <4>1. CASE x.id = r.id
                <5>1. Covered(c, r.e, H1, U, T, x.id)
                    BY <1>4, <1>18, <2>1, <3>2, <4>1
                <5> QED
                    BY <3>3, <5>1
            <4>2. CASE x.id < r.id
                BY <1>4, <2>1, <3>3, <4>2
            <4> QED
                BY <1>4, <2>1, <3>1, <4>1, <4>2
        <3>4. CASE x.e # r.e
            <4>1. SUFFICES ASSUME \A y \in journal.log : y.e = x.e => y.id <= x.id
                           PROVE  Covers(c, x.e, x.id)
                BY <1>1, <1>17, <2>1, <3>4 DEF Covers
            <4>2. ~\E q \in ingest.work.rows : q.e = x.e
                <5>1. SUFFICES ASSUME NEW q \in ingest.work.rows, q.e = x.e PROVE FALSE
                    OBVIOUS
                <5>2. q \in journal.log /\ q.id \in Nat /\ r.id <= q.id
                    BY <1>1, <1>2, <5>1, PublishedBacked
                <5>3. q.id = r.id
                    BY <1>4, <2>1, <3>1, <4>1, <5>1, <5>2
                <5> QED
                    BY <1>1, <1>4, <3>4, <5>1, <5>2, <5>3
            <4>3. Covers(c, x.e, h)
                BY <1>2, <1>24, <4>2 DEF InTune
            <4>4. x.id \in Here + 1 .. h
                BY <1>1, <1>6, <1>24, <2>1
            <4>5. Untouched(x.e, x.id, h) \/ (GoneAt(x.e, Here) /\ GoneAt(x.e, h))
                BY <1>1, <1>6, <2>1, <4>1, <4>4, AccountedAt
            <4>6. Safe(x.e, Here, x.id)
                BY <1>1, <1>24 DEF Truths, JournalTells
            <4> QED
                BY <1>1, <1>6, <1>16, <4>3, <4>4, <4>5, <4>6, CoveredBack DEF Covers
        <3> QED
            BY <3>3, <3>4
    <2> QED
        BY <2>2, <2>3
<1>25. ASSUME NEW e \in Mine(c)
       PROVE  Covered(c, e, H1, U, T, h) \/ \E q \in ingest'.work.rows : q.e = e
    <2>1. Covered(c, e, H, U, T, h) \/ \E q \in ingest.work.rows : q.e = e
        BY <1>2 DEF InTune, Covers
    <2>2. CASE e # r.e
        BY <1>2, <1>17, <2>1, <2>2
    <2>3. CASE e = r.e
        <3>1. CASE Beyond(c, r)
            <4>1. Quiet(r.e, r.id, h)
                BY <1>4 DEF Quiet
            <4> QED
                BY <1>18, <2>3, <3>1, <4>1
        <3>2. CASE ~Beyond(c, r)
            <4>1. Covers(c, r.e, r.id)
                BY <1>13, <1>15, <3>2
            <4>2. r.id \in Here .. Len(log) /\ h \in r.id .. Len(log)
                BY <1>1, <1>4, <1>6
            <4>3. Covered(c, r.e, H, U, T, h)
                BY <1>1, <1>4, <1>16, <4>1, <4>2, CoveredOn DEF Covers
            <4> QED
                BY <1>11, <2>3, <3>2, <4>3
        <3> QED
            BY <3>1, <3>2
    <2> QED
        BY <2>2, <2>3
<1>26. \A e, m : Covered(c, e, H1, U, T, m)' = Covered(c, e, H1, U, T, m)
    BY <1>9, SameCursor
<1>27. \A e, m : Covers(c, e, m)' = Covered(c, e, H1, U, T, m)'
    BY <1>11 DEF Covers
<1>28. \A e \in Mine(c)' : Covers(c, e, Here)'
    <2>1. PICK m : m = Here
        OBVIOUS
    <2>2. \A e \in Mine(c) : Covered(c, e, H1, U, T, m)'
        BY <1>23, <1>26, <2>1
    <2> QED
        BY <1>9, <1>27, <2>1, <2>2
<1>29. ASSUME NEW x \in journal'.log, x.id > Here', x.e \in Mine(c)', Reached(c, x.id)'
       PROVE  Covers(c, x.e, x.id)' \/ \E y \in journal'.log : y.e = x.e /\ y.id > x.id
    BY <1>9, <1>24, <1>26, <1>27, <1>29
<1>30. ingest'.pc = "publish" =>
          \A e \in Mine(c)' : Covers(c, e, ingest.work.last)' \/ \E q \in ingest'.work.rows : q.e = e
    <2>1. ingest'.work.last = h
        BY <1>2
    <2> QED
        BY <1>9, <1>25, <1>26, <1>27, <2>1
<1>31. \A x \in Handed(c)' : /\ RowTells(x)' /\ x.e \in Mine(c)' /\ x.id > Current(c)' /\ Kept(c, x)'
                             /\ x.id > Here' => \E y \in journal'.log : y.id = x.id
    BY <1>22
<1> QED
    BY ONLY <1>19, <1>20, <1>21, <1>28, <1>29, <1>30, <1>31 DEF InTune

-----------------------------------------------------------------------------
(* Recoveries *)

\* The fanout of a recovery puts every collection that lags behind back in tune.
LEMMA InTuneTold ==
    ASSUME Base, CoverageInv, [Next]_vars, OnLog, OnLog', NEW c \in Collections, Serving(c), TellRecovery
    PROVE  InTune(c)'
<1> DEFINE s == sub[c]
           t == sub'[c]
<1> PICK n : n = Len(sub[c].queue) + 1
    OBVIOUS
<1>1. Truths /\ LogTags /\ LogOK /\ Here \in Nat /\ Len(log) \in Nat /\ \A x \in journal.log : x.id \in Nat
    BY BaseLog DEF CoverageInv, Truths
<1>2. /\ ingest.pc = "tell" /\ ingest'.pc \in {"catchup", "stream"} /\ ingest.work.kind \in {"Resync", "EpochReset"}
      /\ Offered(ingest.work.kind, ControlRow(ingest.work.last))
      /\ UNCHANGED <<log, journal, store, pending, generation>>
    BY TellStep
<1>3. s.pc \in {"idle", "list", "land", "ack"}
    BY DEF Serving
<1>4. Lagging(c)
    BY <1>2, <1>3 DEF CoverageInv, Gens
<1>5. ingest.work.last = Here /\ ControlRow(ingest.work.last).id = Here
    BY SMTT(40), <1>1, <1>2 DEF Truths, WorkTells, ControlRow
<1>6. /\ t.pc = s.pc /\ t.gen = s.gen /\ t.snap = s.snap /\ t.replay = s.replay /\ t.guard = s.guard
      /\ t.sig = s.sig /\ t.listing = s.listing /\ Len(s.queue) \in Nat /\ Len(t.queue) = n
      /\ t.queue[n].kind = ingest.work.kind /\ t.queue[n].row.id = Here /\ t.queue[n].gen = generation
      /\ \A k \in 1 .. Len(s.queue) : t.queue[k] = s.queue[k]
    BY SMTT(40), <1>2, <1>3, <1>5, PublishedItems
<1>7. /\ generation' = generation /\ Here' = Here /\ journal' = journal /\ log' = log /\ generation \in Nat
    BY <1>2, BaseTypes DEF Here
<1>8. /\ Queued(c) = 1 .. n - 1 /\ Queued(c)' = 1 .. n /\ n \in Queued(c)'
      /\ \A k \in 1 .. n - 1 : t.queue[k] = s.queue[k] /\ t.queue[k].gen < generation /\ t.queue[k].gen \in Nat
    <2>1. Queued(c) = 1 .. n - 1 /\ Queued(c)' = 1 .. n /\ n \in Queued(c)' /\ n - 1 = Len(s.queue)
        BY <1>6 DEF Queued
    <2>2. \A k \in Queued(c) : s.queue[k].gen < generation /\ s.queue[k].gen \in Nat
        BY <1>4, SubscriberTypes DEF Lagging, Queued
    <2> QED
        BY <1>6, <2>1, <2>2
<1>9. \A k \in Queued(c)' : t.queue[k].gen = generation' => k = n
    <2>1. \A k \in Queued(c)' : k = n \/ k \in 1 .. n - 1
        BY <1>6, <1>8
    <2> QED
        BY <1>7, <1>8, <2>1
\* every id known to c lies at or below the recovery's
<1>10. \A x \in journal.log : x.id <= Here
    <2>1. SUFFICES ASSUME NEW x \in journal.log, x.id > Here PROVE FALSE
        BY <1>1
    <2>2. PICK i \in x.id .. Len(log) : Behind(i)
        BY <1>1, <2>1 DEF Truths, JournalTells, Told
    <2>3. InHand /\ ingest.work.epoch = epoch
        <3>1. InHand
            BY <1>2 DEF InHand
        <3>2. ingest.work.epoch \in 0 .. epoch /\ journal.epoch <= ingest.work.epoch /\ journal.epoch # None
            BY <1>1, <3>1 DEF Truths, WorkTells, Epochs
        <3>3. journal.epoch = epoch /\ epoch \in Nat
            BY <3>2, BaseTypes DEF OnLog
        <3> QED
            BY <3>1, <3>2, <3>3
    <2> QED
        BY <1>1, <1>5, <2>1, <2>2, <2>3 DEF Behind
<1>11. \A i \in Nat : Backed(i) => i <= Here
    BY SMTT(40), <1>1, <1>10 DEF Backed
<1>12. ASSUME ingest.work.kind = "Resync" PROVE GuardBy(c, n, sub[c].queue[n].row.id)'
    <2>1. Topped(c)
        BY <1>3, <1>12 DEF CoverageInv, Tops
    <2>2. s.guard \in Nat /\ \A i \in 1 .. n - 1 : s.queue[i].row.id \in Nat
        BY <1>8, SubscriberTypes DEF Queued
    <2>3. /\ (\E k \in 0 + 1 .. Len(s.queue) : s.queue[k].kind = "EpochReset") \/ s.guard <= Here
          /\ \A i \in 1 .. n - 1 : (\E k \in i + 1 .. Len(s.queue) : s.queue[k].kind = "EpochReset") \/ s.queue[i].row.id <= Here
        BY <1>8, <1>11, <2>1, <2>2 DEF Topped
    <2>4. \A i \in 0 .. n - 1 : \A k \in i + 1 .. Len(s.queue) : k \in i + 1 .. n - 1 /\ t.queue[k] = s.queue[k]
        BY SMTT(40), <1>6
    <2>5. \A i \in 0 .. n - 1 : (\E k \in i + 1 .. Len(s.queue) : s.queue[k].kind = "EpochReset")
                               => (\E k \in i + 1 .. n - 1 : t.queue[k].kind = "EpochReset")
        BY <2>4
    <2>6. 0 \in 0 .. n - 1 /\ \A i \in 1 .. n - 1 : i \in 0 .. n - 1 /\ t.queue[i] = s.queue[i]
        BY SMTT(40), <1>6
    <2>7. (\E k \in 0 + 1 .. n - 1 : t.queue[k].kind = "EpochReset") \/ t.guard <= t.queue[n].row.id
        BY SMTT(40), <1>6, <2>3, <2>5, <2>6
    <2>8. \A i \in 1 .. n - 1 : (\E k \in i + 1 .. n - 1 : t.queue[k].kind = "EpochReset") \/ t.queue[i].row.id <= t.queue[n].row.id
        BY <1>6, <2>3, <2>5, <2>6
    <2> QED
        BY <2>7, <2>8 DEF GuardBy
<1>13. CalledAt(c, n)'
    <2>1. t.queue[n].gen = generation' /\ t.queue[n].kind \in {"Resync", "EpochReset"} /\ t.queue[n].row.id <= Here'
        BY <1>1, <1>2, <1>6, <1>7
    <2>2. \A k \in 1 .. n - 1 : t.queue[k].gen < generation'
        BY <1>7, <1>8
    <2>3. \A k \in n + 1 .. Len(t.queue) : FALSE
        BY <1>6
    <2>4. t.pc # "idle" => t.sig.gen < generation'
        BY <1>3, <1>4, <1>6, <1>7 DEF Lagging
    <2>5. t.gen < generation'
        BY <1>4, <1>6, <1>7 DEF Lagging
    <2>6. t.queue[n].kind = "Resync" => GuardBy(c, n, sub[c].queue[n].row.id)'
        BY <1>6, <1>12
    <2>7. Current(c)' = None
        <3>1. pending[c] = None /\ journal.marks[c] = None
            BY <1>2 DEF Base, NoMarkAcrossRecovery, NoMarks
        <3> QED
            BY <1>2, <3>1 DEF Current, MaxSyncId
    <2> QED
        BY <2>1, <2>2, <2>3, <2>4, <2>5, <2>6, <2>7 DEF CalledAt
<1>14. Controls(c)' # {}
    BY <1>2, <1>6, <1>7, <1>8 DEF Controls
<1>15. Handed(c)' = {}
    <2>1. \A k \in Live(c)' : k \in Queued(c)' /\ t.queue[k].gen = generation' /\ t.queue[k].kind = "Event"
        BY DEF Live
    <2>2. Live(c)' = {}
        BY <1>2, <1>6, <1>9, <2>1
    <2> QED
        BY <1>14, <2>2 DEF Handed
<1>16. Unlisted(c)'
    BY <1>14 DEF Unlisted
<1>17. \A e, m : Covers(c, e, m)'
    BY <1>15, <1>16 DEF Covers, Covered
<1>18. ASSUME NEW k \in Queued(c)', sub'[c].queue[k].gen = generation' PROVE Backed(sub[c].queue[k].row.id)'
    <2>1. k = n
        BY <1>9, <1>18
    <2>2. t.queue[k].row.id <= Here'
        BY <1>1, <1>6, <1>7, <2>1
    <2> QED
        BY <2>2 DEF Backed
<1>19. \A e \in Mine(c)' : Covers(c, e, Here)'
    BY <1>15, <1>16 DEF Covers, Covered
<1>20. OneRowEach(Handed(c))'
    BY <1>15 DEF OneRowEach
<1>21. ingest'.pc # "publish"
    BY <1>2
<1> QED
    BY <1>8, <1>13, <1>15, <1>17, <1>18, <1>19, <1>20, <1>21 DEF InTune

\* A resync that is due stays due.
LEMMA AheadStands ==
    ASSUME Base, CoverageInv, log' = log \/ ServerWrites, retained' = retained \/ Expire, Here' = Here, ResyncAhead
    PROVE  ResyncAhead'
<1>1. LogTags /\ retained \in Nat /\ Here \in Nat
    BY BaseTypes, BaseLog DEF CoverageInv
<1>2. CASE log' = log /\ retained' = retained
    BY <1>2 DEF ResyncAhead
<1>3. CASE ServerWrites
    BY <1>1, <1>3, WritesGrow, GrownRows
<1>4. CASE log' = log /\ Expire
    <2>1. retained' \in Nat /\ retained' >= retained
        BY <1>1, <1>4, BaseLog DEF Expire, CoverageInv
    <2> QED
        BY <1>1, <1>4, <2>1 DEF ResyncAhead
<1>5. Expire => log' = log
    BY DEF Expire
<1> QED
    BY <1>2, <1>3, <1>4, <1>5

\* A recovery that is owed stays so until it begins.
LEMMA OwedStands ==
    ASSUME Base, CoverageInv, [Next]_vars, OnLog, OnLog', Owed, ~BeginRecovery, ~Crash
    PROVE  Owed'
<1>1. /\ ingest.state = "Recovering" /\ ResyncAhead /\ ingest.pc \in {"stopped", "catchup", "recover"}
      /\ ingest.pc = "catchup" => (OnWire => wire.resync)
      /\ (wire.stage # "none" => ingest.pc \in {"catchup", "stream"} /\ wire.epoch \in 0 .. epoch)
    BY DEF Owed, CoverageInv, WireTells
<1>2. ~Restore
    BY RestoredLog DEF CoverageInv, Truths
<1>3. NoBatch.stage = "none"
    BY DEF NoBatch
<1>4. CASE ServerWrites \/ Expire
    <2>1. UNCHANGED <<epoch, wire, journal, ingest>>
        BY <1>4 DEF ServerWrites, Write, BulkChange, Expire
    <2>2. retained' = retained \/ Expire
        BY <1>4 DEF ServerWrites, Write, BulkChange
    <2>3. log' = log \/ ServerWrites
        BY <1>4 DEF Expire
    <2>4. ResyncAhead'
        BY <1>1, <2>1, <2>2, <2>3, AheadStands DEF Here
    <2> QED
        BY <1>1, <2>1, <2>4 DEF Owed, OnWire
<1>5. CASE ServeList \/ ServeHydrate
    <2>1. UNCHANGED <<log, epoch, retained, journal, ingest>>
        BY <1>5 DEF ServeList, ServeHydrate
    <2>2. ResyncAhead'
        BY <1>1, <2>1, AheadStands DEF Here
    <2>3. ingest.pc = "catchup" => wire'.stage = "none" \/ wire'.epoch # epoch \/ wire'.resync
        <3>1. CASE ServeList
            BY <1>1, <3>1 DEF ServeList, ResyncAhead, Here
        <3>2. CASE ServeHydrate
            <4>1. wire \in Batch
                BY DEF Base, TypeInv, TypeOK
            <4> QED
                BY <1>1, <1>3, <3>2, <4>1 DEF ServeHydrate, OnWire, Batch
        <3> QED
            BY <1>5, <3>1, <3>2
    <2> QED
        BY <1>1, <2>1, <2>2, <2>3 DEF Owed, OnWire
<1>6. CASE Start
    <2>1. /\ ingest.pc = "stopped" /\ ingest'.pc = "catchup" /\ ingest'.state = "Recovering"
          /\ UNCHANGED <<log, epoch, retained, wire, journal>>
        BY <1>1, <1>6, StartStep
    <2>2. ResyncAhead'
        BY <1>1, <2>1, AheadStands DEF Here
    <2> QED
        BY <1>1, <2>1, <2>2 DEF Owed, OnWire
<1>7. CASE Accept
    <2>1. /\ wire.stage = "sent" /\ ingest.pc = "catchup"
          /\ UNCHANGED <<log, epoch, retained>> /\ journal'.cursor = journal.cursor
        BY <1>1, <1>7, AcceptStep
    <2>2. (journal.epoch # None /\ journal.epoch # wire.epoch) \/ wire.resync
        <3>1. CASE journal.epoch = None
            BY <1>1, <2>1, <3>1, BaseTypes DEF CoverageInv, Epochs, OnWire
        <3>2. CASE journal.epoch = epoch
            BY <1>1, <2>1, <3>2, BaseTypes DEF OnWire
        <3> QED
            BY <3>1, <3>2 DEF OnLog
    <2>3. ingest'.pc = "recover" /\ ingest'.state = "Recovering"
        BY <1>7, <2>2, AcceptStep
    <2>4. ResyncAhead'
        BY <1>1, <2>1, AheadStands DEF Here
    <2> QED
        BY <2>3, <2>4 DEF Owed
<1>8. CASE Fail \/ Stop
    <2>1. /\ ingest'.pc \in {"catchup", "stopped"} /\ ingest'.state = "Recovering" /\ wire' = NoBatch
          /\ UNCHANGED <<log, epoch, retained, journal>>
        BY <1>1, <1>8, FailStep, StopStep
    <2>2. ResyncAhead'
        BY <1>1, <2>1, AheadStands DEF Here
    <2> QED
        BY <1>3, <2>1, <2>2 DEF Owed, OnWire
<1>9. CASE TimedFlush \/ UNCHANGED vars \/ \E c \in Collections : Unmount(c) \/ Mount(c) \/ Attach(c) \/ Drain(c)
    <2>1. UNCHANGED <<log, epoch, retained, wire, ingest>> /\ Here' = Here
        <3>1. CASE TimedFlush
            BY <3>1, FlushStep DEF TimedFlush, SameRows, Here
        <3>2. CASE UNCHANGED vars
            BY <3>2 DEF vars, Here
        <3>3. CASE \E c \in Collections : Unmount(c) \/ Mount(c) \/ Attach(c) \/ Drain(c)
            BY <3>3 DEF Unmount, Mount, Attach, ReadMark, ReadFloor, ReadJournal, Drain, TakeReplay, TakeTail,
                ListServer, Land, Ack, Here
        <3> QED
            BY <1>9, <3>1, <3>2, <3>3
    <2>2. ResyncAhead'
        BY <1>1, <2>1, AheadStands
    <2> QED
        BY <1>1, <2>1, <2>2 DEF Owed, OnWire
<1>10. ~(AppendChunk \/ PublishRow \/ AdvanceIngested \/ FlushBeforePrune \/ PruneRead \/ PruneCommit
         \/ WipeJournal \/ TellRecovery)
    BY <1>1 DEF AppendChunk, PublishRow, AdvanceIngested, FlushBeforePrune, PruneRead, PruneCommit,
                WipeJournal, TellRecovery
<1> QED
    BY <1>2, <1>4, <1>5, <1>6, <1>7, <1>8, <1>9, <1>10 DEF Next, Run, Recover, Disturb, Serve

\* A collection that has heard nothing of this generation hears of it from the fanout only.
LEMMA LagsStands ==
    ASSUME Base, [Next]_vars, NEW c \in Collections, Serving(c), Lagging(c), Serving(c)',
           generation' = generation, ~PublishRow, ~TellRecovery
    PROVE  Lagging(c)'
<1> DEFINE s == sub[c]
           t == sub'[c]
<1>1. /\ s.gen < generation /\ (s.pc \in {"list", "land", "ack"} => s.sig.gen < generation)
      /\ \A k \in 1 .. Len(s.queue) : s.queue[k].gen < generation
    BY DEF Lagging, Queued
<1>2. s.pc \in {"idle", "list", "land", "ack"} /\ t.pc \in {"idle", "list", "land", "ack"}
    BY DEF Serving
<1>3. generation \in Nat /\ s.gen \in Nat /\ Len(s.queue) \in Nat /\ \A k \in 1 .. Len(s.queue) : s.queue[k].gen \in Nat
    BY BaseTypes, SubscriberTypes
<1>4. CASE t = s
    BY <1>4 DEF Lagging, Queued
<1>5. CASE TakeReplay(c)
    BY <1>1, <1>2, <1>3, <1>5, TakeReplayStep DEF Lagging, Queued
<1>6. CASE TakeTail(c)
    <2>1. /\ t.gen = s.gen /\ Len(s.queue) > 0 /\ Len(t.queue) = Len(s.queue) - 1
          /\ \A k \in 1 .. Len(t.queue) : t.queue[k] = s.queue[k + 1]
          /\ s.queue[1].gen # generation => t.pc = "idle"
        BY <1>6, TakeTailStep
    <2>2. t.pc = "idle"
        BY <1>1, <1>3, <2>1
    <2>3. \A k \in 1 .. Len(t.queue) : k + 1 \in 1 .. Len(s.queue)
        BY <1>3, <2>1
    <2> QED
        BY <1>1, <2>1, <2>2, <2>3 DEF Lagging, Queued
<1>7. CASE ListServer(c) \/ Land(c) \/ Ack(c)
    BY <1>1, <1>7, ListStep, LandStep, AckStep DEF Lagging, Queued
<1>8. ~(Mount(c) \/ Attach(c) \/ Unmount(c) \/ Crash)
    <2>1. Detached.pc = "off"
        BY DEF Detached
    <2> QED
        BY <1>2, <2>1, MountStep, ReadMarkStep, ReadFloorStep, ReadJournalStep, UnmountStep, CrashStep DEF Attach
<1> QED
    BY <1>4, <1>5, <1>6, <1>7, <1>8, SubscriberSteps DEF Drain

-----------------------------------------------------------------------------
(* Mounting *)

\* A mount ends with a plan that leaves no gap between the table, the slice and the tail.
LEMMA InTuneMounted ==
    ASSUME Base, CoverageInv, OnLog, NEW c \in Collections, ReadJournal(c)
    PROVE  InTune(c)'
<1> DEFINE s == sub[c]
           t == sub'[c]
<1> PICK plan : plan = PlanMount(sub[c].mark, sub[c].cursor, sub[c].floor, journal.resync)
    OBVIOUS
<1> PICK H, U, T : H = Handed(c)' /\ U = Unlisted(c)' /\ T = Table(c)'
    OBVIOUS
<1>1. /\ Truths /\ LogTags /\ LogOK /\ Here \in Nat /\ Len(log) \in Nat
      /\ \A x \in journal.log : x \in Row /\ x.id \in Nat /\ Placed(x) /\ RowTells(x) /\ x.e \in Entities /\ x.id <= Len(log)
      /\ OneRowEach(journal.log) /\ Here \in Here .. Len(log)
    <2>1. Truths /\ LogTags /\ LogOK /\ Here \in Nat /\ Len(log) \in Nat
          /\ \A x \in journal.log : x \in Row /\ x.id \in Nat
        BY BaseLog DEF CoverageInv, Truths
    <2> QED
        BY <2>1 DEF Truths, JournalTells, RowTells, Behind, Placed
<1>2. /\ s.pc = "read" /\ Rest /\ store' = store /\ pending' = pending
      /\ t.pc = "idle" /\ t.snap = (IF plan.decision = "Snapshot" THEN plan.since ELSE None)
      /\ t.replay = ReadRows(journal, CollModel[c], plan.since)
      /\ t.guard \in Nat /\ t.guard >= plan.guard /\ (\A r \in t.replay : r.id <= t.guard)
      /\ t.guard = plan.guard \/ \E r \in t.replay : t.guard = r.id
      /\ t.gen = s.gen /\ t.queue = s.queue /\ t.sig = s.sig /\ t.listing = s.listing
    BY SMTT(40), ReadJournalStep
<1>3. /\ s.gen = generation /\ s.mark = Current(c) /\ s.cursor <= journal.cursor
      /\ journal.floor[CollModel[c]] <= OrZero(s.cursor) /\ s.floor = journal.floor[CollModel[c]]
      /\ \A k \in Queued(c) :
            /\ s.queue[k].gen = generation /\ s.queue[k].kind = "Event"
            /\ \E x \in journal.log : x.id = s.queue[k].row.id /\ x.e = s.queue[k].row.e
    BY <1>2 DEF CoverageInv, Mounts, MountTells, Mounting
<1>4. /\ s.mark \in Nat \cup {None} /\ s.cursor \in Nat \cup {None} /\ s.floor \in Nat \cup {None}
      /\ journal.resync \in Nat \cup {None} /\ None = -1 /\ generation \in Nat /\ s.queue \in Seq(Item)
      /\ \A k \in Queued(c) : s.queue[k].row.id \in Nat /\ s.queue[k].row \in Row
    BY SubscriberTypes, BaseTypes DEF Queued
<1>5. /\ plan.since \in Nat /\ plan.guard \in Nat /\ s.mark <= plan.guard /\ plan.since <= plan.guard
      /\ s.mark <= plan.since
      /\ plan.decision # "Snapshot" =>
            s.mark # None /\ plan.since = s.mark /\ (s.mark >= OrZero(s.cursor) \/ s.floor <= s.mark)
    <2> PICK mark \in Nat \cup {None}, cursor \in Nat \cup {None}, floor \in Nat \cup {None},
             resync \in Nat \cup {None} :
             mark = s.mark /\ cursor = s.cursor /\ floor = s.floor /\ resync = journal.resync
        BY <1>4
    <2>1. /\ plan = PlanMount(mark, cursor, floor, resync)
          /\ mark \in Nat \cup {None} /\ cursor \in Nat \cup {None} /\ floor \in Nat \cup {None}
          /\ resync \in Nat \cup {None}
        OBVIOUS
    <2>2. /\ plan.since \in Nat /\ plan.guard \in Nat /\ mark <= plan.guard /\ plan.since <= plan.guard
          /\ mark <= plan.since
          /\ plan.decision # "Snapshot" =>
                mark # None /\ plan.since = mark /\ (mark >= OrZero(cursor) \/ floor <= mark)
        <3> DEFINE point == SnapshotPoint(cursor, resync)
        <3>11. None = -1
            BY DEF None
        <3>12. OrZero(cursor) \in Nat /\ point \in Nat /\ OrZero(cursor) <= point /\ resync <= point
            BY <3>11 DEF OrZero, ZeroSyncId, SnapshotPoint, MaxSyncId
        <3>13. CASE plan.decision = "Snapshot"
            <4>1. Decision(mark, cursor, floor, resync) = "Snapshot" /\ plan.since = point /\ plan.guard = point
                BY <3>13 DEF PlanMount
            <4>2. mark = None \/ resync > mark \/ mark < OrZero(cursor)
                BY <3>11, <3>12, <4>1 DEF Decision, Untrusted
            <4> QED
                BY <3>11, <3>12, <3>13, <4>1, <4>2
        <3>14. CASE plan.decision # "Snapshot"
            <4>1. /\ Decision(mark, cursor, floor, resync) # "Snapshot"
                  /\ plan.since = mark /\ plan.guard = MaxSyncId(point, mark)
                BY <3>14 DEF PlanMount
            <4>2. mark # None /\ (mark >= OrZero(cursor) \/ floor <= mark)
                BY <3>11, <3>12, <4>1 DEF Decision, Untrusted
            <4> QED
                BY <3>11, <3>12, <4>1, <4>2 DEF MaxSyncId
        <3> QED
            BY <3>13, <3>14
    <2> QED
        BY <2>2
<1>6. Backed(plan.guard) /\ (plan.decision = "Snapshot" => plan.since <= Here)
    BY <1>2, PlanBacked
<1>7. /\ log' = log /\ journal' = journal /\ ingest' = ingest /\ generation' = generation /\ Here' = Here
      /\ Current(c)' = Current(c) /\ Queued(c)' = Queued(c) /\ Mine(c)' = Mine(c)
    BY <1>2 DEF Rest, Here, Current, Queued, Mine
\* the slice: the journal's rows of c's model above since
<1>8. /\ t.replay \subseteq journal.log
      /\ \A x \in journal.log : x \in t.replay <=> x.e \in Mine(c) /\ x.id > plan.since
    BY SMTT(40), <1>1, <1>2 DEF ReadRows, RowModel, Mine
<1>9. Controls(c)' = {}
    BY <1>2, <1>3, <1>7 DEF Controls
<1>10. Live(c)' = {}
    <2>1. SUFFICES ASSUME NEW k \in Live(c)' PROVE FALSE
        BY SMTT(40)
    <2>2. k \in Queued(c) /\ t.guard < s.queue[k].row.id /\ s.queue[k].kind = "Event"
        BY <1>2, <1>3, <1>7, <1>9, <2>1 DEF Live
    <2>3. PICK x \in journal.log : x.id = s.queue[k].row.id /\ x.e = s.queue[k].row.e
        BY <1>3, <2>2
    <2>4. x.e \in Mine(c)
        BY <2>2, <2>3 DEF CoverageInv, OtherModels, Queued
    <2>5. x.id > plan.since
        BY <1>1, <1>2, <1>5, <2>2, <2>3
    <2>6. x \in t.replay
        BY SMTT(40), <1>8, <2>4, <2>5
    <2> QED
        BY <1>1, <1>2, <2>2, <2>3, <2>6
<1>11. H = t.replay /\ (U <=> plan.decision = "Snapshot") /\ T = store[c]
    <2>1. ~Landing(c)' /\ ~Listing(c)'
        BY <1>2 DEF Landing, Listing
    <2>2. {t.queue[k].row : k \in Live(c)'} = {}
        BY <1>10
    <2>3. H = t.replay
        BY <1>9, <2>1, <2>2 DEF Handed
    <2>4. U <=> t.snap # None
        BY <1>2, <1>9 DEF Unlisted
    <2> QED
        BY <1>2, <1>4, <1>5, <2>1, <2>3, <2>4 DEF Table
<1>12. \A x \in t.replay : Backed(x.id)
    BY <1>1, <1>8 DEF Backed
<1>13. InStep(c)'
    <2>1. Backed(sub[c].guard)'
        <3>1. Backed(t.guard)
            BY SMTT(40), <1>2, <1>6, <1>12
        <3> QED
            BY <1>7, <3>1 DEF Backed
    <2>2. t.snap <= t.guard /\ Current(c)' <= t.guard
        BY SMTT(40), <1>2, <1>3, <1>4, <1>5, <1>7
    <2>3. \A r \in t.replay : r.id <= t.guard /\ r.id > t.snap
        BY SMTT(40), <1>1, <1>2, <1>4, <1>5, <1>8
    <2>4. \A k \in Queued(c)' : t.queue[k].gen = generation' /\ t.queue[k].kind = "Event"
        BY SMTT(40), <1>2, <1>3, <1>7
    <2>5. t.pc = "idle" /\ t.gen = generation'
        BY <1>2, <1>3, <1>7
    <2> QED
        BY <2>1, <2>2, <2>3, <2>4, <2>5 DEF InStep
<1>14. ASSUME NEW k \in Queued(c)', sub'[c].queue[k].gen = generation' PROVE Backed(sub[c].queue[k].row.id)'
    <2>1. \E x \in journal.log : x.id >= t.queue[k].row.id
        BY <1>1, <1>2, <1>3, <1>7, <1>14
    <2> QED
        BY SMTT(40), <1>7, <2>1 DEF Backed
<1>15. OneRowEach(Handed(c))'
    BY <1>1, <1>8, <1>11 DEF OneRowEach
<1>16. \A r \in Handed(c)' : /\ RowTells(r)' /\ r.e \in Mine(c)' /\ r.id > Current(c)' /\ Kept(c, r)'
                             /\ r.id > Here' => \E x \in journal'.log : x.id = r.id
    <2>1. SUFFICES ASSUME NEW r \in t.replay
                   PROVE  RowTells(r)' /\ r.e \in Mine(c)' /\ r.id > Current(c)' /\ Kept(c, r)' /\ r \in journal'.log
        BY <1>11
    <2>2. r \in journal.log /\ r.e \in Mine(c) /\ r.id > plan.since /\ RowTells(r) /\ r.id \in Nat
        BY <1>1, <1>8
    <2>3. r.id > Current(c)
        BY <1>3, <1>4, <1>5, <2>2
    <2>4. RowTells(r)' /\ Kept(c, r)'
        BY <1>7, <2>2, SameLog DEF Kept
    <2> QED
        BY <1>7, <2>2, <2>3, <2>4
\* no row of e is missing between the table and the slice
<1>17. ASSUME NEW e \in Mine(c), \A r \in t.replay : r.e # e, plan.decision # "Snapshot"
       PROVE  /\ Shows(c, e, store[c][e], MaxSyncId(s.mark, Here)) /\ s.mark \in Nat /\ Backed(s.mark)
              /\ \A x \in journal.log : x.e = e => x.id <= s.mark
    <2>1. s.mark \in Nat /\ plan.since = s.mark
        BY <1>4, <1>5, <1>17
    <2>2. OrZero(s.cursor) \in Nat
        BY <1>4 DEF OrZero, ZeroSyncId
    <2>3. journal.floor[CollModel[c]] <= s.mark
        BY <1>3, <1>4, <1>5, <1>17, <2>1, <2>2
    <2>4. MarkTells(c)
        BY DEF CoverageInv, MarksTell
    <2>5. Covering(c, store[c], s.mark) /\ Backed(s.mark)
        BY <1>3, <2>4 DEF MarkTells
    <2>6. \A x \in journal.log : x.e = e => ~(x.id > s.mark)
        BY <1>8, <1>17, <2>1
    <2> QED
        BY <1>1, <1>4, <2>1, <2>3, <2>5, <2>6 DEF Covering
\* the newest row of the slice is the newest of the journal
<1>18. ASSUME NEW r \in t.replay, Newest(t.replay, r) PROVE \A y \in journal.log : y.e = r.e => y.id <= r.id
    <2>1. SUFFICES ASSUME NEW y \in journal.log, y.e = r.e, y.id > r.id PROVE FALSE
        BY <1>1, <1>8
    <2>2. y \in t.replay
        BY <1>1, <1>5, <1>8, <2>1
    <2> QED
        BY <1>1, <1>8, <1>18, <2>1, <2>2 DEF Newest
<1>19. ASSUME NEW e \in Mine(c) PROVE Covered(c, e, H, U, T, Here)
    <2>1. ASSUME NEW r \in t.replay, r.e = e, Newest(t.replay, r) PROVE r.id >= Here \/ Quiet(e, r.id, Here)
        <3>1. r \in journal.log /\ r.id \in Nat /\ ~\E y \in journal.log : y.e = r.e /\ y.id > r.id
            BY <1>1, <1>8, <1>18, <2>1
        <3> QED
            BY <1>1, <2>1, <3>1 DEF Truths, JournalTells
    <2>2. ASSUME \A r \in t.replay : r.e # e, plan.decision # "Snapshot" PROVE Shows(c, e, store[c][e], Here)
        <3>1. Shows(c, e, store[c][e], MaxSyncId(s.mark, Here)) /\ s.mark \in Nat
            BY <1>17, <2>2
        <3>2. PICK m \in Nat : m = MaxSyncId(s.mark, Here)
            BY <1>1, <3>1 DEF MaxSyncId
        <3>3. m >= Here
            BY <1>1, <3>1, <3>2 DEF MaxSyncId
        <3>4. PICK i \in m .. Len(log) : store[c][e] = RowAt(c, e, i) /\ (store[c][e] = Absent \/ Safe(e, Here, i))
            BY <3>1, <3>2 DEF Shows
        <3>5. i \in Here .. Len(log)
            BY <1>1, <3>3, <3>4
        <3> QED
            BY <3>4, <3>5 DEF Shows
    <2> QED
        BY <1>11, <2>1, <2>2 DEF Covered
<1>20. ASSUME NEW x \in journal.log, x.id > Here, x.e \in Mine(c),
              ~\E y \in journal.log : y.e = x.e /\ y.id > x.id
       PROVE  Covered(c, x.e, H, U, T, x.id)
    <2>1. x.id \in Nat /\ Placed(x) /\ x.e \in Entities /\ \A y \in journal.log : y.e = x.e => y.id <= x.id
        BY <1>1, <1>20
    <2>2. ASSUME NEW r \in t.replay, r.e = x.e, Newest(t.replay, r) PROVE r.id >= x.id
        BY <1>18, <1>20, <2>2
    <2>3. ASSUME \A r \in t.replay : r.e # x.e, plan.decision # "Snapshot" PROVE Shows(c, x.e, store[c][x.e], x.id)
        <3>1. /\ Shows(c, x.e, store[c][x.e], MaxSyncId(s.mark, Here)) /\ s.mark \in Nat /\ Backed(s.mark)
              /\ x.id <= s.mark
            BY <1>17, <1>20, <2>3
        <3>2. MaxSyncId(s.mark, Here) = s.mark
            BY <1>1, <1>20, <2>1, <3>1 DEF MaxSyncId
        <3>3. PICK z \in journal.log : z.id >= s.mark
            BY <1>1, <1>20, <2>1, <3>1 DEF Backed
        <3>4. Told(z.id)
            BY <1>1, <1>20, <2>1, <3>1, <3>3 DEF Truths, JournalTells
        <3>5. PICK h \in z.id .. Len(log) : Accounted(journal.log, h)
            BY <3>4 DEF Told
        <3>6. x.id \in Here + 1 .. h /\ h \in Here .. Len(log)
            BY <1>1, <1>20, <2>1, <3>1, <3>3, <3>5
        <3>7. Untouched(x.e, x.id, h) \/ GoneAt(x.e, Here)
            BY <1>1, <2>1, <3>5, <3>6, AccountedAt
        <3>8. /\ x.id \in Here .. Len(log) /\ s.mark \in x.id .. Len(log)
              /\ Untouched(x.e, x.id, h) => Untouched(x.e, x.id, s.mark)
            <4>1. x.id \in Here .. Len(log) /\ s.mark \in x.id .. Len(log) /\ s.mark <= h
                BY <1>1, <2>1, <3>1, <3>3, <3>5, <3>6
            <4>2. \A i \in x.id + 1 .. s.mark : i \in x.id + 1 .. h
                BY <1>1, <2>1, <3>1, <3>6, <4>1
            <4> QED
                BY <4>1, <4>2 DEF Untouched
        <3> QED
            BY <1>1, <3>1, <3>2, <3>7, <3>8, ShowsBack
    <2> QED
        BY <1>11, <2>2, <2>3 DEF Covered
<1>21. ASSUME ingest.pc = "publish", NEW e \in Mine(c) PROVE Covered(c, e, H, U, T, ingest.work.last)
    <2> PICK h : h = ingest.work.last
        OBVIOUS
    <2>1. ASSUME NEW r \in t.replay, r.e = e, Newest(t.replay, r) PROVE Quiet(e, r.id, h)
        <3>1. r \in journal.log /\ r.id \in Nat /\ ~\E y \in journal.log : y.e = r.e /\ y.id > r.id
            BY <1>1, <1>8, <1>18, <2>1
        <3> QED
            BY <1>1, <1>21, <2>1, <3>1, NewestQuiet
    <2>2. ASSUME \A r \in t.replay : r.e # e, plan.decision # "Snapshot" PROVE Shows(c, e, store[c][e], h)
        <3>1. /\ Shows(c, e, store[c][e], MaxSyncId(s.mark, Here)) /\ s.mark \in Nat /\ Backed(s.mark)
              /\ \A x \in journal.log : x.e = e => x.id <= s.mark
            BY <1>17, <2>2
        <3>2. ~\E r \in journal.log : r.e = e /\ r.id > s.mark
            BY <1>1, <3>1
        <3>3. e \in Entities
            BY DEF Mine
        <3> QED
            BY <1>1, <1>21, <3>1, <3>2, <3>3, ShownOnward
    <2> QED
        BY <1>11, <2>1, <2>2 DEF Covered
<1>22. \A e, m : Covered(c, e, H, U, T, m)' = Covered(c, e, H, U, T, m)
    BY <1>7, SameCursor
<1>23. \A e, m : Covers(c, e, m)' = Covered(c, e, H, U, T, m)'
    BY DEF Covers
<1>24. \A e \in Mine(c)' : Covers(c, e, Here)'
    <2>1. PICK m : m = Here
        OBVIOUS
    <2>2. \A e \in Mine(c) : Covered(c, e, H, U, T, m)'
        BY <1>19, <1>22, <2>1
    <2> QED
        BY <1>7, <1>23, <2>1, <2>2
<1>25. ASSUME NEW x \in journal'.log, x.id > Here', x.e \in Mine(c)', Reached(c, x.id)'
       PROVE  Covers(c, x.e, x.id)' \/ \E y \in journal'.log : y.e = x.e /\ y.id > x.id
    BY <1>7, <1>20, <1>22, <1>23, <1>25
<1>26. ingest'.pc = "publish" =>
          \A e \in Mine(c)' : Covers(c, e, ingest.work.last)' \/ \E q \in ingest'.work.rows : q.e = e
    <2> PICK h : h = ingest.work.last
        OBVIOUS
    <2>1. ingest'.work.last = h
        BY <1>7
    <2> QED
        BY <1>7, <1>21, <1>22, <1>23, <2>1
<1>27. InStep(c)' \/ \E j \in Queued(c)' : CalledAt(c, j)'
    BY <1>13
<1> QED
    BY ONLY <1>14, <1>15, <1>16, <1>24, <1>25, <1>26, <1>27 DEF InTune

-----------------------------------------------------------------------------
(* The steps of a drain *)

\* A collection that waits for a recovery goes on waiting while it drops what is older.
LEMMA StillCalled ==
    ASSUME Base, CoverageInv, OnLog, NEW c \in Collections, Rest, InTune(c), NEW j \in Queued(c), CalledAt(c, j),
           sub'[c].queue = sub[c].queue, sub'[c].guard = sub[c].guard, Current(c)' = Current(c),
           sub'[c].pc # "idle" => sub'[c].sig.gen < generation,
           sub'[c].snap # None \/ sub'[c].replay # {} => sub'[c].gen < generation
    PROVE  InTune(c)'
<1> DEFINE s == sub[c]
           t == sub'[c]
<1> PICK H, U, T : H = Handed(c)' /\ U = Unlisted(c)' /\ T = Table(c)'
    OBVIOUS
<1>1. /\ generation' = generation /\ Here' = Here /\ journal' = journal /\ log' = log
      /\ Queued(c)' = Queued(c) /\ Controls(c)' = Controls(c) /\ j \in Controls(c)
    BY DEF Rest, Here, Queued, Controls, CalledAt
<1>2. Live(c)' = Live(c) /\ Handed(c)' = Handed(c) /\ Unlisted(c)' /\ Unlisted(c)
    <2>1. Live(c)' = Live(c)
        BY <1>1 DEF Live
    <2> QED
        BY <1>1, <2>1 DEF Handed, Unlisted
<1>3. CalledAt(c, j)'
    <2>1. GuardBy(c, j, s.queue[j].row.id)' <=> GuardBy(c, j, s.queue[j].row.id)
        BY DEF GuardBy
    <2> QED
        BY <1>1, <2>1 DEF CalledAt
<1>4. \A x \in journal.log : Reached(c, x.id)' => Reached(c, x.id)
    BY <1>1 DEF Reached
<1>5. H \subseteq Handed(c) /\ \A r \in H : r.id > Current(c)'
    BY <1>2 DEF InTune
<1>6. \A e, m : Covers(c, e, m) => Covered(c, e, H, U, T, m)
    BY <1>2 DEF Covers, Covered
<1>7. \A k \in Queued(c)' : sub'[c].queue[k].gen = generation =>
          \E i \in Queued(c) : sub[c].queue[i].gen = generation /\ sub'[c].queue[k].row = sub[c].queue[i].row
    BY <1>1
<1>8. InStep(c)' \/ \E i \in Queued(c)' : CalledAt(c, i)'
    BY <1>1, <1>3
<1> QED
    BY <1>4, <1>5, <1>6, <1>7, <1>8, DrainInTune

\* What is handed to a collection in step, before and after a step that leaves its tail alone.
LEMMA SameTail ==
    ASSUME Base, NEW c \in Collections, Rest, InStep(c), sub'[c].queue = sub[c].queue, sub'[c].guard = sub[c].guard
    PROVE  /\ Queued(c)' = Queued(c) /\ Controls(c)' = {} /\ Controls(c) = {}
           /\ \A i : Reached(c, i)' = Reached(c, i)
           /\ \E tail : /\ \A r \in tail : r.id > sub[c].guard
                        /\ Handed(c) = tail \cup sub[c].replay \cup (IF Landing(c) THEN {sub[c].sig.row} ELSE {})
                        /\ Handed(c)' = tail \cup sub'[c].replay \cup (IF Landing(c)' THEN {sub'[c].sig.row} ELSE {})
<1> PICK tail : tail = {sub[c].queue[k].row : k \in Live(c)}
    OBVIOUS
<1>1. generation' = generation /\ Queued(c)' = Queued(c)
    BY DEF Rest, Queued
<1>2. Controls(c) = {} /\ Controls(c)' = {}
    BY <1>1 DEF InStep, Controls
<1>3. Live(c)' = Live(c)
    BY <1>1, <1>2 DEF Live
<1>4. \A i : Reached(c, i)' = Reached(c, i)
    BY <1>1, <1>2 DEF Reached
<1>5. \A r \in tail : r.id > sub[c].guard
    <2>1. \A k \in Live(c) : sub[c].guard < sub[c].queue[k].row.id /\ k \in Queued(c)
        BY <1>2 DEF Live
    <2>2. \A k \in Queued(c) : sub[c].queue[k].row.id \in Nat
        BY SubscriberTypes DEF Queued
    <2> QED
        BY <2>1, <2>2, SubscriberTypes
<1>6. Handed(c) = tail \cup sub[c].replay \cup (IF Landing(c) THEN {sub[c].sig.row} ELSE {})
    BY <1>2 DEF Handed
<1>7. tail = {sub'[c].queue[k].row : k \in Live(c)'}
    BY <1>3
<1>8. Handed(c)' = tail \cup sub'[c].replay \cup (IF Landing(c)' THEN {sub'[c].sig.row} ELSE {})
    BY <1>2, <1>7 DEF Handed
<1> QED
    BY <1>1, <1>2, <1>4, <1>5, <1>6, <1>8

\* A collection stays in step as its drain works through the slice.
LEMMA StaysInStep ==
    ASSUME Base, NEW c \in Collections, Rest, InStep(c), sub'[c].queue = sub[c].queue, sub'[c].guard = sub[c].guard,
           sub'[c].gen = sub[c].gen, sub'[c].snap = None, sub'[c].replay \subseteq sub[c].replay,
           Current(c)' <= sub[c].guard,
           sub'[c].pc # "idle" => /\ sub'[c].sig.gen = generation /\ sub'[c].sig.row.id <= sub[c].guard
                                  /\ \A r \in sub'[c].replay : r.id > sub'[c].sig.row.id
    PROVE  InStep(c)'
<1> DEFINE s == sub[c]
           t == sub'[c]
<1>1. generation' = generation /\ Queued(c)' = Queued(c) /\ \A i : Backed(i)' = Backed(i)
    BY DEF Rest, Queued, Backed, Here
<1>2. Backed(sub[c].guard)'
    BY <1>1 DEF InStep
<1>3. /\ s.guard \in Nat /\ None = -1 /\ \A r \in s.replay : r.id \in Nat /\ r.id <= s.guard
      /\ s.snap # None \/ s.replay # {} => s.gen = generation
      /\ \A k \in Queued(c) : s.queue[k].gen = generation /\ s.queue[k].kind = "Event"
    BY SubscriberTypes DEF InStep
<1>4. t.snap <= t.guard /\ \A r \in t.replay : r.id <= t.guard /\ r.id > t.snap
    BY <1>3
<1>5. t.snap # None \/ t.replay # {} => t.gen = generation'
    BY <1>1, <1>3
<1>6. \A k \in Queued(c)' : t.queue[k].gen = generation' /\ t.queue[k].kind = "Event"
    BY <1>1, <1>3
<1>7. Current(c)' <= t.guard
    OBVIOUS
<1>8. t.pc # "idle" => /\ t.sig.gen = generation' /\ t.sig.row.id <= t.guard /\ t.snap = None
                       /\ \A r \in t.replay : r.id > t.sig.row.id
    BY <1>1
<1> QED
    BY <1>2, <1>4, <1>5, <1>6, <1>7, <1>8 DEF InStep

\* A step in step that leaves the tail alone stays in tune if the slice, what is being
\* landed and the table together say as much as before.
LEMMA StepInTune ==
    ASSUME Base, CoverageInv, OnLog, NEW c \in Collections, Rest, InTune(c), InStep(c), InStep(c)',
           sub'[c].queue = sub[c].queue, sub'[c].guard = sub[c].guard,
           NEW H, NEW U, NEW T, Handed(c)' = H, Unlisted(c)' = U, Table(c)' = T,
           H \subseteq Handed(c), \A r \in H : r.id > Current(c)',
           \A e \in Mine(c), m \in Here .. Len(log) :
               Covers(c, e, Here) /\ Covers(c, e, m) =>
                   \/ Covered(c, e, H, U, T, m)
                   \/ m > Here /\ \E r \in Handed(c) : r.e = e /\ r.id > m
    PROVE  InTune(c)'
<1>1. Queued(c)' = Queued(c) /\ \A i : Reached(c, i)' = Reached(c, i)
    BY SameTail
<1>2. \A x \in journal.log : Reached(c, x.id)' => Reached(c, x.id)
    BY <1>1
<1>3. \A k \in Queued(c)' : sub'[c].queue[k].gen = generation =>
          \E i \in Queued(c) : sub[c].queue[i].gen = generation /\ sub'[c].queue[k].row = sub[c].queue[i].row
    BY <1>1
<1>4. InStep(c)' \/ \E i \in Queued(c)' : CalledAt(c, i)'
    OBVIOUS
<1> QED
    BY <1>2, <1>3, <1>4, DrainInTune

\* Taking the mount's Snapshot, or the oldest row of its slice.
LEMMA InTuneReplay ==
    ASSUME Base, CoverageInv, OnLog, NEW c \in Collections, InTune(c), TakeReplay(c)
    PROVE  InTune(c)'
<1> DEFINE s == sub[c]
           t == sub'[c]
<1> PICK H, U, T : H = Handed(c)' /\ U = Unlisted(c)' /\ T = Table(c)'
    OBVIOUS
<1>1. /\ s.pc = "idle" /\ Rest /\ store' = store /\ pending' = pending
      /\ t.queue = s.queue /\ t.guard = s.guard /\ t.gen = s.gen /\ t.listing = s.listing /\ t.snap = None
      /\ \/ /\ s.snap # None /\ t.replay = s.replay
            /\ s.gen = generation => t.pc = "list" /\ t.sig.kind = "Mount" /\ t.sig.gen = generation
                                     /\ t.sig.row.id = s.snap
            /\ s.gen # generation => t.pc = "idle" /\ t.sig = s.sig
         \/ \E r \in s.replay :
               /\ s.snap = None /\ t.replay = s.replay \ {r} /\ \A x \in s.replay : r.id <= x.id
               /\ s.gen = generation => t.pc = "land" /\ t.sig.kind = "Event" /\ t.sig.gen = generation
                                        /\ t.sig.row = r
               /\ s.gen # generation => t.pc = "idle" /\ t.sig = s.sig
    BY TakeReplayStep
<1>2. Current(c)' = Current(c) /\ ~Landing(c) /\ ~Listing(c) /\ (s.snap # None \/ s.replay # {})
    BY <1>1 DEF Rest, Current, Landing, Listing
<1>3. CASE s.gen = generation
    <2>1. InStep(c)
        BY <1>1, <1>2, <1>3, StepByPlan
    <2>2. /\ Controls(c)' = {} /\ Controls(c) = {} /\ \A i : Reached(c, i)' = Reached(c, i)
        BY <1>1, <2>1, SameTail
    <2>3. PICK tail : /\ Handed(c) = tail \cup s.replay
                      /\ H = tail \cup t.replay \cup (IF Landing(c)' THEN {t.sig.row} ELSE {})
        <3>1. \E tail : /\ Handed(c) = tail \cup s.replay \cup (IF Landing(c) THEN {s.sig.row} ELSE {})
                        /\ H = tail \cup t.replay \cup (IF Landing(c)' THEN {t.sig.row} ELSE {})
            BY <1>1, <2>1, SameTail
        <3> QED
            BY <1>2, <3>1
    <2>4. /\ Current(c) <= s.guard /\ s.snap <= s.guard /\ \A r \in s.replay : r.id <= s.guard /\ r.id > s.snap
          /\ \A r \in s.replay : r.id \in Nat
        BY <2>1, SubscriberTypes DEF InStep
    <2>5. \A x, y \in s.replay : x.id = y.id => x = y
        BY <2>3 DEF InTune, OneRowEach
    <2>6. CASE s.snap # None
        <3>1. t.pc = "list" /\ t.sig.gen = generation /\ t.sig.row.id = s.snap /\ t.replay = s.replay
            BY <1>1, <1>3, <2>6
        <3>2. InStep(c)'
            BY <1>1, <1>2, <2>1, <2>4, <3>1, StaysInStep
        <3>3. H = Handed(c) /\ U /\ Unlisted(c)
            <4>1. ~Landing(c)'
                BY <3>1 DEF Landing
            <4> QED
                BY <2>3, <2>6, <3>1, <4>1 DEF Unlisted
        <3>4. H \subseteq Handed(c) /\ \A r \in H : r.id > Current(c)'
            BY <1>2, <3>3 DEF InTune
        <3>5. \A e, m : Covers(c, e, m) => Covered(c, e, H, U, T, m)
            BY <3>3 DEF Covers, Covered
        <3> QED
            BY <1>1, <2>1, <3>2, <3>4, <3>5, StepInTune
    <2>7. CASE s.snap = None
        <3> PICK r \in s.replay : /\ t.replay = s.replay \ {r} /\ \A x \in s.replay : r.id <= x.id
                                  /\ t.pc = "land" /\ t.sig.kind = "Event" /\ t.sig.gen = generation /\ t.sig.row = r
            BY <1>1, <1>3, <2>7
        <3>1. \A x \in t.replay : x.id > r.id
            BY <2>4, <2>5
        <3>2. InStep(c)'
            BY <1>1, <1>2, <2>1, <2>4, <3>1, StaysInStep
        <3>3. H = Handed(c)
            <4>1. Landing(c)'
                BY DEF Landing
            <4> QED
                BY <2>3, <4>1
        <3>4. U = Unlisted(c)
            BY <1>1, <2>2, <2>7 DEF Unlisted
        <3>5. T = Table(c)
            <4>1. ~Listing(c)'
                BY DEF Listing
            <4> QED
                BY <1>1, <1>2, <4>1 DEF Table
        <3>6. H \subseteq Handed(c) /\ \A x \in H : x.id > Current(c)'
            BY <1>2, <3>3 DEF InTune
        <3>7. \A e, m : Covers(c, e, m) => Covered(c, e, H, U, T, m)
            BY <3>3, <3>4, <3>5 DEF Covers
        <3> QED
            BY <1>1, <2>1, <3>2, <3>6, <3>7, StepInTune
    <2> QED
        BY <2>6, <2>7
<1>4. CASE s.gen # generation
    <2>1. ~InStep(c)
        BY <1>2, <1>4 DEF InStep
    <2>2. PICK j \in Queued(c) : CalledAt(c, j)
        BY SMTT(40), <2>1 DEF InTune
    <2>3. t.pc = "idle" /\ s.gen < generation
        BY <1>1, <1>2, <1>4, <2>2 DEF CalledAt
    <2> QED
        BY <1>1, <1>2, <2>2, <2>3, StillCalled
<1> QED
    BY <1>3, <1>4

\* A listing read from the server is the truth of the head of the log.
LEMMA InTuneList ==
    ASSUME Base, CoverageInv, OnLog, NEW c \in Collections, InTune(c), ListServer(c)
    PROVE  InTune(c)'
<1> DEFINE s == sub[c]
           t == sub'[c]
<1> PICK H, U, T : H = Handed(c)' /\ U = Unlisted(c)' /\ T = Table(c)'
    OBVIOUS
<1>1. /\ s.pc = "list" /\ Rest /\ store' = store /\ pending' = pending
      /\ t.pc = "land" /\ t.listing = Truth(c)
      /\ t.sig = s.sig /\ t.gen = s.gen /\ t.snap = s.snap /\ t.replay = s.replay
      /\ t.queue = s.queue /\ t.guard = s.guard
    BY ListStep
<1>2. /\ Current(c)' = Current(c) /\ s.sig.kind # "Event" /\ ~Landing(c) /\ ~Landing(c)' /\ ~Listing(c) /\ Listing(c)'
    BY <1>1 DEF Rest, Current, Landing, Listing, CoverageInv, Lists
<1>3. CASE InStep(c)
    <2>1. s.snap = None /\ s.sig.gen = generation /\ s.sig.row.id <= s.guard /\ Current(c) <= s.guard
          /\ \A r \in s.replay : r.id > s.sig.row.id
        BY <1>1, <1>3 DEF InStep
    <2>2. InStep(c)'
        BY <1>1, <1>2, <1>3, <2>1, StaysInStep
    <2>3. Controls(c)' = {} /\ H = Handed(c)
        <3>1. /\ Controls(c)' = {}
              /\ \E tail : /\ Handed(c) = tail \cup s.replay \cup (IF Landing(c) THEN {s.sig.row} ELSE {})
                           /\ H = tail \cup t.replay \cup (IF Landing(c)' THEN {t.sig.row} ELSE {})
            BY <1>1, <1>3, SameTail
        <3> QED
            BY <1>1, <1>2, <3>1
    <2>4. ~U /\ T = Truth(c)
        BY <1>1, <1>2, <2>1, <2>3 DEF Unlisted, Table
    <2>5. ASSUME NEW e \in Mine(c), NEW m \in Here .. Len(log), Covers(c, e, m)
          PROVE  Covered(c, e, H, U, T, m)
        <3>1. Len(log) \in m .. Len(log) /\ e \in Entities
            BY BaseLog DEF Mine, CoverageInv
        <3>2. T[e] = RowAt(c, e, Len(log))
            BY <2>4, <3>1 DEF Truth
        <3>3. Safe(e, Here, Len(log)) /\ Safe(e, m, Len(log))
            BY BaseLog DEF Safe, CoverageInv
        <3>4. Shows(c, e, T[e], m)
            BY <3>1, <3>2, <3>3 DEF Shows
        <3> QED
            BY <2>3, <2>5, <3>4 DEF Covers, Covered
    <2>6. H \subseteq Handed(c) /\ \A x \in H : x.id > Current(c)'
        BY <1>2, <2>3 DEF InTune
    <2> QED
        BY <1>1, <1>3, <2>2, <2>5, <2>6, StepInTune
<1>4. CASE ~InStep(c)
    <2>1. PICK j \in Queued(c) : CalledAt(c, j)
        BY <1>4 DEF InTune
    <2>2. s.sig.gen < generation /\ (s.snap # None \/ s.replay # {} => s.gen < generation)
        BY <1>1, <2>1 DEF CalledAt
    <2> QED
        BY <1>1, <1>2, <2>1, <2>2, StillCalled
<1> QED
    BY <1>3, <1>4

\* Landing a row, or a listing, leaves the table as current as what was to be landed.
LEMMA InTuneLand ==
    ASSUME Base, CoverageInv, OnLog, NEW c \in Collections, InTune(c), Land(c)
    PROVE  InTune(c)'
<1> DEFINE s == sub[c]
           t == sub'[c]
<1> PICK H, U, T : H = Handed(c)' /\ U = Unlisted(c)' /\ T = Table(c)'
    OBVIOUS
<1>1. /\ s.pc = "land" /\ Rest /\ pending' = pending
      /\ s.sig.kind # "Event" => store'[c] = s.listing
      /\ s.sig.kind = "Event" => \A e \in Entities :
           store'[c][e] = IF e = s.sig.row.e THEN LandedRow(c, s.sig.row) ELSE store[c][e]
      /\ t.pc = "ack" /\ t.sig = s.sig /\ t.gen = s.gen /\ t.snap = s.snap /\ t.replay = s.replay
      /\ t.queue = s.queue /\ t.guard = s.guard
    BY LandStep
<1>2. Current(c)' = Current(c) /\ ~Landing(c)' /\ ~Listing(c)' /\ T = store'[c]
    BY <1>1 DEF Rest, Current, Landing, Listing, Table
<1>3. CASE InStep(c)
    <2>1. /\ s.snap = None /\ s.sig.gen = generation /\ s.sig.row.id <= s.guard /\ Current(c) <= s.guard
          /\ \A r \in s.replay : r.id > s.sig.row.id
        BY <1>1, <1>3 DEF InStep
    <2>2. InStep(c)'
        BY <1>1, <1>2, <1>3, <2>1, StaysInStep
    <2>3. Controls(c)' = {} /\ Controls(c) = {}
        BY <1>1, <1>3, SameTail
    <2>4. PICK tail : /\ \A r \in tail : r.id > s.guard
                      /\ Handed(c) = tail \cup s.replay \cup (IF Landing(c) THEN {s.sig.row} ELSE {})
                      /\ H = tail \cup s.replay
        <3>1. \E tail : /\ \A r \in tail : r.id > s.guard
                        /\ Handed(c) = tail \cup s.replay \cup (IF Landing(c) THEN {s.sig.row} ELSE {})
                        /\ H = tail \cup t.replay \cup (IF Landing(c)' THEN {t.sig.row} ELSE {})
            BY <1>1, <1>3, SameTail
        <3> QED
            BY <1>1, <1>2, <3>1
    <2>5. ~U /\ ~Unlisted(c)
        BY <1>1, <2>1, <2>3 DEF Unlisted
    <2>6. H \subseteq Handed(c) /\ \A x \in H : x.id > Current(c)'
        BY <1>2, <2>4 DEF InTune
    <2>7. CASE s.sig.kind # "Event"
        <3>1. H = Handed(c) /\ T = Table(c)
            BY <1>1, <1>2, <2>4, <2>7 DEF Landing, Listing, Table
        <3>2. \A e, m : Covers(c, e, m) => Covered(c, e, H, U, T, m)
            BY <2>5, <3>1 DEF Covers, Covered
        <3> QED
            BY <1>1, <1>3, <2>2, <2>6, <3>2, StepInTune
    <2>8. CASE s.sig.kind = "Event"
        <3> DEFINE row == s.sig.row
        <3>1. /\ Landing(c) /\ Handed(c) = H \cup {row} /\ row \in Handed(c) /\ Table(c) = store[c]
            BY <1>1, <2>4, <2>8 DEF Landing, Listing, Table
        <3>2. \A r \in H : r.id > row.id
            <4>1. row.id \in Nat /\ s.guard \in Nat /\ \A r \in Handed(c) : r.id \in Nat
                BY SubscriberTypes, HandedFacts
            <4>2. \A r \in H : r.id \in Nat /\ (r.id > s.guard \/ r.id > row.id)
                BY <2>1, <2>4, <4>1, <3>1
            <4> QED
                BY <2>1, <4>1, <4>2
        <3>3. ASSUME NEW e \in Mine(c), NEW m \in Here .. Len(log), Covers(c, e, Here), Covers(c, e, m)
              PROVE  Covered(c, e, H, U, T, m) \/ (m > Here /\ \E r \in Handed(c) : r.e = e /\ r.id > m)
            <4>1. e \in Entities /\ LogOK /\ Here \in Nat /\ m \in Nat /\ Len(log) \in Nat
                BY BaseLog DEF Mine, CoverageInv
            <4>2. CASE e # row.e
                <5>1. T[e] = Table(c)[e]
                    BY <1>1, <1>2, <2>8, <3>1, <4>1, <4>2
                <5>2. \A r : r.e = e => (r \in H <=> r \in Handed(c))
                    BY <3>1, <4>2
                <5>3. \A r : r.e = e => (Newest(H, r) <=> Newest(Handed(c), r))
                    BY <5>2 DEF Newest
                <5> QED
                    BY <2>5, <3>3, <5>1, <5>2, <5>3 DEF Covers, Covered
            <4>3. CASE e = row.e /\ \E r \in H : r.e = e
                <5>1. ASSUME NEW r \in H, r.e = e, Newest(H, r) PROVE Newest(Handed(c), r)
                    <6>1. r.id \in Nat /\ row.id \in Nat /\ r.id > row.id
                        BY <3>1, <3>2, HandedFacts
                    <6> QED
                        BY <3>1, <5>1, <6>1 DEF Newest
                <5>2. \A r \in H : r.e = e /\ Newest(H, r) => r.id >= m \/ Quiet(e, r.id, m)
                    BY <3>1, <3>3, <5>1 DEF Covers, Covered
                <5> QED
                    BY <4>3, <5>2 DEF Covered
            <4>4. CASE e = row.e /\ (\A r \in H : r.e # e) /\ ~(m > Here /\ row.id > m)
                <5>1. Newest(Handed(c), row)
                    <6>1. row.id \in Nat
                        BY SubscriberTypes
                    <6> QED
                        BY <3>1, <4>4, <6>1 DEF Newest
                <5>2. /\ row.id >= Here \/ Quiet(e, row.id, Here)
                      /\ row.id >= m \/ Quiet(e, row.id, m)
                    BY <3>1, <3>3, <4>4, <5>1 DEF Covers, Covered
                <5>3. /\ row \in Row /\ row.id \in Nat /\ RowTells(row)
                      /\ row.id > Here => Safe(row.e, Here, row.id) /\ Plain(Here, row.id)
                    BY <3>1, HandedFacts
                <5>4. row.id <= m \/ m = Here
                    BY <4>1, <4>4, <5>3
                <5>5. Shows(c, row.e, LandedRow(c, row), m)
                    BY <4>1, <4>4, <5>2, <5>3, <5>4, RowShown
                <5>6. T[e] = LandedRow(c, row)
                    BY <1>1, <1>2, <2>8, <4>1, <4>4
                <5> QED
                    BY <4>4, <5>5, <5>6 DEF Covered
            <4>5. CASE e = row.e /\ m > Here /\ row.id > m
                BY <3>1, <4>5
            <4> QED
                BY <4>2, <4>3, <4>4, <4>5
        <3> QED
            BY <1>1, <1>3, <2>2, <2>6, <3>3, StepInTune
    <2> QED
        BY <2>7, <2>8
<1>4. CASE ~InStep(c)
    <2>1. PICK j \in Queued(c) : CalledAt(c, j)
        BY <1>4 DEF InTune
    <2>2. s.sig.gen < generation /\ (s.snap # None \/ s.replay # {} => s.gen < generation)
        BY <1>1, <2>1 DEF CalledAt
    <2> QED
        BY <1>1, <1>2, <2>1, <2>2, StillCalled
<1> QED
    BY <1>3, <1>4

\* An acknowledged signal lies below everything that is left to apply.
LEMMA InTuneAck ==
    ASSUME Base, CoverageInv, OnLog, NEW c \in Collections, InTune(c), Ack(c)
    PROVE  InTune(c)'
<1> DEFINE s == sub[c]
           t == sub'[c]
<1> PICK H, U, T : H = Handed(c)' /\ U = Unlisted(c)' /\ T = Table(c)'
    OBVIOUS
<1>1. /\ s.pc = "ack" /\ Rest /\ store' = store
      /\ s.sig.gen # generation => Current(c)' = Current(c)
      /\ s.sig.gen = generation => Current(c)' = MaxSyncId(Current(c), s.sig.row.id)
      /\ t.pc = "idle"
      /\ t.listing = s.listing /\ t.gen = s.gen /\ t.snap = s.snap /\ t.replay = s.replay
      /\ t.queue = s.queue /\ t.guard = s.guard
    BY AckStep
<1>2. ~Landing(c)' /\ ~Listing(c)' /\ ~Landing(c) /\ ~Listing(c) /\ T = Table(c)
    BY <1>1 DEF Landing, Listing, Table
<1>3. CASE InStep(c)
    <2>1. /\ s.snap = None /\ s.sig.gen = generation /\ s.sig.row.id <= s.guard /\ Current(c) <= s.guard
          /\ \A r \in s.replay : r.id > s.sig.row.id
        BY <1>1, <1>3 DEF InStep
    <2>2. /\ Current(c) \in Nat \cup {None} /\ None = -1 /\ s.sig.row.id \in Nat /\ s.guard \in Nat
          /\ \A r \in Handed(c) : r.id \in Nat
        BY SubscriberTypes, HandedFacts
    <2>3. Current(c)' <= s.guard
        BY <1>1, <2>1, <2>2 DEF MaxSyncId
    <2>4. InStep(c)'
        BY <1>1, <1>3, <2>1, <2>3, StaysInStep
    <2>5. PICK tail : /\ \A r \in tail : r.id > s.guard
                      /\ Handed(c) = tail \cup s.replay
                      /\ H = tail \cup s.replay
        <3>1. \E tail : /\ \A r \in tail : r.id > s.guard
                        /\ Handed(c) = tail \cup s.replay \cup (IF Landing(c) THEN {s.sig.row} ELSE {})
                        /\ H = tail \cup t.replay \cup (IF Landing(c)' THEN {t.sig.row} ELSE {})
            BY <1>1, <1>3, SameTail
        <3> QED
            BY <1>1, <1>2, <3>1
    <2>6. Controls(c)' = {} /\ Controls(c) = {}
        BY <1>1, <1>3, SameTail
    <2>7. ~U /\ ~Unlisted(c)
        BY <1>1, <2>1, <2>6 DEF Unlisted
    <2>8. ASSUME NEW r \in H PROVE r.id > Current(c)'
        <3>1. r.id > Current(c) /\ r.id \in Nat
            BY <2>2, <2>5 DEF InTune
        <3>2. r.id > s.guard \/ r.id > s.sig.row.id
            BY <2>1, <2>5
        <3> QED
            BY <1>1, <2>1, <2>2, <2>3, <3>1, <3>2 DEF MaxSyncId
    <2>9. \A e, m : Covers(c, e, m) => Covered(c, e, H, U, T, m)
        BY <1>2, <2>5, <2>7 DEF Covers, Covered
    <2> QED
        BY <1>1, <1>3, <2>4, <2>5, <2>8, <2>9, StepInTune
<1>4. CASE ~InStep(c)
    <2>1. PICK j \in Queued(c) : CalledAt(c, j)
        BY <1>4 DEF InTune
    <2>2. s.sig.gen < generation /\ (s.snap # None \/ s.replay # {} => s.gen < generation)
        BY <1>1, <2>1 DEF CalledAt
    <2>3. s.sig.gen # generation
        BY <2>2, SubscriberTypes, BaseTypes
    <2> QED
        BY <1>1, <2>1, <2>2, <2>3, StillCalled
<1> QED
    BY <1>3, <1>4

\* What becomes of the tail when its head is taken.
LEMMA ShiftedTail ==
    ASSUME Base, NEW c \in Collections, TakeTail(c)
    PROVE  LET s == sub[c]
               t == sub'[c]
           IN  /\ 1 \in Queued(c)
               /\ \A k \in Queued(c)' : k \in Nat /\ k + 1 \in Queued(c) /\ k + 1 # 1 /\ t.queue[k] = s.queue[k + 1]
               /\ \A k \in Queued(c) : k \in Nat /\ (k # 1 => k - 1 \in Queued(c)' /\ t.queue[k - 1] = s.queue[k])
               /\ \A k \in Queued(c)' :
                    (k + 1 \in Live(c)) <=>
                        /\ s.queue[k + 1].gen = generation /\ s.queue[k + 1].kind = "Event"
                        /\ s.queue[1].gen = generation => s.queue[1].row.id < s.queue[k + 1].row.id
                        /\ \A j \in 1 .. k - 1 : t.queue[j].gen = generation => t.queue[j].row.id < t.queue[k].row.id
                        /\ Controls(c) # {} \/ s.guard < s.queue[k + 1].row.id
<1> DEFINE s == sub[c]
           t == sub'[c]
<1> PICK n : n = Len(s.queue)
    OBVIOUS
<1>1. /\ n \in Nat /\ n > 0 /\ Len(t.queue) = n - 1
      /\ \A k \in 1 .. Len(t.queue) : t.queue[k] = s.queue[k + 1]
    BY TakeTailStep
<1>2. Queued(c) = 1 .. n /\ Queued(c)' = 1 .. n - 1
    BY <1>1 DEF Queued
<1>3. /\ 1 \in 1 .. n
      /\ \A k \in 1 .. n - 1 : k \in Nat /\ k + 1 \in 1 .. n /\ k + 1 # 1 /\ t.queue[k] = s.queue[k + 1]
      /\ \A k \in 1 .. n : k \in Nat /\ (k # 1 => k - 1 \in 1 .. n - 1 /\ k = (k - 1) + 1)
    BY <1>1
<1>4. \A k \in 1 .. n : k # 1 => t.queue[k - 1] = s.queue[k]
    <2>1. SUFFICES ASSUME NEW k \in 1 .. n, k # 1 PROVE t.queue[k - 1] = s.queue[k]
        BY SMTT(40)
    <2>2. PICK i \in 1 .. n - 1 : i = k - 1 /\ k = i + 1
        BY <1>3, <2>1
    <2> QED
        BY <1>3, <2>2
<1>5. ASSUME NEW k \in 1 .. n - 1
      PROVE  (k + 1 \in Live(c)) <=>
                /\ s.queue[k + 1].gen = generation /\ s.queue[k + 1].kind = "Event"
                /\ s.queue[1].gen = generation => s.queue[1].row.id < s.queue[k + 1].row.id
                /\ \A j \in 1 .. k - 1 : t.queue[j].gen = generation => t.queue[j].row.id < t.queue[k].row.id
                /\ Controls(c) # {} \/ s.guard < s.queue[k + 1].row.id
    <2>1. (k + 1) - 1 = k /\ k \in Nat /\ k + 1 \in 1 .. n /\ t.queue[k] = s.queue[k + 1]
        BY SMTT(40), <1>3
    <2> PICK this : this = s.queue[k + 1]
        OBVIOUS
    <2>2. \A j \in 1 .. k - 1 : j \in 1 .. n - 1 /\ j + 1 \in 1 .. k /\ j + 1 # 1
        <3>1. n \in Nat /\ k \in Nat /\ k <= n - 1
            BY <1>1
        <3> QED
            BY ONLY <3>1
    <2>3. \A j \in 1 .. k : j # 1 => j \in 1 .. n /\ j - 1 \in 1 .. k - 1
        BY <1>1, <2>1
    <2>4. 1 \in 1 .. k
        BY <2>1
    <2>5. ASSUME \A j \in 1 .. k : s.queue[j].gen = generation => s.queue[j].row.id < this.row.id
          PROVE  /\ s.queue[1].gen = generation => s.queue[1].row.id < this.row.id
                 /\ \A j \in 1 .. k - 1 : t.queue[j].gen = generation => t.queue[j].row.id < this.row.id
        <3>1. ASSUME NEW j \in 1 .. k - 1, t.queue[j].gen = generation PROVE t.queue[j].row.id < this.row.id
            <4>1. j + 1 \in 1 .. k /\ t.queue[j] = s.queue[j + 1]
                BY <1>3, <2>2, <3>1
            <4> QED
                BY <2>5, <3>1, <4>1
        <3>2. s.queue[1].gen = generation => s.queue[1].row.id < this.row.id
            BY <2>4, <2>5
        <3> QED
            BY <3>1, <3>2
    <2>6. ASSUME s.queue[1].gen = generation => s.queue[1].row.id < this.row.id,
                 \A j \in 1 .. k - 1 : t.queue[j].gen = generation => t.queue[j].row.id < this.row.id,
                 NEW j \in 1 .. k, s.queue[j].gen = generation
          PROVE  s.queue[j].row.id < this.row.id
        <3>1. CASE j = 1
            BY <2>6, <3>1
        <3>2. CASE j # 1
            <4>1. j - 1 \in 1 .. k - 1 /\ t.queue[j - 1] = s.queue[j]
                BY <1>4, <2>3, <3>2
            <4> QED
                BY <2>6, <4>1
        <3> QED
            BY <3>1, <3>2
    <2>7. k + 1 \in Live(c) <=>
            /\ this.gen = generation /\ this.kind = "Event"
            /\ \A j \in 1 .. k : s.queue[j].gen = generation => s.queue[j].row.id < this.row.id
            /\ Controls(c) # {} \/ s.guard < this.row.id
        BY <1>2, <2>1 DEF Live
    <2> QED
        BY <2>1, <2>5, <2>6, <2>7
<1> QED
    BY <1>2, <1>3, <1>4, <1>5

\* The rows of a tail whose head is not among them.
LEMMA ShiftedRows ==
    ASSUME Base, NEW c \in Collections, TakeTail(c), \A k \in Queued(c)' : k \in Live(c)' <=> k + 1 \in Live(c)
    PROVE  {sub[c].queue[k].row : k \in Live(c)} =
               {sub'[c].queue[k].row : k \in Live(c)'} \cup (IF 1 \in Live(c) THEN {sub[c].queue[1].row} ELSE {})
<1> DEFINE s == sub[c]
           t == sub'[c]
<1>1. /\ \A k \in Queued(c)' : k + 1 \in Queued(c) /\ k + 1 # 1 /\ t.queue[k] = s.queue[k + 1]
      /\ \A k \in Queued(c) : k \in Nat /\ (k # 1 => k - 1 \in Queued(c)' /\ t.queue[k - 1] = s.queue[k])
    BY ShiftedTail
<1>2. \A k \in Live(c) : k \in Queued(c)
    BY DEF Live
<1>3. \A k \in Live(c)' : k \in Queued(c)'
    BY DEF Live
<1>4. ASSUME NEW k \in Live(c), k # 1 PROVE \E i \in Live(c)' : s.queue[k].row = t.queue[i].row
    <2>1. k \in Nat /\ k - 1 \in Queued(c)' /\ t.queue[k - 1] = s.queue[k] /\ (k - 1) + 1 = k
        BY <1>1, <1>2, <1>4
    <2>2. k - 1 \in Live(c)'
        BY <1>4, <2>1
    <2> QED
        BY <2>1, <2>2
<1>5. ASSUME NEW k \in Live(c)' PROVE k + 1 \in Live(c) /\ t.queue[k].row = s.queue[k + 1].row
    BY <1>1, <1>3, <1>5
<1> QED
    BY <1>4, <1>5

\* A collection in step takes the head of its tail, or drops it as stale.
LEMMA TailInStep ==
    ASSUME Base, CoverageInv, OnLog, NEW c \in Collections, InTune(c), InStep(c), TakeTail(c)
    PROVE  InTune(c)'
<1> DEFINE s == sub[c]
           t == sub'[c]
<1> PICK H, U, T : H = Handed(c)' /\ U = Unlisted(c)' /\ T = Table(c)'
    OBVIOUS
<1> PICK item : item = s.queue[1]
    OBVIOUS
<1>1. /\ s.pc = "idle" /\ Rest /\ store' = store /\ pending' = pending
      /\ s.snap = None /\ s.replay = {} /\ t.snap = None /\ t.replay = {}
      /\ t.guard = GuardAfter(s.guard, item.kind, item.row.id)
      /\ IF IsStale(s.guard, item.kind, item.row.id) \/ item.gen # generation
         THEN t.pc = "idle" /\ t.sig = s.sig
         ELSE t.sig = item /\ t.pc = IF item.kind = "Event" THEN "land" ELSE "list"
    BY TakeTailStep
<1>2. /\ Current(c)' = Current(c) /\ generation' = generation /\ Here' = Here /\ journal' = journal
      /\ ~Landing(c) /\ ~Listing(c) /\ \A i : Backed(i)' = Backed(i)
    BY <1>1 DEF Rest, Current, Landing, Listing, Here, Backed
<1>3. /\ 1 \in Queued(c)
      /\ \A k \in Queued(c)' : k \in Nat /\ k + 1 \in Queued(c) /\ k + 1 # 1 /\ t.queue[k] = s.queue[k + 1]
      /\ \A k \in Queued(c) : k \in Nat /\ (k # 1 => k - 1 \in Queued(c)' /\ t.queue[k - 1] = s.queue[k])
    BY ShiftedTail
<1>4. /\ \A k \in Queued(c) : s.queue[k].gen = generation /\ s.queue[k].kind = "Event" /\ s.queue[k].row.id \in Nat
      /\ item.gen = generation /\ item.kind = "Event" /\ item.row.id \in Nat /\ s.guard \in Nat
      /\ Backed(s.guard) /\ Current(c) <= s.guard /\ Current(c) \in Nat \cup {None} /\ None = -1
    BY <1>3, SubscriberTypes DEF InStep, Queued
<1>5. /\ \A k \in Queued(c)' : t.queue[k].gen = generation /\ t.queue[k].kind = "Event"
      /\ Controls(c) = {} /\ Controls(c)' = {}
    BY <1>2, <1>3, <1>4 DEF Controls
<1>6. /\ item.row.id <= s.guard => t.guard = s.guard /\ t.pc = "idle" /\ t.sig = s.sig
      /\ ~(item.row.id <= s.guard) => t.guard = item.row.id /\ t.pc = "land" /\ t.sig = item
    BY <1>1, <1>4 DEF GuardAfter, IsStale
<1>7. ASSUME NEW k \in Queued(c)' PROVE k \in Live(c)' <=> k + 1 \in Live(c)
    <2>1. k + 1 \in Live(c) <=>
            /\ item.row.id < s.queue[k + 1].row.id
            /\ \A j \in 1 .. k - 1 : t.queue[j].gen = generation => t.queue[j].row.id < t.queue[k].row.id
            /\ s.guard < s.queue[k + 1].row.id
        BY <1>3, <1>4, <1>5, <1>7, ShiftedTail
    <2>2. k \in Live(c)' <=>
            /\ \A j \in 1 .. k - 1 : t.queue[j].gen = generation => t.queue[j].row.id < t.queue[k].row.id
            /\ t.guard < t.queue[k].row.id
        BY <1>2, <1>5, <1>7 DEF Live
    <2>3. t.queue[k] = s.queue[k + 1] /\ s.queue[k + 1].row.id \in Nat
        BY <1>3, <1>4, <1>7
    <2>4. t.guard < s.queue[k + 1].row.id <=> item.row.id < s.queue[k + 1].row.id /\ s.guard < s.queue[k + 1].row.id
        <3> PICK id, top, first : id = s.queue[k + 1].row.id /\ top = s.guard /\ first = item.row.id
            OBVIOUS
        <3>1. id \in Nat /\ top \in Nat /\ first \in Nat
            BY <1>4, <2>3
        <3>2. t.guard = IF first <= top THEN top ELSE first
            BY <1>6
        <3> QED
            BY ONLY <3>1, <3>2, id = s.queue[k + 1].row.id, top = s.guard, first = item.row.id
    <2> QED
        BY <2>1, <2>2, <2>3, <2>4
<1>8. 1 \in Live(c) <=> ~(item.row.id <= s.guard)
    <2>1. \A j \in 1 .. 1 - 1 : FALSE
        OBVIOUS
    <2>2. 1 \in Live(c) <=> s.guard < item.row.id
        BY <1>3, <1>4, <1>5, <2>1 DEF Live
    <2> QED
        BY <1>4, <2>2
<1>9. H = Handed(c)
    <2>1. {s.queue[k].row : k \in Live(c)} =
               {t.queue[k].row : k \in Live(c)'} \cup (IF 1 \in Live(c) THEN {item.row} ELSE {})
        BY <1>7, ShiftedRows
    <2>2. Handed(c) = {s.queue[k].row : k \in Live(c)}
        BY <1>1, <1>2, <1>5 DEF Handed
    <2>3. H = {t.queue[k].row : k \in Live(c)'} \cup (IF Landing(c)' THEN {t.sig.row} ELSE {})
        BY <1>1, <1>5 DEF Handed
    <2>4. Landing(c)' <=> ~(item.row.id <= s.guard)
        BY <1>4, <1>6 DEF Landing
    <2> QED
        BY <1>6, <1>8, <2>1, <2>2, <2>3, <2>4
<1>10. U = Unlisted(c) /\ T = Table(c)
    BY <1>1, <1>2, <1>4, <1>5, <1>6 DEF Unlisted, Table, Listing
<1>11. t.guard \in Nat /\ s.guard <= t.guard /\ item.row.id <= t.guard /\ Backed(t.guard)
    <2>1. Backed(item.row.id)
        BY <1>3, <1>4 DEF InTune
    <2>2. t.guard \in Nat /\ s.guard <= t.guard /\ item.row.id <= t.guard
        BY SMTT(40), <1>4, <1>6
    <2> QED
        BY <1>4, <1>6, <2>1, <2>2
<1>12. InStep(c)'
    <2>1. Backed(sub[c].guard)'
        BY <1>2, <1>11
    <2>2. Current(c)' <= t.guard /\ t.snap <= t.guard
        BY <1>1, <1>2, <1>4, <1>11
    <2>3. t.pc # "idle" => t.sig.gen = generation' /\ t.sig.row.id <= t.guard
        BY <1>2, <1>4, <1>6, <1>11
    <2>4. \A k \in Queued(c)' : t.queue[k].gen = generation' /\ t.queue[k].kind = "Event"
        BY <1>2, <1>5
    <2> QED
        BY <1>1, <2>1, <2>2, <2>3, <2>4 DEF InStep
<1>13. \A x \in journal.log : Reached(c, x.id)' => Reached(c, x.id)
    <2>1. SUFFICES ASSUME NEW i \in Nat, Reached(c, i)' PROVE Reached(c, i)
        BY BaseLog DEF CoverageInv
    <2>2. CASE i <= t.guard
        BY <1>3, <1>4, <1>5, <1>6, <2>2 DEF Reached
    <2>3. CASE \E k \in Queued(c)' : t.queue[k].gen = generation /\ i <= t.queue[k].row.id
        BY <1>3, <2>3 DEF Reached
    <2> QED
        BY <1>2, <2>1, <2>2, <2>3 DEF Reached
<1>14. H \subseteq Handed(c) /\ \A r \in H : r.id > Current(c)'
    BY <1>2, <1>9 DEF InTune
<1>15. \A e, m : Covers(c, e, m) => Covered(c, e, H, U, T, m)
    BY <1>9, <1>10 DEF Covers
<1>16. \A k \in Queued(c)' : sub'[c].queue[k].gen = generation =>
          \E i \in Queued(c) : sub[c].queue[i].gen = generation /\ sub'[c].queue[k].row = sub[c].queue[i].row
    BY <1>3
<1>17. InStep(c)' \/ \E i \in Queued(c)' : CalledAt(c, i)'
    BY <1>12
<1> QED
    BY <1>1, <1>13, <1>14, <1>15, <1>16, <1>17, DrainInTune

\* A collection that waits for a recovery drops what is older, then hears of it.
LEMMA TailCalled ==
    ASSUME Base, CoverageInv, OnLog, NEW c \in Collections, InTune(c), NEW j \in Queued(c), CalledAt(c, j), TakeTail(c)
    PROVE  InTune(c)'
<1> DEFINE s == sub[c]
           t == sub'[c]
<1> PICK H, U, T : H = Handed(c)' /\ U = Unlisted(c)' /\ T = Table(c)'
    OBVIOUS
<1> PICK item : item = s.queue[1]
    OBVIOUS
<1> PICK at : at = s.queue[j].row.id
    OBVIOUS
<1>1. /\ s.pc = "idle" /\ Rest /\ store' = store /\ pending' = pending
      /\ s.snap = None /\ s.replay = {} /\ t.snap = None /\ t.replay = {}
      /\ t.guard = GuardAfter(s.guard, item.kind, item.row.id)
      /\ IF IsStale(s.guard, item.kind, item.row.id) \/ item.gen # generation
         THEN t.pc = "idle" /\ t.sig = s.sig
         ELSE t.sig = item /\ t.pc = IF item.kind = "Event" THEN "land" ELSE "list"
    BY TakeTailStep
<1>2. /\ Current(c)' = Current(c) /\ generation' = generation /\ Here' = Here /\ journal' = journal
      /\ ~Landing(c) /\ ~Listing(c) /\ \A i : Backed(i)' = Backed(i)
    BY <1>1 DEF Rest, Current, Landing, Listing, Here, Backed
<1>3. /\ 1 \in Queued(c)
      /\ \A k \in Queued(c)' : k \in Nat /\ k + 1 \in Queued(c) /\ k + 1 # 1 /\ t.queue[k] = s.queue[k + 1]
      /\ \A k \in Queued(c) : k \in Nat /\ (k # 1 => k - 1 \in Queued(c)' /\ t.queue[k - 1] = s.queue[k])
    BY ShiftedTail
<1>4. /\ \A k \in Queued(c) : s.queue[k].gen \in Nat /\ s.queue[k].row.id \in Nat
      /\ generation \in Nat /\ at \in Nat /\ item.row.id \in Nat /\ item.gen \in Nat /\ s.guard \in Nat /\ None = -1
    BY <1>3, SubscriberTypes, BaseTypes DEF Queued
<1>5. /\ s.queue[j].gen = generation /\ s.queue[j].kind \in {"Resync", "EpochReset"} /\ at <= Here /\ Current(c) = None
      /\ \A k \in 1 .. j - 1 : s.queue[k].gen < generation
      /\ \A k \in j + 1 .. Len(s.queue) : s.queue[k].gen = generation /\ s.queue[k].kind = "Event" /\ s.queue[k].row.id > at
      /\ s.queue[j].kind = "Resync" => GuardBy(c, j, at)
    BY DEF CalledAt
<1>6. j \in Controls(c) /\ j \in Nat /\ j >= 1 /\ j <= Len(s.queue) /\ Len(s.queue) \in Nat
    BY <1>5, SubscriberTypes DEF Controls, Queued
<1>7. Unlisted(c)
    BY <1>6 DEF Unlisted
<1>8. Handed(c) = {s.queue[k].row : k \in Live(c)}
    BY <1>6 DEF Handed
<1>9. \A k \in Queued(c)' : t.queue[k].gen = generation =>
          \E i \in Queued(c) : s.queue[i].gen = generation /\ t.queue[k].row = s.queue[i].row
    BY <1>3
<1>10. 1 \notin Live(c)
    <2>1. j = 1 \/ 1 \in 1 .. j - 1
        BY <1>6
    <2> QED
        BY <1>4, <1>5, <2>1 DEF Live
\* the item is older than the recovery
<1>11. CASE j # 1
    <2>1. item.gen < generation /\ j - 1 \in Queued(c)' /\ t.queue[j - 1] = s.queue[j] /\ 1 \in 1 .. j - 1
        <3>1. 1 \in 1 .. j - 1
            BY <1>6, <1>11
        <3> QED
            BY <1>3, <1>5, <1>11, <3>1
    <2>2. t.pc = "idle" /\ t.sig = s.sig
        BY <1>1, <1>4, <2>1
    <2>3. j - 1 \in Controls(c)'
        BY <1>2, <1>5, <2>1 DEF Controls
    <2>4. \A k \in Queued(c)' : k \in Live(c)' <=> k + 1 \in Live(c)
        <3>1. SUFFICES ASSUME NEW k \in Queued(c)' PROVE k \in Live(c)' <=> k + 1 \in Live(c)
            OBVIOUS
        <3>2. k + 1 \in Live(c) <=>
                /\ s.queue[k + 1].gen = generation /\ s.queue[k + 1].kind = "Event"
                /\ \A i \in 1 .. k - 1 : t.queue[i].gen = generation => t.queue[i].row.id < t.queue[k].row.id
            <4>1. s.queue[1].gen # generation /\ Controls(c) # {}
                BY <1>4, <1>6, <2>1
            <4> QED
                BY <3>1, <4>1, ShiftedTail
        <3>3. k \in Live(c)' <=>
                /\ t.queue[k].gen = generation /\ t.queue[k].kind = "Event"
                /\ \A i \in 1 .. k - 1 : t.queue[i].gen = generation => t.queue[i].row.id < t.queue[k].row.id
            BY <1>2, <2>3, <3>1 DEF Live
        <3> QED
            BY <1>3, <3>1, <3>2, <3>3
    <2>5. H = Handed(c) /\ U
        <3>1. {s.queue[k].row : k \in Live(c)} = {t.queue[k].row : k \in Live(c)'}
            BY <1>10, <2>4, ShiftedRows
        <3> QED
            BY <1>8, <2>3, <3>1 DEF Handed, Unlisted
    <2>6. s.queue[j].kind = "Resync" => GuardBy(c, j - 1, at)'
        <3>1. SUFFICES ASSUME s.queue[j].kind = "Resync" PROVE GuardBy(c, j - 1, at)'
            OBVIOUS
        <3> PICK n : n = j - 1
            OBVIOUS
        <3> DEFINE Rebased(i) == \E k \in i + 1 .. j - 1 : s.queue[k].kind = "EpochReset"
                   Again(i) == \E k \in i + 1 .. n - 1 : t.queue[k].kind = "EpochReset"
        <3>2. (Rebased(0) \/ s.guard <= at) /\ \A i \in 1 .. j - 1 : Rebased(i) \/ s.queue[i].row.id <= at
            BY <1>5, <3>1 DEF GuardBy
        <3>3. \A i \in Nat : Rebased(i + 1) => Again(i)
            <4>1. SUFFICES ASSUME NEW i \in Nat, NEW k \in (i + 1) + 1 .. j - 1, s.queue[k].kind = "EpochReset"
                           PROVE  Again(i)
                OBVIOUS
            <4>2. k \in Queued(c) /\ k # 1 /\ k - 1 \in i + 1 .. n - 1
                <5>1. k \in 1 .. Len(s.queue) /\ k # 1 /\ k - 1 \in i + 1 .. n - 1
                    BY <1>6, <4>1
                <5> QED
                    BY <5>1 DEF Queued
            <4> QED
                BY <1>3, <4>1, <4>2
        <3>4. \A i \in 1 .. n - 1 : i + 1 \in 1 .. j - 1 /\ i \in Nat /\ i \in Queued(c)'
            <4>1. SUFFICES ASSUME NEW i \in 1 .. n - 1 PROVE i + 1 \in 1 .. j - 1 /\ i \in Nat /\ i \in Queued(c)'
                OBVIOUS
            <4>2. i \in Nat /\ i + 1 \in 1 .. j - 1 /\ i + 1 # 1 /\ i + 1 \in 1 .. Len(s.queue) /\ (i + 1) - 1 = i
                BY <1>6, <4>1
            <4>3. (i + 1) - 1 \in Queued(c)'
                BY <1>3, <4>2 DEF Queued
            <4> QED
                BY <4>2, <4>3
        <3>5. \A i \in 1 .. n - 1 : Again(i) \/ t.queue[i].row.id <= at
            <4>1. SUFFICES ASSUME NEW i \in 1 .. n - 1 PROVE Again(i) \/ t.queue[i].row.id <= at
                OBVIOUS
            <4>2. t.queue[i] = s.queue[i + 1] /\ i + 1 \in 1 .. j - 1 /\ i \in Nat
                BY <1>3, <3>4
            <4>3. Rebased(i + 1) \/ s.queue[i + 1].row.id <= at
                BY <3>2, <4>2
            <4> QED
                BY <3>3, <4>2, <4>3
        <3>6. Again(0) \/ t.guard <= at
            <4>1. SUFFICES ASSUME ~Again(0) PROVE t.guard <= at
                OBVIOUS
            <4>2. ~Rebased(0 + 1)
                BY <3>3, <4>1
            <4>3. item.row.id <= at
                BY <2>1, <3>2, <4>2
            <4>4. item.kind = "EpochReset" => t.guard = item.row.id
                BY <1>1 DEF GuardAfter
            <4>5. item.kind # "EpochReset" => t.guard \in {s.guard, item.row.id} /\ ~Rebased(0)
                <5>1. item.kind # "EpochReset" => t.guard \in {s.guard, item.row.id}
                    BY <1>1 DEF GuardAfter, MaxSyncId
                <5>2. \A k \in 0 + 1 .. j - 1 : k = 1 \/ k \in (0 + 1) + 1 .. j - 1
                    BY SMTT(40), <1>6
                <5> QED
                    BY <4>2, <5>1, <5>2
            <4> QED
                BY <3>2, <4>3, <4>4, <4>5
        <3> QED
            BY <3>5, <3>6 DEF GuardBy
    <2>7. CalledAt(c, j - 1)'
        <3>1. \A k \in 1 .. (j - 1) - 1 : t.queue[k].gen < generation
            <4>1. SUFFICES ASSUME NEW k \in 1 .. (j - 1) - 1 PROVE t.queue[k].gen < generation
                OBVIOUS
            <4>2. k + 1 \in 1 .. j - 1 /\ k + 1 \in 1 .. Len(s.queue) /\ k + 1 # 1 /\ (k + 1) - 1 = k
                BY SMTT(40), <1>6, <4>1
            <4>3. t.queue[(k + 1) - 1] = s.queue[k + 1]
                BY <1>3, <4>2 DEF Queued
            <4> QED
                BY <1>5, <4>2, <4>3
        <3>2. \A k \in (j - 1) + 1 .. Len(t.queue) :
                 t.queue[k].gen = generation /\ t.queue[k].kind = "Event" /\ t.queue[k].row.id > at
            <4>1. SUFFICES ASSUME NEW k \in (j - 1) + 1 .. Len(t.queue)
                           PROVE t.queue[k].gen = generation /\ t.queue[k].kind = "Event" /\ t.queue[k].row.id > at
                OBVIOUS
            <4>2. Len(t.queue) = Len(s.queue) - 1
                BY TakeTailStep
            <4>3. k + 1 \in j + 1 .. Len(s.queue) /\ k \in 1 .. Len(t.queue)
                <5> PICK m, n : m = Len(t.queue) /\ n = Len(s.queue)
                    OBVIOUS
                <5>1. j \in Nat /\ j >= 1 /\ n \in Nat /\ m = n - 1 /\ k \in (j - 1) + 1 .. m
                    BY <1>6, <4>1, <4>2
                <5>2. k + 1 \in j + 1 .. n /\ k \in 1 .. m
                    BY ONLY <5>1
                <5> QED
                    BY <5>2
            <4>4. t.queue[k] = s.queue[k + 1]
                BY <1>3, <4>3 DEF Queued
            <4> QED
                BY <1>5, <4>3, <4>4
        <3> QED
            BY <1>1, <1>2, <1>5, <2>1, <2>2, <2>6, <3>1, <3>2 DEF CalledAt
    <2>8. T = Table(c)
        BY <1>1, <1>2, <2>2 DEF Table, Listing
    <2>9. \A x \in journal.log : Reached(c, x.id)' => Reached(c, x.id)
        BY <1>2, <1>3, <2>3 DEF Reached
    <2>10. H \subseteq Handed(c) /\ \A r \in H : r.id > Current(c)'
        BY <1>2, <2>5 DEF InTune
    <2>11. \A e, m : Covers(c, e, m) => Covered(c, e, H, U, T, m)
        BY <1>7, <2>5, <2>8 DEF Covers, Covered
    <2>12. InStep(c)' \/ \E i \in Queued(c)' : CalledAt(c, i)'
        BY <2>1, <2>7
    <2> QED
        BY <1>1, <1>9, <2>9, <2>10, <2>11, <2>12, DrainInTune
\* the item is the recovery's own
<1>12. CASE j = 1
    <2>1. item.gen = generation /\ item.kind \in {"Resync", "EpochReset"} /\ item.row.id = at
        BY <1>5, <1>12
    <2>2. t.sig = item /\ t.pc = "list"
        BY <1>1, <2>1 DEF IsStale
    <2>3. t.guard = at
        <3>1. \A k \in 0 + 1 .. 1 - 1 : FALSE
            OBVIOUS
        <3>2. item.kind = "Resync" => s.guard <= at
            BY <1>5, <1>12, <3>1 DEF GuardBy
        <3> QED
            BY <1>1, <1>4, <2>1, <3>2 DEF GuardAfter, MaxSyncId
    <2>4. \A k \in Queued(c)' : t.queue[k].gen = generation /\ t.queue[k].kind = "Event" /\ t.queue[k].row.id > at
                                /\ t.queue[k].row.id \in Nat
        <3>1. SUFFICES ASSUME NEW k \in Queued(c)'
                       PROVE  t.queue[k].gen = generation /\ t.queue[k].kind = "Event" /\ t.queue[k].row.id > at
                              /\ t.queue[k].row.id \in Nat
            OBVIOUS
        <3>2. k \in Nat /\ k + 1 \in 1 .. Len(s.queue) /\ k + 1 # 1 /\ t.queue[k] = s.queue[k + 1]
            BY <1>3 DEF Queued
        <3>3. k + 1 \in 1 + 1 .. Len(s.queue)
            BY <1>6, <3>2
        <3> QED
            BY <1>4, <1>5, <1>12, <3>2, <3>3 DEF Queued
    <2>5. Controls(c)' = {}
        BY <1>2, <2>4 DEF Controls
    <2>6. \A k \in Queued(c)' : k \in Live(c)' <=> k + 1 \in Live(c)
        <3>1. SUFFICES ASSUME NEW k \in Queued(c)' PROVE k \in Live(c)' <=> k + 1 \in Live(c)
            OBVIOUS
        <3>2. t.queue[k] = s.queue[k + 1] /\ at < s.queue[k + 1].row.id
              /\ s.queue[k + 1].gen = generation /\ s.queue[k + 1].kind = "Event"
            BY SMTT(40), <1>3, <1>4, <2>4, <3>1
        <3>3. k + 1 \in Live(c) <=>
                \A i \in 1 .. k - 1 : t.queue[i].gen = generation => t.queue[i].row.id < t.queue[k].row.id
            BY <1>6, <2>1, <3>1, <3>2, ShiftedTail
        <3>4. k \in Live(c)' <=>
                \A i \in 1 .. k - 1 : t.queue[i].gen = generation => t.queue[i].row.id < t.queue[k].row.id
            BY <1>2, <2>3, <3>1, <3>2 DEF Live
        <3> QED
            BY <3>3, <3>4
    <2>7. H = Handed(c) /\ U
        <3>1. {s.queue[k].row : k \in Live(c)} = {t.queue[k].row : k \in Live(c)'}
            BY <1>10, <2>6, ShiftedRows
        <3>2. ~Landing(c)'
            BY <2>2 DEF Landing
        <3> QED
            BY <1>1, <1>8, <2>2, <2>5, <3>1, <3>2 DEF Handed, Unlisted
    <2>8. T = Table(c)
        BY SMTT(40), <1>1, <1>2, <2>2 DEF Table, Listing
    <2>9. InStep(c)'
        <3>1. Backed(sub[c].guard)'
            BY SMTT(40), <1>2, <1>5, <2>3 DEF Backed
        <3>2. Current(c)' <= t.guard /\ t.snap <= t.guard /\ t.sig.row.id <= t.guard
            BY <1>1, <1>2, <1>4, <1>5, <2>1, <2>2, <2>3
        <3>3. \A k \in Queued(c)' : t.queue[k].gen = generation' /\ t.queue[k].kind = "Event"
            BY <1>2, <2>4
        <3> QED
            BY <1>1, <1>2, <2>1, <2>2, <3>1, <3>2, <3>3 DEF InStep
    <2>10. \A x \in journal.log : Reached(c, x.id)' => Reached(c, x.id)
        BY <1>2, <1>3, <1>4, <2>1, <2>3, <2>5 DEF Reached
    <2>11. H \subseteq Handed(c) /\ \A r \in H : r.id > Current(c)'
        BY <1>2, <2>7 DEF InTune
    <2>12. \A e, m : Covers(c, e, m) => Covered(c, e, H, U, T, m)
        BY <1>7, <2>7, <2>8 DEF Covers, Covered
    <2>13. InStep(c)' \/ \E i \in Queued(c)' : CalledAt(c, i)'
        BY <2>9
    <2> QED
        BY <1>1, <1>9, <2>10, <2>11, <2>12, <2>13, DrainInTune
<1> QED
    BY <1>11, <1>12

\* No step of its own drain puts a collection out of tune.
LEMMA InTuneDrain ==
    ASSUME Base, CoverageInv, OnLog, NEW c \in Collections, InTune(c), Drain(c)
    PROVE  InTune(c)'
<1>1. CASE TakeTail(c)
    <2>1. CASE InStep(c)
        BY <1>1, <2>1, TailInStep
    <2>2. CASE ~InStep(c)
        BY <1>1, <2>2, TailCalled DEF InTune
    <2> QED
        BY <2>1, <2>2
<1> QED
    BY <1>1, InTuneReplay, InTuneList, InTuneLand, InTuneAck DEF Drain

-----------------------------------------------------------------------------
(* Every delivery *)

\* A recovery that has begun goes on to wipe the journal, unless the fiber is stopped.
LEMMA WipeStays ==
    ASSUME Base, [Next]_vars, ingest.pc = "wipe"
    PROVE  ingest' = ingest \/ WipeJournal \/ Stop \/ Crash
<1>1. CASE Run \/ Serve \/ Start \/ TimedFlush
    BY <1>1 DEF Run, Recover, Accept, AppendChunk, PublishRow, AdvanceIngested, FlushBeforePrune, PruneRead,
                PruneCommit, BeginRecovery, TellRecovery, Serve, ServeList, ServeHydrate, Start, TimedFlush
<1>2. CASE Disturb
    BY <1>2 DEF Disturb, Fail, Unmount
<1>3. CASE ServerWrites \/ Expire \/ Restore \/ UNCHANGED vars
    BY <1>3 DEF ServerWrites, Write, BulkChange, Expire, Restore, vars
<1>4. CASE \E c \in Collections : Mount(c) \/ Attach(c) \/ Drain(c)
    BY <1>4 DEF Mount, Attach, ReadMark, ReadFloor, ReadJournal, Drain, TakeReplay, TakeTail, ListServer, Land, Ack
<1> QED
    BY <1>1, <1>2, <1>3, <1>4 DEF Next

\* An attachment starts serving only by its mount's last read.
LEMMA ServingStarts ==
    ASSUME Base, [Next]_vars, NEW c \in Collections, ~Serving(c), Serving(c)'
    PROVE  ReadJournal(c)
<1>1. sub[c].pc \notin {"idle", "list", "land", "ack"} /\ sub'[c].pc \in {"idle", "list", "land", "ack"}
    BY DEF Serving
<1>2. ~(PublishRow \/ TellRecovery)
    BY <1>1, PublishStep, TellStep, PublishedItems
<1>3. ~(Crash \/ Unmount(c))
    BY <1>1, CrashStep, UnmountStep DEF Detached
<1>4. ~Mount(c) /\ ~ReadMark(c) /\ ~ReadFloor(c)
    BY <1>1, MountStep, ReadMarkStep, ReadFloorStep
<1>5. ~Drain(c)
    BY <1>1, TakeReplayStep, TakeTailStep, ListStep, LandStep, AckStep DEF Drain
<1> QED
    BY <1>1, <1>2, <1>3, <1>4, <1>5, SubscriberSteps DEF Attach

\* While it serves, its own steps are its drain's.
LEMMA ServingSteps ==
    ASSUME Base, [Next]_vars, NEW c \in Collections, Serving(c), Serving(c)'
    PROVE  sub'[c] = sub[c] \/ PublishRow \/ TellRecovery \/ Drain(c)
<1>1. sub[c].pc \in {"idle", "list", "land", "ack"} /\ sub'[c].pc \in {"idle", "list", "land", "ack"}
    BY DEF Serving
<1>2. ~(Crash \/ Unmount(c))
    BY <1>1, CrashStep, UnmountStep DEF Detached
<1>3. ~Mount(c) /\ ~Attach(c)
    BY <1>1, MountStep, ReadMarkStep, ReadFloorStep, ReadJournalStep DEF Attach
<1> QED
    BY <1>2, <1>3, SubscriberSteps

\* No step of the system puts a serving collection out of tune, but a recovery about to
\* tell it, or one that is owed.
LEMMA ServesNext ==
    ASSUME Base, CoverageInv, [Next]_vars
    PROVE  Serves'
<1>1. SUFFICES ASSUME OnLog', NEW c \in Collections, Serving(c)'
               PROVE  InTune(c)' \/ (Lagging(c)' /\ (ingest'.pc \in {"wipe", "tell"} \/ Owed'))
    BY DEF Serves
<1>2. Truths /\ Gens
    BY DEF CoverageInv, Truths
<1>3. CASE ingest'.pc \in {"wipe", "tell"}
    <2>1. Gens'
        BY <1>2, GensNext
    <2>2. sub'[c].pc # "off"
        BY <1>1 DEF Serving
    <2> QED
        BY <1>3, <2>1, <2>2 DEF Gens
<1>4. CASE ~OnLog
    BY <1>1, <1>2, <1>3, <1>4, OnLogSteps, WipedJournal
<1>5. CASE ingest'.pc \notin {"wipe", "tell"} /\ OnLog
    <2>1. ~WipeJournal /\ ~BeginRecovery
        BY <1>2, <1>5, WipedJournal, BeginStep
    <2>2. ~Crash
        <3>1. Detached.pc = "off"
            BY DEF Detached
        <3> QED
            BY <1>1, <3>1, CrashStep DEF Serving
    <2>3. generation' = generation
        BY <2>1, <2>2, GenerationSteps
    <2>4. CASE ~Serving(c)
        BY <1>1, <1>5, <2>4, ServingStarts, InTuneMounted
    <2>5. CASE Serving(c) /\ TellRecovery
        BY <1>1, <1>5, <2>5, InTuneTold
    <2>6. CASE Serving(c) /\ ingest.pc = "wipe" /\ ~TellRecovery
        <3>1. ingest' # ingest
            BY <1>5, <2>6
        <3>2. Stop
            BY <2>1, <2>2, <2>6, <3>1, WipeStays
        <3>3. /\ ingest'.pc = "stopped" /\ ingest'.state = ingest.state
              /\ log' = log /\ retained' = retained /\ journal' = journal
            BY <3>2, StopStep
        <3>4. ingest.state = "Recovering" /\ ResyncAhead
            BY <1>5, <2>6 DEF CoverageInv, WorkTells
        <3>5. ResyncAhead'
            BY <3>3, <3>4, AheadStands DEF Here
        <3>6. Lagging(c)
            BY <1>2, <2>6 DEF Gens, Serving
        <3>7. ~PublishRow
            BY <2>6, PublishStep
        <3>8. Lagging(c)'
            BY <1>1, <2>3, <2>6, <3>6, <3>7, LagsStands
        <3> QED
            BY <3>3, <3>4, <3>5, <3>8 DEF Owed
    <2>7. CASE Serving(c) /\ Lagging(c) /\ Owed /\ ~TellRecovery
        <3>1. Owed'
            BY <1>1, <1>5, <2>1, <2>2, <2>7, OwedStands
        <3>2. ~PublishRow
            BY <2>7, PublishStep DEF Owed
        <3>3. Lagging(c)'
            BY <1>1, <2>3, <2>7, <3>2, LagsStands
        <3> QED
            BY <3>1, <3>3
    <2>8. CASE Serving(c) /\ InTune(c) /\ ~TellRecovery
        <3>1. ~Restore
            BY <1>1, <1>2, RestoredLog
        <3>2. CASE sub'[c] = sub[c]
            <4>1. CASE ServerWrites
                BY <1>1, <1>5, <2>8, <4>1, InTuneGrown
            <4>2. CASE AppendChunk
                BY <1>1, <1>5, <2>8, <4>2, InTuneAppend
            <4>3. CASE AdvanceIngested
                BY <1>1, <1>5, <2>8, <4>3, InTuneAdvance
            <4>4. CASE PruneCommit
                BY <1>1, <1>5, <2>8, <4>4, InTunePrune
            <4>5. CASE ~(ServerWrites \/ AppendChunk \/ AdvanceIngested \/ PruneCommit)
                <5>1. log' = log
                    BY <3>1, <4>5, LogSteps
                <5>2. SameRows \/ Accept
                    BY <2>1, <4>5, JournalSteps
                <5> QED
                    BY <1>1, <1>5, <2>1, <2>8, <3>2, <4>5, <5>1, <5>2, InTuneAside
            <4> QED
                BY <4>1, <4>2, <4>3, <4>4, <4>5
        <3>3. CASE PublishRow /\ sub'[c] # sub[c]
            BY <1>1, <1>5, <2>8, <3>3, InTunePublished
        <3>4. CASE Drain(c)
            BY <1>5, <2>8, <3>4, InTuneDrain
        <3> QED
            BY <1>1, <2>8, <3>2, <3>3, <3>4, ServingSteps
    <2>9. Serving(c) => InTune(c) \/ (Lagging(c) /\ (ingest.pc \in {"wipe", "tell"} \/ Owed))
        BY <1>5 DEF CoverageInv, Serves
    <2>10. ingest.pc = "tell" => TellRecovery
        BY <1>5, <2>2, TellStays
    <2> QED
        BY <2>4, <2>5, <2>6, <2>7, <2>8, <2>9, <2>10
<1> QED
    BY <1>3, <1>4, <1>5

-----------------------------------------------------------------------------
(* The inductive invariant *)

\* An empty server and a fresh client have nothing to contradict each other.
LEMMA InitCoverage ==
    ASSUME Init
    PROVE  CoverageInv
<1>1. /\ log = <<>> /\ epoch = 0 /\ wire = NoBatch /\ journal = EmptyJournal /\ ingest = StoppedIngest
      /\ pending = NoMarks /\ generation = 0 /\ \A c \in Collections : store[c] = NoRows /\ sub[c] = Detached
    BY DEF Init
<1>2. Len(log) = 0 /\ None = -1 /\ journal.log = {} /\ journal.epoch = None /\ journal.cursor = None
      /\ journal.resync = None /\ (\A m \in Models : journal.floor[m] = None) /\ Here = 0
      /\ (\A c \in Collections : journal.marks[c] = None /\ Current(c) = None /\ CollModel[c] \in Models)
    BY <1>1, ConstantsOK DEF EmptyJournal, None, Here, OrZero, ZeroSyncId, Current, MaxSyncId, NoMarks
<1>3. wire.stage = "none" /\ wire.events = {} /\ ingest.pc = "stopped" /\ ingest.work.rows = {}
    BY <1>1 DEF NoBatch, StoppedIngest, NoWork
<1>4. ~OnWire /\ ~InHand
    BY <1>3 DEF OnWire, InHand
<1>5. \A c \in Collections :
         /\ sub[c].pc = "off" /\ sub[c].queue = <<>> /\ sub[c].replay = {} /\ sub[c].gen = 0 /\ sub[c].sig.gen = 0
         /\ \A e \in Entities : store[c][e] = Absent /\ sub[c].listing[e] = Absent
    BY <1>1 DEF Detached, NoItem, NoRows
<1>6. LogTags
    BY <1>2 DEF LogTags
<1>7. WireTells /\ WorkTells /\ Epochs
    BY <1>1, <1>2, <1>3, <1>4 DEF WireTells, WorkTells, Epochs
<1>8. JournalTells
    BY <1>2, <1>4 DEF JournalTells, Behind, OneRowEach
<1>9. RealRows /\ Lists /\ OtherModels
    BY <1>2, <1>3, <1>5 DEF RealRows, Lists, OtherModels, Landing
<1>10. MarksTell
    BY <1>2, <1>5 DEF MarksTell, MarkTells, Covering, Backed, Landing
<1>11. Pruning /\ Gens /\ Tops
    <2>1. Pruning /\ Tops
        BY <1>3, <1>5 DEF Pruning, Tops
    <2>2. \A c \in Collections : 1 .. Len(sub[c].queue) = {}
        BY <1>5
    <2>3. Gens
        BY <1>1, <1>3, <1>5, <2>2 DEF Gens, Queued
    <2> QED
        BY <2>1, <2>3
<1>12. Serves /\ Mounts
    BY <1>5 DEF Serves, Serving, Mounts, Mounting
<1> QED
    BY <1>6, <1>7, <1>8, <1>9, <1>10, <1>11, <1>12 DEF CoverageInv

\* Every step of the system preserves it, with the race windows closed and the rows durable.
LEMMA NextCoverage ==
    ASSUME Base, CoverageInv, [Next]_vars
    PROVE  CoverageInv'
<1>1. Truths /\ RealRows /\ Lists /\ OtherModels /\ Gens
    BY DEF CoverageInv, Truths
<1>2. Truths'
    BY TruthsNext
<1>3. RealRows' /\ Lists' /\ OtherModels' /\ Gens'
    BY <1>1, RealRowsNext, ListsNext, OtherModelsNext, GensNext
<1>4. MarksTell' /\ Pruning' /\ Tops'
    BY MarksTellNext, PruningNext, TopsNext
<1>5. Serves' /\ Mounts'
    BY ServesNext, MountsNext
<1> QED
    BY <1>2, <1>3, <1>4, <1>5 DEF CoverageInv, Truths

\* What every step may rely on holds in every reachable state, as long as every synced
\* row is durable.
LEMMA CoverageHolds ==
    ASSUME Windows \subseteq {"unawaited-commit"}
    PROVE  Spec /\ []Durable => [](Base /\ CoverageInv)
<1> DEFINE Basis == TypeInv /\ RecoveryWork /\ GateHeld /\ NoMarkAcrossRecovery
<1>1. Init => Basis
    <2>1. SUFFICES ASSUME Init PROVE Basis
        OBVIOUS
    <2>2. GateHeld
        BY <2>1, ConstantsOK DEF Init, GateHeld, StoppedIngest, Detached, Free, Ingest
    <2>3. NoMarkAcrossRecovery
        BY <2>1 DEF Init, NoMarkAcrossRecovery, StoppedIngest
    <2> QED
        BY <2>1, <2>2, <2>3, InitIInv DEF IInv
<1>2. Basis /\ [Next]_vars => Basis'
    BY NextIInv, NextGateHeld, NextNoMark DEF IInv, GateHeld
<1>3. Basis /\ Durable /\ CoverageInv /\ [Next]_vars => CoverageInv'
    BY NextCoverage DEF Base
<1>4. Init => CoverageInv
    BY InitCoverage
<1>5. Basis /\ Durable /\ CoverageInv => Base /\ CoverageInv
    BY DEF Base
<1> HIDE DEF Basis
<1> QED
    BY <1>1, <1>2, <1>3, <1>4, <1>5, PTL DEF Spec

-----------------------------------------------------------------------------
(* What the broker promises *)

\* A collection with a mark that the journal still covers is as current as its table
\* and the rows of the journal beyond the mark.
LEMMA Currency ==
    ASSUME Base, CoverageInv, OnTimeline, NEW c \in Collections
    PROVE  /\ OnLog /\ LogOK /\ Here \in Nat /\ Len(log) \in Nat /\ Here <= Len(log)
           /\ Current(c) \in Nat \cup {None} /\ journal.marks[c] \in Nat \cup {None} /\ None = -1
           /\ \A m \in {journal.marks[c], Current(c)} : Covering(c, store[c], m) /\ m <= Len(log)
           /\ \A e \in Entities \ Mine(c) : store[c][e] = Absent /\ \A t : RowAt(c, e, t) = Absent
<1>1. OnLog /\ Truths /\ LogTags
    BY DEF OnTimeline, OnLog, CoverageInv, Truths
<1>2. LogOK /\ Here \in Nat /\ Len(log) \in Nat
    BY <1>1, BaseLog
<1>3. Here <= Len(log)
    BY <1>1 DEF Truths, JournalTells, Behind
<1>4. Current(c) \in Nat \cup {None} /\ journal.marks[c] \in Nat \cup {None} /\ None = -1 /\ pending[c] \in Nat \cup {None}
    BY BaseTypes, SubscriberTypes
<1>5. MarkTells(c)
    BY <1>1 DEF CoverageInv, MarksTell
<1>6. Current(c) <= Len(log)
    BY <1>1, <1>2, <1>4, <1>5, BackedOnLog DEF MarkTells
<1>7. journal.marks[c] <= Current(c)
    BY <1>4 DEF Current, MaxSyncId
<1>8. \A m \in {journal.marks[c], Current(c)} : Covering(c, store[c], m) /\ m <= Len(log)
    BY <1>2, <1>4, <1>5, <1>6, <1>7 DEF MarkTells
<1>9. \A e \in Entities \ Mine(c) : store[c][e] = Absent /\ \A t : RowAt(c, e, t) = Absent
    BY DEF CoverageInv, OtherModels, Mine, RowAt, InScope
<1> QED
    BY <1>1, <1>2, <1>3, <1>4, <1>8, <1>9

\* Rows of e that are true of the log, applied in order, leave e current through the cursor.
LEMMA AppliedRows ==
    ASSUME Base, LogOK, NEW c \in Collections, NEW e, NEW rows \in SUBSET Row,
           NEW newest \in rows, newest.e = e, RowTells(newest), Here <= Len(log), Len(log) \in Nat,
           newest.id >= Here \/ Quiet(e, newest.id, Here)
    PROVE  (IF newest.tag = "Upsert" /\ InScope(c, e, newest.home) THEN newest.w ELSE Absent)
               \in CurrentThrough(c, e, Here)
<1>1. newest \in Row /\ Here \in 0 .. Len(log)
    BY DEF LogOK
<1>2. PICK t \in Here .. Len(log) : TellsAt(newest, t)
    BY <1>1, RowReaches
<1>3. LandedRow(c, newest) = RowAt(c, e, t)
    BY <1>1, <1>2, TellsValue
<1> QED
    BY <1>2, <1>3 DEF LandedRow, CurrentThrough

\* The invariant says what CoverageSound asks.
LEMMA CoverageSoundHolds ==
    ASSUME Base, CoverageInv
    PROVE  CoverageSound
<1>1. SUFFICES ASSUME OnTimeline, NEW c \in Collections, NEW mark, mark = Current(c), mark # None,
                      journal.floor[CollModel[c]] <= mark, NEW e \in Entities
               PROVE  \/ store[c][e] \in CurrentThrough(c, e, mark)
                      \/ \E r \in journal.log : r.e = e /\ r.id > mark
    BY DEF CoverageSound, Current
<1>2. /\ Here \in Nat /\ Len(log) \in Nat /\ mark \in Nat /\ mark <= Len(log)
      /\ Covering(c, store[c], mark)
      /\ \A x \in Entities \ Mine(c) : store[c][x] = Absent /\ \A t : RowAt(c, x, t) = Absent
    BY <1>1, Currency
<1>3. CASE e \notin Mine(c)
    <2>1. Len(log) \in mark .. Len(log) /\ RowAt(c, e, Len(log)) = store[c][e]
        BY <1>1, <1>2, <1>3
    <2> QED
        BY <2>1 DEF CurrentThrough
<1>4. CASE Shows(c, e, store[c][e], MaxSyncId(mark, Here))
    <2>1. PICK t \in MaxSyncId(mark, Here) .. Len(log) : store[c][e] = RowAt(c, e, t)
        BY <1>4 DEF Shows
    <2>2. t \in mark .. Len(log)
        BY <1>2, <2>1 DEF MaxSyncId
    <2> QED
        BY <2>1, <2>2 DEF CurrentThrough
<1> QED
    BY <1>1, <1>2, <1>3, <1>4 DEF Covering

\* A mount by the journal and the durable mark finds every change, as the invariant has it.
LEMMA RemountSoundHolds ==
    ASSUME Base, CoverageInv
    PROVE  RemountSound
<1>1. SUFFICES ASSUME OnTimeline, NEW c \in Collections, NEW mark, mark = journal.marks[c],
                      Decision(mark, journal.cursor, journal.floor[CollModel[c]], journal.resync) # "Snapshot",
                      NEW e \in Entities
               PROVE  Replayed(c, e) \in CurrentThrough(c, e, Here)
    BY DEF RemountSound, Here
<1> PICK floor : floor = journal.floor[CollModel[c]]
    OBVIOUS
<1> PICK rows : rows = {r \in ReadRows(journal, CollModel[c], mark) : r.e = e}
    OBVIOUS
<1>2. /\ OnLog /\ LogOK /\ Here \in Nat /\ Len(log) \in Nat /\ Here <= Len(log)
      /\ mark \in Nat \cup {None} /\ None = -1 /\ mark <= Len(log)
      /\ Covering(c, store[c], mark)
      /\ \A x \in Entities \ Mine(c) : store[c][x] = Absent /\ \A t : RowAt(c, x, t) = Absent
    BY <1>1, Currency
<1>3. /\ JournalTells /\ LogTags /\ floor \in Nat \cup {None} /\ floor <= Here
      /\ journal.log \in SUBSET Row /\ \A r \in journal.log : r.id \in Nat /\ RowTells(r)
    <2>1. JournalTells /\ LogTags
        BY DEF CoverageInv
    <2>2. CollModel[c] \in Models
        BY BaseTypes
    <2> QED
        BY <1>2, <2>1, <2>2, BaseLog, BaseTypes DEF JournalTells
<1>4. mark \in Nat /\ floor <= mark
    <2>1. mark # None /\ (mark >= Here \/ ~(floor > mark))
        BY <1>1 DEF Decision, Untrusted, Here
    <2> QED
        BY <1>2, <1>3, <2>1
<1>5. rows = {r \in journal.log : EntityModel[r.e] = CollModel[c] /\ r.id > mark /\ r.e = e}
    BY DEF ReadRows, RowModel
<1>6. CASE rows = {}
    <2>1. Replayed(c, e) = store[c][e]
        BY <1>1, <1>6 DEF Replayed, Base, Durable
    <2>2. CASE e \notin Mine(c)
        <3>1. Len(log) \in Here .. Len(log) /\ RowAt(c, e, Len(log)) = store[c][e]
            BY <1>1, <1>2, <2>2
        <3> QED
            BY <2>1, <3>1 DEF CurrentThrough
    <2>3. CASE e \in Mine(c)
        <3>1. ~\E r \in journal.log : r.e = e /\ r.id > mark
            BY <1>5, <1>6, <2>3 DEF Mine
        <3>2. Shows(c, e, store[c][e], MaxSyncId(mark, Here))
            BY <1>2, <1>4, <2>3, <3>1 DEF Covering
        <3>3. PICK t \in MaxSyncId(mark, Here) .. Len(log) : store[c][e] = RowAt(c, e, t)
            BY <3>2 DEF Shows
        <3>4. t \in Here .. Len(log)
            BY <1>2, <1>4, <3>3 DEF MaxSyncId
        <3> QED
            BY <2>1, <3>3, <3>4 DEF CurrentThrough
    <2> QED
        BY <2>2, <2>3
<1>7. CASE rows # {}
    <2> PICK newest : newest = CHOOSE r \in rows : \A x \in rows : x.id <= r.id
        OBVIOUS
    <2>1. PICK r \in rows : TRUE
        BY <1>7
    <2>2. r \in journal.log /\ EntityModel[r.e] = CollModel[c] /\ r.id > mark /\ r.e = e
        BY <1>5
    <2>3. PICK y \in journal.log : y.e = r.e /\ y.id >= r.id /\ \A z \in journal.log : z.e = r.e => z.id <= y.id
        BY <1>3, <2>2, NewestRow
    <2>4. y \in rows /\ \A x \in rows : x.id <= y.id
        BY <1>3, <1>4, <1>5, <2>2, <2>3
    <2>5. newest \in rows /\ \A x \in rows : x.id <= newest.id
        BY <2>4
    <2>6. newest \in journal.log /\ newest.e = e /\ ~\E z \in journal.log : z.e = newest.e /\ z.id > newest.id
        BY <1>3, <1>5, <2>2, <2>3, <2>4, <2>5
    <2>7. newest.id >= Here \/ Quiet(e, newest.id, Here)
        <3>1. newest.id <= Here => Quiet(newest.e, newest.id, Here)
            BY <1>2, <1>3, <2>6 DEF JournalTells
        <3>2. newest.id \in Nat
            BY <1>3, <2>6
        <3> QED
            BY <1>2, <2>6, <3>1, <3>2
    <2>8. RowTells(newest) /\ rows \in SUBSET Row
        BY <1>3, <1>5, <2>6
    <2>9. Replayed(c, e) = IF newest.tag = "Upsert" /\ InScope(c, e, newest.home) THEN newest.w ELSE Absent
        BY <1>1, <1>7 DEF Replayed
    <2> QED
        BY <1>2, <2>5, <2>6, <2>7, <2>8, <2>9, AppliedRows
<1> QED
    BY <1>6, <1>7

\* A collection that has taken all it was handed shows what the invariant says it covers.
LEMMA DeliverySoundHolds ==
    ASSUME Base, CoverageInv
    PROVE  DeliverySound
<1>1. SUFFICES ASSUME OnTimeline, ingest.state # "Recovering", NEW c \in Collections,
                      sub[c].pc \in {"idle", "land", "ack"}, ~SnapshotDue(c), NEW e \in Entities,
                      NEW rows, rows = {r \in Outstanding(c) : r.e = e},
                      NEW newest, newest = CHOOSE r \in rows : \A x \in rows : x.id <= r.id
               PROVE  (IF rows = {} THEN store[c][e]
                       ELSE IF newest.tag = "Upsert" /\ InScope(c, e, newest.home) THEN newest.w ELSE Absent)
                          \in CurrentThrough(c, e, Here)
    BY DEF DeliverySound, Here
<1> DEFINE s == sub[c]
<1>2. /\ OnLog /\ LogOK /\ Here \in Nat /\ Len(log) \in Nat /\ Here <= Len(log)
      /\ \A x \in Entities \ Mine(c) : store[c][x] = Absent /\ \A t : RowAt(c, x, t) = Absent
    BY <1>1, Currency
<1>3. /\ s.snap = None /\ (s.pc = "land" => s.sig.kind = "Event") /\ \A k \in Queued(c) : s.queue[k].kind = "Event"
    BY <1>1 DEF SnapshotDue, Queued
<1>4. InTune(c)
    <2>1. ~(ingest.pc \in {"wipe", "tell"} \/ Owed)
        BY <1>1 DEF Owed, CoverageInv, WorkTells
    <2>2. Serving(c)
        BY SMTT(40), <1>1 DEF Serving
    <2> QED
        BY <1>2, <2>1, <2>2 DEF CoverageInv, Serves
<1>5. InStep(c)
    BY <1>3, <1>4 DEF InTune, CalledAt
<1>6. Controls(c) = {} /\ ~Unlisted(c) /\ Table(c) = store[c] /\ (Landing(c) <=> s.pc = "land")
    <2>1. Controls(c) = {}
        BY <1>3 DEF Controls
    <2>2. ~Listing(c) /\ (Landing(c) <=> s.pc = "land")
        BY <1>3 DEF Listing, Landing
    <2> QED
        BY <1>1, <1>3, <2>1, <2>2 DEF Unlisted, Table
<1>7. Outstanding(c) = Handed(c)
    <2>1. /\ s.guard \in Nat /\ \A k \in Queued(c) : s.queue[k].row.id \in Nat /\ s.queue[k].gen = generation
          /\ Len(s.queue) \in Nat /\ \A k \in Queued(c) : \A j \in 1 .. k - 1 : j \in Queued(c)
        BY <1>5, SubscriberTypes DEF InStep, Queued
    <2>2. Unheard(c) = Live(c)
        <3>1. ASSUME NEW k \in Queued(c)
              PROVE  /\ IsStale(s.guard, s.queue[k].kind, s.queue[k].row.id) <=> ~(s.guard < s.queue[k].row.id)
                     /\ \A j \in 1 .. k - 1 :
                          IsStale(s.queue[j].row.id, s.queue[k].kind, s.queue[k].row.id)
                              <=> ~(s.queue[j].row.id < s.queue[k].row.id)
            <4> PICK n \in Nat, top \in Nat : n = s.queue[k].row.id /\ top = s.guard
                BY <2>1, <3>1
            <4>1. s.queue[k].kind = "Event" /\ \A j \in 1 .. k - 1 : s.queue[j].row.id \in Nat
                BY <1>3, <2>1, <3>1
            <4>2. \A i \in Nat : IsStale(i, "Event", n) <=> ~(i < n)
                BY DEF IsStale
            <4> QED
                BY <4>1, <4>2
        <3>2. Unheard(c) = {k \in Queued(c) :
                    /\ s.guard < s.queue[k].row.id
                    /\ \A j \in 1 .. k - 1 : s.queue[j].row.id < s.queue[k].row.id}
            BY <2>1, <3>1 DEF Unheard, Queued
        <3>3. Live(c) = {k \in Queued(c) :
                    /\ s.guard < s.queue[k].row.id
                    /\ \A j \in 1 .. k - 1 : s.queue[j].row.id < s.queue[k].row.id}
            BY <1>3, <1>6, <2>1 DEF Live
        <3> QED
            BY <3>2, <3>3
    <2> QED
        BY <1>6, <2>2 DEF Outstanding, Handed
<1>8. /\ \A r \in Handed(c) : r \in Row /\ r.id \in Nat /\ RowTells(r) /\ r.e \in Mine(c)
      /\ \A x \in Mine(c) : Covered(c, x, Handed(c), Unlisted(c), store[c], Here)
    <2>1. \A r \in Handed(c) : r \in Row /\ r.id \in Nat /\ RowTells(r)
        BY <1>2, <1>4, HandedFacts
    <2> QED
        BY <1>4, <1>6, <2>1 DEF InTune, Covers
<1>9. CASE rows = {}
    <2>1. CASE e \notin Mine(c)
        <3>1. Len(log) \in Here .. Len(log) /\ RowAt(c, e, Len(log)) = store[c][e]
            BY <1>1, <1>2, <2>1
        <3> QED
            BY <1>9, <3>1 DEF CurrentThrough
    <2>2. CASE e \in Mine(c)
        <3>1. \A r \in Handed(c) : r.e # e
            BY <1>1, <1>7, <1>9
        <3>2. Shows(c, e, store[c][e], Here)
            BY <1>6, <1>8, <2>2, <3>1 DEF Covered
        <3> QED
            BY <1>9, <3>2 DEF Shows, CurrentThrough
    <2> QED
        BY <2>1, <2>2
<1>10. CASE rows # {}
    <2>1. rows \in SUBSET Row /\ \A r \in rows : r \in Handed(c) /\ r.e = e /\ r.id \in 1 .. Len(log)
        BY <1>1, <1>7, <1>8 DEF RowTells, Placed
    <2>2. \E y \in rows : \A x \in rows : x.id <= y.id
        <3> DEFINE ids == {r.id : r \in rows}
        <3>1. ids \in SUBSET (1 .. Len(log)) /\ ids # {} /\ ids \in SUBSET Nat
            BY <1>10, <2>1
        <3>2. IsFiniteSet(ids)
            <4>1. IsFiniteSet(1 .. Len(log))
                BY <1>2, FS_Interval
            <4> QED
                BY <3>1, <4>1, FS_Subset
        <3>3. PICK i \in ids : \A j \in ids : i >= j
            BY <3>1, <3>2, GreatestPosition
        <3> QED
            BY <3>3
    <2>3. newest \in rows /\ \A x \in rows : x.id <= newest.id
        BY <1>1, <2>2
    <2>4. Newest(Handed(c), newest)
        BY <1>1, <1>7, <2>1, <2>3 DEF Newest
    <2>5. newest.id >= Here \/ Quiet(e, newest.id, Here)
        BY <1>8, <2>1, <2>3, <2>4 DEF Covered
    <2> QED
        BY <1>2, <1>8, <1>10, <2>1, <2>3, <2>5, AppliedRows
<1> QED
    BY <1>9, <1>10

\* What the theorems below ask of TanStack is what the drain would have if it waited for
\* the commit of its rows.
LEMMA AwaitedRowsAreDurable ==
    ASSUME "unawaited-commit" \notin Windows
    PROVE  Spec => []Durable
<1>1. Init => Durable
    BY DEF Init, Durable
<1>2. Durable /\ [Next]_vars => Durable'
    <2>1. SUFFICES ASSUME Durable, [Next]_vars PROVE Durable'
        OBVIOUS
    <2>2. ASSUME NEW c \in Collections, Land(c) PROVE Durable'
        <3>1. /\ store' = [store EXCEPT ![c] = Landed(c, sub[c])]
              /\ disk' = [disk EXCEPT ![c] = Landed(c, sub[c])]
            BY <2>2 DEF Land, Commit
        <3> QED
            BY <2>1, <3>1 DEF Durable
    <2>3. CASE Crash
        BY <2>1, <2>3 DEF Crash, Durable
    <2>4. ASSUME NEW c \in Collections, Unmount(c) \/ Mount(c) \/ Attach(c) \/ Drain(c), ~Land(c)
          PROVE  UNCHANGED <<store, disk>>
        BY <2>4 DEF Unmount, Mount, Attach, Drain, ReadMark, ReadFloor, ReadJournal, TakeReplay, TakeTail, ListServer, Ack
    <2>5. \/ UNCHANGED <<store, disk>> \/ Crash
          \/ \E c \in Collections : Unmount(c) \/ Mount(c) \/ Attach(c) \/ Drain(c)
        BY <2>1 DEF Next, vars, ServerWrites, Write, BulkChange, Expire, Restore, Serve, ServeList, ServeHydrate,
           Start, Fail, Stop, Run, Accept, AppendChunk, PublishRow, AdvanceIngested, FlushBeforePrune, PruneRead,
           PruneCommit, Recover, BeginRecovery, WipeJournal, TellRecovery, TimedFlush, Disturb
    <2> QED
        BY <2>1, <2>2, <2>3, <2>4, <2>5 DEF Durable
<1> QED
    BY <1>1, <1>2, PTL DEF Spec

\* While the race windows are closed and synced rows are durable, a last-applied mark
\* never claims a row the table does not show (last-applied.ts, subscribe.ts), whatever
\* is lost, repeated, expired or restored, wherever the client crashes or a recovery is
\* cut short.
THEOREM MarksNeverOverclaim ==
    ASSUME Windows \subseteq {"unawaited-commit"}
    PROVE  Spec /\ []Durable => []CoverageSound
<1>1. Base /\ CoverageInv => CoverageSound
    BY CoverageSoundHolds
<1> QED
    BY <1>1, CoverageHolds, PTL

\* If TanStack's commits are durable - no reachable state has a synced row that SQLite
\* lacks, which the drain does not wait for - a crash at any moment loses nothing: a mount
\* that trusts its table and replays the journal (mount-plan.ts) ends current through the
\* cursor.  Without []Durable it is false: a flushed mark outlives its rows.
THEOREM DurableRowsSurviveACrash ==
    ASSUME Windows \subseteq {"unawaited-commit"}
    PROVE  Spec /\ []Durable => []RemountSound
<1>1. Base /\ CoverageInv => RemountSound
    BY RemountSoundHolds
<1> QED
    BY <1>1, CoverageHolds, PTL

\* While synced rows are durable, no event falls between reading the journal and tailing
\* the bus, or between a recovery and its fanout (subscribe.ts, sync-broker.ts).
THEOREM NoEventIsDropped ==
    ASSUME Windows \subseteq {"unawaited-commit"}
    PROVE  Spec /\ []Durable => []DeliverySound
<1>1. Base /\ CoverageInv => DeliverySound
    BY DeliverySoundHolds
<1> QED
    BY <1>1, CoverageHolds, PTL
==============================================================================
