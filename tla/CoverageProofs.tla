---------------------------- MODULE CoverageProofs ----------------------------
(* The invariant of Coverage, over the steps of the broker: what a longer log, *)
(* a batch on its way and the journal say of every entity, the steps of the    *)
(* ingest fiber and of an attachment field by field, the generations,          *)
(* positions and mounts that no step leaves behind, and what prunes and marks  *)
(* go on telling.                                                              *)
EXTENDS Coverage, SyncBrokerProofs

-----------------------------------------------------------------------------
(* The log *)

\* The entry of e at n is event n if that is about e, and the entry before otherwise.
LEMMA EntryStep ==
    ASSUME log \in Seq(Entry), NEW e, NEW n \in 1 .. Len(log)
    PROVE  EntryAt(e, n) = IF log[n].e = e THEN log[n] ELSE EntryAt(e, n - 1)
<1> DEFINE at(t) == {k \in 1 .. t : log[k].e = e}
<1>1. CASE log[n].e = e
    <2>1. at(n) \in SUBSET Nat /\ n \in at(n) /\ \A k \in at(n) : k <= n
        BY <1>1
    <2>2. IsFiniteSet(at(n))
        <3>1. n \in Int
            OBVIOUS
        <3>2. IsFiniteSet(1 .. n)
            BY <3>1, FS_Interval
        <3> QED
            BY <3>2, FS_Subset
    <2>3. Max(at(n)) \in at(n) /\ \A k \in at(n) : Max(at(n)) >= k
        <3>1. at(n) # {}
            BY <2>1
        <3> HIDE DEF at
        <3> QED
            BY <2>1, <2>2, <3>1, MaxOfPositions
    <2>4. Max(at(n)) = n
        <3> HIDE DEF at
        <3> QED
            BY <2>1, <2>3
    <2> QED
        BY <1>1, <2>1, <2>4 DEF EntryAt
<1>2. CASE log[n].e # e
    <2>1. at(n) = at(n - 1)
        BY <1>2
    <2> QED
        BY <1>2, <2>1 DEF EntryAt
<1> QED
    BY <1>1, <1>2

\* Nothing exists before the first event.
LEMMA EntryZero ==
    ASSUME NEW e
    PROVE  GoneAt(e, 0)
BY DEF GoneAt, EntryAt

\* Events of others do not change the entry of e.
LEMMA UntouchedSame ==
    ASSUME log \in Seq(Entry), NEW e, NEW i \in Nat, NEW k \in i .. Len(log), Untouched(e, i, k)
    PROVE  EntryAt(e, k) = EntryAt(e, i)
<1>1. {n \in 1 .. k : log[n].e = e} = {n \in 1 .. i : log[n].e = e}
    BY DEF Untouched
<1> QED
    BY <1>1 DEF EntryAt

\* Where a property of positions changes between i and k, it changes at some position.
LEMMA FirstChange ==
    ASSUME NEW i \in Nat, NEW k \in Nat, i <= k, NEW S, i \in S, k \notin S
    PROVE  \E n \in i + 1 .. k : n - 1 \in S /\ n \notin S
<1> DEFINE Out == {n \in i .. k : n \notin S}
<1>1. Out \in SUBSET Nat /\ Out # {}
    OBVIOUS
<1>2. PICK n \in Out : \A m \in Out : n <= m
    BY <1>1, LeastPosition
<1>3. n # i /\ n \in i + 1 .. k
    BY <1>2
<1>4. n - 1 \in i .. k /\ n - 1 \notin Out
    BY <1>2, <1>3
<1> QED
    BY <1>2, <1>3, <1>4

\* Between two positions without a bulk change an entity appears by an insert ...
LEMMA Appears ==
    ASSUME log \in Seq(Entry), LogTags, NEW e, NEW i \in Nat, NEW k \in i .. Len(log),
           Plain(i, k), GoneAt(e, i), ~GoneAt(e, k)
    PROVE  \E n \in i + 1 .. k : Is(n, e, "Insert")
<1> DEFINE S == {n \in i .. k : GoneAt(e, n)}
<1>1. PICK n \in i + 1 .. k : n - 1 \in S /\ n \notin S
    <2>1. i \in S /\ k \notin S /\ i <= k /\ k \in Nat
        OBVIOUS
    <2> HIDE DEF S
    <2> QED
        BY <2>1, FirstChange
<1>2. n \in 1 .. Len(log) /\ GoneAt(e, n - 1) /\ ~GoneAt(e, n)
    BY <1>1
<1>3. log[n].e = e /\ log[n].home # Gone
    BY <1>2, EntryStep DEF GoneAt
<1>4. log[n].tag # "Resync"
    BY <1>1 DEF Plain
<1> QED
    BY <1>1, <1>2, <1>3, <1>4 DEF LogTags, Is

\* ... and disappears by a delete.
LEMMA Disappears ==
    ASSUME log \in Seq(Entry), LogTags, NEW e, NEW i \in Nat, NEW k \in i .. Len(log),
           Plain(i, k), ~GoneAt(e, i), GoneAt(e, k)
    PROVE  \E n \in i + 1 .. k : Is(n, e, "Delete")
<1> DEFINE S == {n \in i .. k : ~GoneAt(e, n)}
<1>1. PICK n \in i + 1 .. k : n - 1 \in S /\ n \notin S
    <2>1. i \in S /\ k \notin S /\ i <= k /\ k \in Nat
        OBVIOUS
    <2> HIDE DEF S
    <2> QED
        BY <2>1, FirstChange
<1>2. n \in 1 .. Len(log) /\ ~GoneAt(e, n - 1) /\ GoneAt(e, n)
    BY <1>1
<1>3. log[n].e = e /\ log[n].home = Gone
    BY <1>2, EntryStep DEF GoneAt
<1>4. log[n].tag # "Resync"
    BY <1>1 DEF Plain
<1> QED
    BY <1>1, <1>2, <1>3, <1>4 DEF LogTags, Is

\* One more event changes nothing that was decided before it.
LEMMA LogGrows ==
    ASSUME log \in Seq(Entry), NEW x \in Entry, log' = Append(log, x)
    PROVE  /\ Len(log') = Len(log) + 1 /\ log'[Len(log) + 1] = x
           /\ \A n \in 1 .. Len(log) : log'[n] = log[n]
           /\ \A e, t : t \in 0 .. Len(log) => EntryAt(e, t)' = EntryAt(e, t)
<1>1. /\ Len(log') = Len(log) + 1 /\ log'[Len(log) + 1] = x
      /\ \A n \in 1 .. Len(log) : log'[n] = log[n]
    OBVIOUS
<1>2. ASSUME NEW e, NEW t \in 0 .. Len(log)
      PROVE  EntryAt(e, t)' = EntryAt(e, t)
    <2> DEFINE S == {n \in 1 .. t : log[n].e = e}
    <2>1. {n \in 1 .. t : log'[n].e = e} = S
        BY <1>1
    <2>2. S # {} => Max(S) \in 1 .. t
        <3>1. IsFiniteSet(1 .. t)
            BY FS_Interval
        <3>2. S \in SUBSET Nat /\ S \subseteq 1 .. t /\ IsFiniteSet(S)
            BY <3>1, FS_Subset
        <3> HIDE DEF S
        <3> QED
            BY <3>2, MaxOfPositions
    <2>3. S # {} => log'[Max(S)] = log[Max(S)]
        BY <1>1, <2>2
    <2>4. EntryAt(e, t)' = IF S = {} THEN [e |-> e, tag |-> "Delete", home |-> Gone, w |-> 0]
                           ELSE log'[Max(S)]
        BY <2>1 DEF EntryAt
    <2>5. EntryAt(e, t) = IF S = {} THEN [e |-> e, tag |-> "Delete", home |-> Gone, w |-> 0]
                          ELSE log[Max(S)]
        BY DEF EntryAt
    <2> HIDE DEF S
    <2> QED
        BY <2>3, <2>4, <2>5
<1> QED
    BY <1>1, <1>2

-----------------------------------------------------------------------------
(* What a table shows *)

LogOK == log \in Seq(Entry) /\ LogTags /\ Here \in Nat

\* Quiet stretches join.
LEMMA QuietJoins ==
    ASSUME LogOK, NEW e, NEW i \in Nat, NEW j \in i .. Len(log), NEW k \in j .. Len(log),
           Quiet(e, i, j), Quiet(e, j, k)
    PROVE  Quiet(e, i, k)
<1>1. Untouched(e, i, j) => EntryAt(e, i) = EntryAt(e, j)
    BY UntouchedSame DEF LogOK
<1>2. Untouched(e, j, k) => EntryAt(e, j) = EntryAt(e, k)
    BY UntouchedSame DEF LogOK
<1>3. Untouched(e, i, j) /\ Untouched(e, j, k) => Untouched(e, i, k)
    BY DEF Untouched
<1> QED
    BY <1>1, <1>2, <1>3 DEF Quiet, GoneAt

\* A row shown at i is shown at k if nothing happens to its entity in between.
LEMMA ShowsOn ==
    ASSUME LogOK, NEW c, NEW e, NEW v, NEW i \in Here .. Len(log), NEW k \in i .. Len(log),
           Untouched(e, i, k), Shows(c, e, v, i)
    PROVE  Shows(c, e, v, k)
<1>1. PICK t \in i .. Len(log) :
          v = RowAt(c, e, t) /\ (v = Absent \/ (Safe(e, Here, t) /\ Safe(e, i, t)))
    BY DEF Shows
<1>2. Here \in Nat /\ i \in Nat /\ k \in Nat /\ t \in Nat
    BY DEF LogOK
<1>3. EntryAt(e, k) = EntryAt(e, i)
    BY <1>2, UntouchedSame DEF LogOK
<1>4. CASE t >= k
    <2>1. Safe(e, i, t) => Safe(e, k, t)
        BY <1>2, <1>3 DEF Safe, GoneAt
    <2> QED
        BY <1>1, <1>2, <1>4, <2>1 DEF Shows
<1>5. CASE t < k
    <2>1. EntryAt(e, t) = EntryAt(e, i)
        <3>1. Untouched(e, i, t)
            BY <1>2, <1>5 DEF Untouched
        <3> QED
            BY <1>1, <1>2, <3>1, UntouchedSame DEF LogOK
    <2>2. v = RowAt(c, e, k)
        BY <1>1, <1>3, <2>1 DEF RowAt
    <2>3. Safe(e, k, k)
        BY <1>2 DEF Safe
    <2>4. ASSUME Safe(e, Here, t) PROVE Safe(e, Here, k)
        <3>1. SUFFICES ASSUME GoneAt(e, Here), NEW n \in Here + 1 .. k, NEW d \in k + 1 .. Len(log),
                              Is(n, e, "Insert"), Is(d, e, "Delete")
                       PROVE  FALSE
            BY DEF Safe
        <3>2. n <= i
            BY <1>2, <3>1 DEF Untouched, Is
        <3> QED
            BY <1>1, <1>2, <1>5, <2>4, <3>1, <3>2 DEF Safe
    <2> QED
        BY <1>1, <1>2, <2>2, <2>3, <2>4 DEF Shows
<1> QED
    BY <1>1, <1>2, <1>4, <1>5

\* So is one of an entity that is gone at both ends of a batch.
LEMMA ShowsOnGone ==
    ASSUME LogOK, NEW c, NEW e, NEW v, NEW h \in Here .. Len(log),
           NEW i \in Here .. Len(log), NEW k \in i .. h,
           Plain(Here, h), GoneAt(e, Here), GoneAt(e, h), Shows(c, e, v, i)
    PROVE  Shows(c, e, v, k)
<1>1. PICK t \in i .. Len(log) :
          v = RowAt(c, e, t) /\ (v = Absent \/ (Safe(e, Here, t) /\ Safe(e, i, t)))
    BY DEF Shows
<1>2. Here \in Nat /\ i \in Nat /\ k \in Nat /\ t \in Nat /\ h \in Nat
    BY DEF LogOK
<1>3. CASE t >= k
    <2>1. Safe(e, Here, t) => Safe(e, k, t)
        BY <1>2 DEF Safe
    <2> QED
        BY <1>1, <1>2, <1>3, <2>1 DEF Shows
<1>4. CASE t < k
    <2>1. RowAt(c, e, h) = Absent
        BY DEF RowAt, InScope, GoneAt
    <2>2. CASE v = Absent
        BY <1>2, <2>1, <2>2 DEF Shows
    <2>3. CASE v # Absent
        <3>1. ~GoneAt(e, t)
            BY <1>1, <2>3 DEF RowAt, InScope, GoneAt
        <3>2. Plain(Here, t) /\ Plain(t, h)
            BY <1>1, <1>2, <1>4 DEF Plain
        <3>3. PICK n \in Here + 1 .. t : Is(n, e, "Insert")
            BY <1>1, <1>2, <3>1, <3>2, Appears DEF LogOK
        <3>4. PICK d \in t + 1 .. h : Is(d, e, "Delete")
            BY <1>1, <1>2, <1>4, <3>1, <3>2, Disappears DEF LogOK
        <3> QED
            BY <1>1, <1>2, <2>3, <3>3, <3>4 DEF Safe
    <2> QED
        BY <2>2, <2>3
<1> QED
    BY <1>2, <1>3, <1>4

\* What is shown at k is shown at an earlier i with nothing in between.
LEMMA ShowsBack ==
    ASSUME LogOK, NEW c, NEW e, NEW v, NEW i \in Here .. Len(log), NEW k \in i .. Len(log),
           Untouched(e, i, k) \/ GoneAt(e, Here), Shows(c, e, v, k)
    PROVE  Shows(c, e, v, i)
<1>1. PICK t \in k .. Len(log) :
          v = RowAt(c, e, t) /\ (v = Absent \/ (Safe(e, Here, t) /\ Safe(e, k, t)))
    BY DEF Shows
<1>2. Here \in Nat /\ i \in Nat /\ k \in Nat /\ t \in Nat
    BY DEF LogOK
<1>3. ASSUME Safe(e, Here, t), Safe(e, k, t) PROVE Safe(e, i, t)
    <2>1. CASE GoneAt(e, Here)
        BY <1>2, <1>3, <2>1 DEF Safe
    <2>2. CASE Untouched(e, i, k)
        <3>1. EntryAt(e, k) = EntryAt(e, i)
            BY <1>2, <2>2, UntouchedSame DEF LogOK
        <3>2. SUFFICES ASSUME GoneAt(e, i), NEW n \in i + 1 .. t, NEW d \in t + 1 .. Len(log),
                              Is(n, e, "Insert"), Is(d, e, "Delete")
                       PROVE  FALSE
            BY DEF Safe
        <3>3. n \in k + 1 .. t
            BY <1>2, <2>2, <3>2 DEF Untouched, Is
        <3> QED
            BY <1>3, <3>1, <3>2, <3>3 DEF Safe, GoneAt
    <2> QED
        BY <2>1, <2>2
<1> QED
    BY <1>1, <1>2, <1>3 DEF Shows

\* The table's row after r has landed.
LandedRow(c, r) == IF r.tag = "Upsert" /\ InScope(c, r.e, r.home) THEN r.w ELSE Absent

\* A row that tells the state at t leaves what listFn would return at t.
LEMMA TellsValue ==
    ASSUME NEW c \in Collections, NEW r \in Row, NEW t, TellsAt(r, t)
    PROVE  LandedRow(c, r) = RowAt(c, r.e, t) /\ (r.tag = "Delete" => LandedRow(c, r) = Absent)
<1>1. r.tag \in {"Upsert", "Delete"}
    BY DEF Row
<1> QED
    BY <1>1 DEF TellsAt, LandedRow, RowAt, InScope, GoneAt

\* A row is true of a position at or after m when it lies there or nothing happened since.
LEMMA RowReaches ==
    ASSUME LogOK, NEW r \in Row, RowTells(r), NEW m \in 0 .. Len(log),
           r.id >= m \/ Quiet(r.e, r.id, m)
    PROVE  \E t \in m .. Len(log) : t >= r.id /\ TellsAt(r, t)
<1>1. PICK h \in r.id .. Len(log) : TellsAt(r, h)
    BY DEF RowTells
<1>2. r.id \in 1 .. Len(log) /\ (GoneAt(r.e, r.id) => r.tag = "Delete") /\ r.id \in Nat /\ h \in Nat /\ m \in Nat
    BY DEF RowTells, Placed, Row, SyncId
<1>3. CASE h >= m
    BY <1>1, <1>2, <1>3
<1>4. CASE h < m /\ Untouched(r.e, r.id, m)
    <2>1. Untouched(r.e, h, m)
        BY <1>1, <1>2, <1>4 DEF Untouched
    <2>2. EntryAt(r.e, m) = EntryAt(r.e, h)
        BY <1>1, <1>2, <1>4, <2>1, UntouchedSame DEF LogOK
    <2> QED
        BY <1>1, <1>2, <1>4, <2>2 DEF TellsAt, GoneAt
<1>5. CASE h < m /\ GoneAt(r.e, r.id) /\ GoneAt(r.e, m)
    BY <1>1, <1>2, <1>5 DEF TellsAt
<1> QED
    BY <1>1, <1>2, <1>3, <1>4, <1>5 DEF Quiet

\* Landing a row makes the table show its entity.
LEMMA RowShown ==
    ASSUME LogOK, NEW c \in Collections, NEW r \in Row, RowTells(r), NEW m \in Here .. Len(log),
           r.id >= Here \/ Quiet(r.e, r.id, Here), r.id >= m \/ Quiet(r.e, r.id, m),
           r.id <= m \/ m = Here,
           r.id > Here => Safe(r.e, Here, r.id) /\ Plain(Here, r.id)
    PROVE  Shows(c, r.e, LandedRow(c, r), m)
<1>1. Here \in Nat /\ m \in Nat /\ r.id \in 1 .. Len(log) /\ log[r.id].e = r.e
      /\ (GoneAt(r.e, r.id) => r.tag = "Delete")
    BY DEF LogOK, RowTells, Placed
<1>2. PICK t \in m .. Len(log) : t >= r.id /\ TellsAt(r, t)
    BY <1>1, RowReaches
<1>3. LandedRow(c, r) = RowAt(c, r.e, t) /\ (r.tag = "Delete" => LandedRow(c, r) = Absent)
    BY <1>2, TellsValue
<1>4. CASE r.tag = "Delete"
    BY <1>2, <1>3, <1>4 DEF Shows
<1>5. CASE r.tag # "Delete"
    <2>1. ~GoneAt(r.e, r.id)
        BY <1>1, <1>5
    <2>2. ASSUME NEW i \in Here .. Len(log), r.id <= i, r.id >= i \/ Quiet(r.e, r.id, i)
          PROVE  ~GoneAt(r.e, i)
        <3>1. i \in Nat
            BY <1>1
        <3>2. Untouched(r.e, r.id, i) => EntryAt(r.e, i) = EntryAt(r.e, r.id)
            BY <1>1, <2>2, <3>1, UntouchedSame DEF LogOK
        <3> QED
            BY <1>1, <2>1, <2>2, <3>1, <3>2 DEF Quiet, GoneAt
    <2>3. Safe(r.e, Here, t)
        <3>1. CASE r.id <= Here
            <4>1. Here \in Here .. Len(log)
                BY <1>1
            <4> QED
                BY <2>2, <3>1, <4>1 DEF Safe
        <3>2. CASE r.id > Here
            <4>1. SUFFICES ASSUME GoneAt(r.e, Here), NEW n \in Here + 1 .. t, NEW d \in t + 1 .. Len(log),
                                  Is(n, r.e, "Insert"), Is(d, r.e, "Delete")
                           PROVE  FALSE
                BY DEF Safe
            <4>2. PICK k \in Here + 1 .. r.id : Is(k, r.e, "Insert")
                BY SMTT(40), <1>1, <2>1, <3>2, <4>1, Appears DEF LogOK
            <4>3. d \in r.id + 1 .. Len(log)
                BY <1>1, <1>2, <4>1
            <4> QED
                BY <3>2, <4>1, <4>2, <4>3 DEF Safe
        <3> QED
            BY <1>1, <3>1, <3>2
    <2>4. Safe(r.e, m, t)
        <3>1. CASE m = Here
            BY <2>3, <3>1
        <3>2. CASE r.id <= m
            BY <2>2, <3>2 DEF Safe
        <3> QED
            BY <3>1, <3>2
    <2> QED
        BY <1>2, <1>3, <2>3, <2>4 DEF Shows
<1> QED
    BY <1>4, <1>5
-----------------------------------------------------------------------------
(* What rows say about a table *)

PlacedRows(e, rows) == \A r \in rows : r.e = e => r \in Row /\ Placed(r)

\* An entity that nothing happened to between i and k is as current at k as it was at i.
LEMMA CoveredOn ==
    ASSUME LogOK, NEW c, NEW e, NEW rows, NEW unlisted, NEW table,
           NEW i \in Here .. Len(log), NEW k \in i .. Len(log),
           PlacedRows(e, rows), Untouched(e, i, k),
           Covered(c, e, rows, unlisted, table, i)
    PROVE  Covered(c, e, rows, unlisted, table, k)
<1>1. Here \in Nat /\ i \in Nat /\ k \in Nat
    BY DEF LogOK
<1>2. ASSUME NEW r \in rows, r.e = e, Newest(rows, r)
      PROVE  r.id >= k \/ Quiet(e, r.id, k)
    <2>1. r.id \in 1 .. Len(log) /\ log[r.id].e = e
        BY <1>2 DEF PlacedRows, Placed
    <2>2. r.id >= i \/ Quiet(e, r.id, i)
        BY <1>2 DEF Covered
    <2>3. CASE r.id < i
        <3>1. Quiet(e, i, k)
            BY DEF Quiet
        <3> QED
            BY <1>1, <2>1, <2>2, <2>3, <3>1, QuietJoins
    <2>4. CASE r.id >= i
        <3>1. r.id > i /\ r.id <= k => FALSE
            BY <1>1, <2>1 DEF Untouched
        <3> QED
            BY <1>1, <2>1, <2>4, <3>1 DEF Quiet
    <2> QED
        BY <1>1, <2>1, <2>3, <2>4
<1>3. ASSUME \A r \in rows : r.e # e
      PROVE  unlisted \/ Shows(c, e, table[e], k)
    <2>1. unlisted \/ Shows(c, e, table[e], i)
        BY <1>3 DEF Covered
    <2> QED
        BY <2>1, ShowsOn
<1> QED
    BY <1>2, <1>3 DEF Covered

\* So is one that was gone before a batch and is gone after it.
LEMMA CoveredOnGone ==
    ASSUME LogOK, NEW c, NEW e, NEW rows, NEW unlisted, NEW table,
           NEW h \in Here .. Len(log), Plain(Here, h), GoneAt(e, Here), GoneAt(e, h),
           PlacedRows(e, rows), \A r \in rows : r.e = e /\ r.id > Here => Safe(e, Here, r.id),
           Covered(c, e, rows, unlisted, table, Here)
    PROVE  Covered(c, e, rows, unlisted, table, h)
<1>1. Here \in Nat /\ h \in Nat /\ Here \in Here .. Len(log)
    BY DEF LogOK
<1>2. ASSUME NEW r \in rows, r.e = e, Newest(rows, r)
      PROVE  r.id >= h \/ Quiet(e, r.id, h)
    <2>1. r.id \in 1 .. Len(log) /\ log[r.id].e = e
        BY <1>2 DEF PlacedRows, Placed
    <2>2. r.id >= Here \/ Quiet(e, r.id, Here)
        BY <1>2 DEF Covered
    <2>3. CASE r.id <= Here
        <3>1. Quiet(e, Here, h)
            BY DEF Quiet
        <3>2. Quiet(e, r.id, Here)
            BY <1>1, <2>1, <2>2, <2>3 DEF Quiet, Untouched
        <3> QED
            BY <1>1, <2>1, <2>3, <3>1, <3>2, QuietJoins
    <2>4. CASE r.id > Here /\ r.id < h
        <3>1. Plain(Here, r.id) /\ Plain(r.id, h)
            BY <1>1, <2>1, <2>4 DEF Plain
        <3>2. ASSUME ~GoneAt(e, r.id) PROVE FALSE
            <4>1. PICK n \in Here + 1 .. r.id : Is(n, e, "Insert")
                BY <1>1, <2>1, <2>4, <3>1, <3>2, Appears DEF LogOK
            <4>2. PICK d \in r.id + 1 .. h : Is(d, e, "Delete")
                BY <1>1, <2>1, <2>4, <3>1, <3>2, Disappears DEF LogOK
            <4>3. Safe(e, Here, r.id)
                BY <1>2, <2>4
            <4> QED
                BY <1>1, <4>1, <4>2, <4>3 DEF Safe
        <3> QED
            BY <3>2 DEF Quiet
    <2> QED
        BY <1>1, <2>1, <2>3, <2>4
<1>3. ASSUME \A r \in rows : r.e # e
      PROVE  unlisted \/ Shows(c, e, table[e], h)
    <2>1. unlisted \/ Shows(c, e, table[e], Here)
        BY <1>3 DEF Covered
    <2>2. h \in Here .. h
        BY <1>1
    <2> QED
        BY <1>1, <2>1, <2>2, ShowsOnGone
<1> QED
    BY <1>2, <1>3 DEF Covered

\* What is current through h is current through an earlier event m that h settles.
LEMMA CoveredBack ==
    ASSUME LogOK, NEW c, NEW e, NEW rows, NEW unlisted, NEW table,
           NEW h \in Here .. Len(log), NEW m \in Here + 1 .. h,
           \/ Untouched(e, m, h)
           \/ GoneAt(e, Here) /\ GoneAt(e, h) /\ Plain(Here, h) /\ Safe(e, Here, m),
           PlacedRows(e, rows),
           Covered(c, e, rows, unlisted, table, h)
    PROVE  Covered(c, e, rows, unlisted, table, m)
<1>1. Here \in Nat /\ h \in Nat /\ m \in Nat /\ m \in Here .. Len(log)
    BY DEF LogOK
<1>2. ASSUME GoneAt(e, h) PROVE GoneAt(e, m)
    <2>1. CASE Untouched(e, m, h)
        BY <1>1, <1>2, <2>1, UntouchedSame DEF LogOK, GoneAt
    <2>2. CASE GoneAt(e, Here) /\ Plain(Here, h) /\ Safe(e, Here, m)
        <3>1. SUFFICES ASSUME ~GoneAt(e, m) PROVE FALSE
            OBVIOUS
        <3>2. Plain(Here, m) /\ Plain(m, h)
            BY <1>1, <2>2 DEF Plain
        <3>3. PICK n \in Here + 1 .. m : Is(n, e, "Insert")
            BY <1>1, <2>2, <3>1, <3>2, Appears DEF LogOK
        <3>4. PICK d \in m + 1 .. h : Is(d, e, "Delete")
            BY <1>1, <1>2, <3>1, <3>2, Disappears DEF LogOK
        <3> QED
            BY <1>1, <2>2, <3>3, <3>4 DEF Safe
    <2> QED
        BY <2>1, <2>2
<1>3. ASSUME NEW r \in rows, r.e = e, Newest(rows, r)
      PROVE  r.id >= m \/ Quiet(e, r.id, m)
    <2>1. r.id \in 1 .. Len(log)
        BY <1>3 DEF PlacedRows, Placed
    <2>2. r.id >= h \/ Quiet(e, r.id, h)
        BY <1>3 DEF Covered
    <2>3. Untouched(e, r.id, h) => Untouched(e, r.id, m)
        BY <1>1 DEF Untouched
    <2> QED
        BY <1>1, <1>2, <2>1, <2>2, <2>3 DEF Quiet
<1>4. ASSUME \A r \in rows : r.e # e
      PROVE  unlisted \/ Shows(c, e, table[e], m)
    <2>1. unlisted \/ Shows(c, e, table[e], h)
        BY <1>4 DEF Covered
    <2>2. h \in m .. Len(log)
        BY <1>1
    <2> QED
        BY <1>1, <2>1, <2>2, ShowsBack
<1> QED
    BY <1>3, <1>4 DEF Covered

\* What the journal's newest row of an entity leaves to a later h.
LEMMA AccountedAt ==
    ASSUME LogOK, NEW rows, NEW h, Accounted(rows, h), NEW x, Placed(x), x.e \in Entities,
           x.id \in Here + 1 .. h, \A y \in rows : y.e = x.e => y.id <= x.id
    PROVE  Untouched(x.e, x.id, h) \/ (GoneAt(x.e, Here) /\ GoneAt(x.e, h))
<1>1. h \in Nat /\ Here \in Nat /\ ~Untouched(x.e, Here, h)
    BY DEF Accounted, LogOK, Untouched, Placed
<1>2. ASSUME NEW r \in rows, r.e = x.e, r.id \in Here + 1 .. h, Untouched(x.e, r.id, h)
      PROVE  Untouched(x.e, x.id, h)
    BY <1>1, <1>2 DEF Placed, Untouched
<1> QED
    BY <1>1, <1>2 DEF Accounted
-----------------------------------------------------------------------------
(* What a batch lists *)

\* The tag that e's events after i fold to by n.
Folds(e, i, n) ==
    IF GoneAt(e, i) THEN IF GoneAt(e, n) THEN "Drop" ELSE "Insert"
    ELSE IF GoneAt(e, n) THEN "Delete" ELSE IF Untouched(e, i, n) THEN "Drop" ELSE "Update"

\* What the batch keeps of an entity follows its events, one by one, through the fold table.
LEMMA FoldsStep ==
    ASSUME LogOK, NEW e, NEW i \in Nat, NEW n \in i + 1 .. Len(log), log[n].tag # "Resync"
    PROVE  Folds(e, i, n) = IF log[n].e = e THEN FoldTag(Folds(e, i, n - 1), log[n].tag)
                            ELSE Folds(e, i, n - 1)
<1>1. n \in 1 .. Len(log) /\ n - 1 \in Nat
    OBVIOUS
<1>2. EntryAt(e, n) = IF log[n].e = e THEN log[n] ELSE EntryAt(e, n - 1)
    BY <1>1, EntryStep DEF LogOK
<1>3. CASE log[n].e # e
    <2>1. Untouched(e, i, n) <=> Untouched(e, i, n - 1)
        BY <1>1, <1>3 DEF Untouched
    <2> QED
        BY <1>2, <1>3, <2>1 DEF Folds, GoneAt
<1>4. CASE log[n].e = e
    <2>1. ~Untouched(e, i, n)
        BY <1>1, <1>4 DEF Untouched
    <2>2. GoneAt(e, n) <=> log[n].home = Gone
        BY <1>2, <1>4 DEF GoneAt
    <2>3. log[n].tag = IF GoneAt(e, n) THEN "Delete" ELSE IF GoneAt(e, n - 1) THEN "Insert" ELSE "Update"
        BY <1>1, <1>4, <2>2 DEF LogOK, LogTags
    <2>4. GoneAt(e, n) => ~GoneAt(e, n - 1)
        BY <1>1, <1>4, <2>2 DEF LogOK, LogTags
    <2>5. Untouched(e, i, n - 1) => (GoneAt(e, n - 1) <=> GoneAt(e, i))
        BY <1>1, UntouchedSame DEF LogOK, GoneAt
    <2> QED
        BY <1>4, <2>1, <2>3, <2>4, <2>5 DEF Folds, FoldTag
<1> QED
    BY <1>3, <1>4

\* The squash of a batch drops an entity exactly when nothing is left to tell.
LEMMA FoldedIsFolds ==
    ASSUME LogOK, NEW e, NEW i \in Nat, i <= Len(log), Plain(i, Len(log))
    PROVE  FoldedTag(e, i, Len(log)) = Folds(e, i, Len(log))
<1> DEFINE head == Len(log)
           Body(f, n) == IF n = i THEN "Drop"
                         ELSE IF log[n].e = e THEN FoldTag(f[n - 1], log[n].tag) ELSE f[n - 1]
           IsFold(f) == f = [n \in i .. head |-> Body(f, n)]
           g == [n \in i .. head |-> Folds(e, i, n)]
           f == CHOOSE f : IsFold(f)
<1>1. head \in Nat
    BY DEF LogOK
<1>2. Folds(e, i, i) = "Drop"
    BY DEF Folds, Untouched
<1>3. \A n \in i + 1 .. head : n - 1 \in i .. head
                /\ Folds(e, i, n) = IF log[n].e = e THEN FoldTag(Folds(e, i, n - 1), log[n].tag)
                                    ELSE Folds(e, i, n - 1)
    <2>1. ASSUME NEW n \in i + 1 .. head PROVE n - 1 \in i .. head /\ log[n].tag # "Resync"
        BY <1>1, <2>1 DEF Plain
    <2> QED
        BY <2>1, FoldsStep
<1>4. \A n \in i .. head : g[n] = Body(g, n)
    <2>1. ASSUME NEW n \in i .. head PROVE g[n] = Body(g, n)
        <3>1. CASE n = i
            BY <1>1, <1>2, <3>1
        <3>2. CASE n # i
            <4>1. n \in i + 1 .. head
                BY <1>1, <3>2
            <4> QED
                BY <1>3, <3>2, <4>1
        <3> QED
            BY <3>1, <3>2
    <2> QED
        BY <2>1
<1>5. IsFold(g)
    BY <1>4
<1>6. IsFold(f)
    BY <1>5
<1>7. FoldedTag(e, i, head) = f[head]
    BY DEF FoldedTag
<1> HIDE DEF f
<1>8. f[i] = "Drop" /\ \A n \in i + 1 .. head :
          f[n] = IF log[n].e = e THEN FoldTag(f[n - 1], log[n].tag) ELSE f[n - 1]
    <2>1. ASSUME NEW n \in i .. head PROVE f[n] = Body(f, n)
        <3>1. f = [k \in i .. head |-> Body(f, k)]
            BY <1>6
        <3> HIDE DEF Body
        <3> QED
            BY <2>1, <3>1
    <2>2. i \in i .. head /\ \A n \in i + 1 .. head : n \in i .. head /\ n # i
        BY <1>1
    <2>3. f[i] = "Drop"
        BY <2>1, <2>2
    <2>4. ASSUME NEW n \in i + 1 .. head
          PROVE  f[n] = IF log[n].e = e THEN FoldTag(f[n - 1], log[n].tag) ELSE f[n - 1]
        <3>1. n \in i .. head /\ n # i
            BY <2>2, <2>4
        <3>2. f[n] = Body(f, n)
            BY <2>1, <3>1
        <3> QED
            BY <3>1, <3>2
    <2> QED
        BY <2>3, <2>4
<1> DEFINE S == {n \in i .. head : f[n] = Folds(e, i, n)}
<1>9. i \in S
    BY <1>1, <1>2, <1>8
<1>10. ASSUME NEW n \in i + 1 .. head, n - 1 \in S PROVE n \in S
    BY <1>3, <1>8, <1>10
<1>11. head \in S
    <2> HIDE DEF S
    <2>1. SUFFICES ASSUME head \notin S PROVE FALSE
        OBVIOUS
    <2> QED
        BY <1>1, <1>9, <1>10, <2>1, FirstChange
<1> QED
    BY <1>7, <1>11

\* The listed rows of a batch, up to the head of the log.
LEMMA ListedTell ==
    ASSUME LogOK, Here <= Len(log), Plain(Here, Len(log))
    PROVE  /\ BatchRows(ListedEvents(Here, Len(log)), Len(log))
           /\ \A r \in ListedEvents(Here, Len(log)) : r.tag = "Delete" <=> GoneAt(r.e, r.id)
<1> DEFINE head == Len(log)
           rows == ListedEvents(Here, head)
           RowOf(e) == [id |-> Max(Touched(e, Here, head)), e |-> e, home |-> Gone, w |-> 0,
                        tag |-> IF FoldedTag(e, Here, head) = "Delete" THEN "Delete" ELSE "Upsert"]
<1>1. head \in Nat /\ Here \in Nat
    BY DEF LogOK
<1>2. \A e \in Entities : FoldedTag(e, Here, head) = Folds(e, Here, head)
    BY <1>1, FoldedIsFolds
<1>3. ASSUME NEW e \in Entities, Touched(e, Here, head) # {}
      PROVE  /\ Max(Touched(e, Here, head)) \in Here + 1 .. head
             /\ log[Max(Touched(e, Here, head))].e = e
             /\ Untouched(e, Max(Touched(e, Here, head)), head)
    <2> DEFINE at == Touched(e, Here, head)
    <2>1. at \in SUBSET Nat /\ at \subseteq Here + 1 .. head
        BY <1>1 DEF Touched
    <2>2. IsFiniteSet(at)
        <3>1. IsFiniteSet(Here + 1 .. head)
            BY <1>1, FS_Interval
        <3> QED
            BY <2>1, <3>1, FS_Subset
    <2>3. Max(at) \in at /\ \A n \in at : Max(at) >= n
        <3>1. at # {}
            BY <1>3
        <3> HIDE DEF at
        <3> QED
            BY <2>1, <2>2, <3>1, MaxOfPositions
    <2> DEFINE top == Max(at)
    <2> HIDE DEF top
    <2>4. top \in at /\ \A n \in at : top >= n
        BY <2>3 DEF top
    <2>5. top \in Here + 1 .. head /\ log[top].e = e
        BY <2>4 DEF Touched
    <2>6. Untouched(e, top, head)
        BY <1>1, <2>4, <2>5 DEF Touched, Untouched
    <2> QED
        BY <2>5, <2>6 DEF top
<1>4. \A e \in Entities : Touched(e, Here, head) = {} <=> Untouched(e, Here, head)
    BY DEF Touched, Untouched
<1>5. rows = {RowOf(e) : e \in {x \in Entities : Touched(x, Here, head) # {}
                                               /\ Folds(x, Here, head) # "Drop"}}
    BY <1>2 DEF ListedEvents
<1> HIDE DEF rows
<1>6. ASSUME NEW r \in rows
      PROVE  /\ r.e \in Entities /\ r.id \in Here + 1 .. head /\ log[r.id].e = r.e
             /\ Untouched(r.e, r.id, head) /\ r = RowOf(r.e)
             /\ r.tag = "Delete" <=> GoneAt(r.e, r.id)
             /\ ~(GoneAt(r.e, Here) /\ GoneAt(r.e, head))
    <2>1. PICK e \in Entities : Touched(e, Here, head) # {} /\ Folds(e, Here, head) # "Drop" /\ r = RowOf(e)
        BY <1>5
    <2>2. r.e = e /\ r.id = Max(Touched(e, Here, head))
          /\ r.tag = IF Folds(e, Here, head) = "Delete" THEN "Delete" ELSE "Upsert"
        BY <1>2, <2>1
    <2>3. r.id \in Here + 1 .. head /\ log[r.id].e = r.e /\ Untouched(r.e, r.id, head)
        BY <1>3, <2>1, <2>2
    <2>4. GoneAt(r.e, r.id) <=> GoneAt(r.e, head)
        BY <1>1, <2>3, UntouchedSame DEF LogOK, GoneAt
    <2>5. ~Untouched(e, Here, head)
        BY <1>4, <2>1
    <2> QED
        BY <2>1, <2>2, <2>3, <2>4, <2>5 DEF Folds
<1>7. \A r \in rows : Placed(r) /\ Safe(r.e, Here, r.id)
    <2>1. ASSUME NEW r \in rows PROVE Placed(r) /\ Safe(r.e, Here, r.id)
        <3>1. r.id \in 1 .. head
            BY <1>1, <1>6
        <3>2. \A d \in r.id + 1 .. head : log[d].e # r.e
            BY <1>6 DEF Untouched
        <3> QED
            BY <1>6, <3>1, <3>2 DEF Placed, Safe, Is
    <2> QED
        BY <2>1
<1>8. OneRowEach(rows)
    <2>1. ASSUME NEW x \in rows, NEW y \in rows, x.id = y.id PROVE x = y
        <3>1. x.e = y.e
            BY <1>6, <2>1
        <3> QED
            BY <1>6, <3>1
    <2> QED
        BY <2>1 DEF OneRowEach
<1>9. ASSUME NEW e \in Entities, ~Untouched(e, Here, head), ~(GoneAt(e, Here) /\ GoneAt(e, head))
      PROVE  \E r \in rows : r.e = e /\ r.id \in Here + 1 .. head /\ Untouched(e, r.id, head)
    <2>1. Folds(e, Here, head) # "Drop" /\ Touched(e, Here, head) # {}
        BY <1>4, <1>9 DEF Folds
    <2>2. RowOf(e) \in rows
        BY <1>5, <2>1
    <2> QED
        BY <1>3, <2>1, <2>2
<1>10. Accounted(rows, head)
    BY <1>1, <1>9 DEF Accounted
<1>11. BatchRows(rows, head)
    BY <1>6, <1>7, <1>8, <1>10 DEF BatchRows
<1> QED
    BY <1>6, <1>11 DEF rows
-----------------------------------------------------------------------------
(* What every step may rely on *)

Truths == LogTags /\ WireTells /\ WorkTells /\ Epochs /\ JournalTells

Base ==
    /\ TypeInv /\ RecoveryWork /\ GateHeld /\ NoMarkAcrossRecovery
    /\ Windows \subseteq {"unawaited-commit"} /\ Durable

\* The log, the position ingested so far and the rows on their way are what they should be.
LEMMA BaseLog ==
    ASSUME Base, LogTags
    PROVE  /\ LogOK /\ Len(log) \in Nat /\ Here \in Nat
           /\ journal.log \in SUBSET Row /\ wire.events \in SUBSET Row /\ ingest.work.rows \in SUBSET Row
           /\ \A r \in Row : r.id \in Nat /\ r.tag \in {"Upsert", "Delete"}
<1>1. journal.cursor \in Nat \cup {None}
    BY DEF Base, TypeInv, TypeOK, Journal, OptionalSyncId, SyncId
<1>2. Here \in Nat
    BY <1>1 DEF Here, OrZero, ZeroSyncId
<1> QED
    BY <1>2 DEF Base, TypeInv, TypeOK, LogOK, Journal, Batch, IngestFiber, Work, Row, SyncId

\* The types of the fields the arithmetic below is about.
LEMMA BaseTypes ==
    ASSUME Base
    PROVE  /\ epoch \in Nat /\ generation \in Nat /\ retained \in Nat
           /\ wire.last \in Nat /\ wire.epoch \in Nat /\ ingest.work.last \in Nat /\ ingest.work.epoch \in Nat
           /\ journal.epoch \in Nat \cup {None} /\ journal.cursor \in Nat \cup {None}
           /\ journal.resync \in Nat \cup {None} /\ \A m \in Models : journal.floor[m] \in Nat \cup {None}
           /\ \A c \in Collections :
                /\ journal.marks[c] \in Nat \cup {None} /\ pending[c] \in Nat \cup {None}
                /\ sub[c] \in Subscriber /\ CollModel[c] \in Models
           /\ None = -1
BY SMTT(40), ConstantsOK DEF Base, TypeInv, TypeOK, Journal, OptionalSyncId, SyncId, Batch, IngestFiber, Work, None

-----------------------------------------------------------------------------
(* A longer log *)

\* What Write and BulkChange do, with the one race window closed.
Grown(x) ==
    /\ x \in Entry /\ log' = Append(log, x) /\ LogTags'
    /\ x.tag = "Delete" => ~ShownEarly(x.e)
    /\ UNCHANGED <<epoch, retained, wire, journal, store, ingest, pending, generation, gate, sub>>

\* A write or a bulk change of the server appends one event.
LEMMA WritesGrow ==
    ASSUME Base, LogTags, ServerWrites
    PROVE  \E x : Grown(x)
<1>1. log \in Seq(Entry) /\ writes \in Nat /\ Len(log) \in Nat
    BY DEF Base, TypeInv, TypeOK
<1>2. ASSUME NEW x \in Entry, log' = Append(log, x),
             x.tag # "Resync" => /\ x.tag = IF x.home = Gone THEN "Delete"
                                            ELSE IF GoneAt(x.e, Len(log)) THEN "Insert" ELSE "Update"
                                 /\ x.home = Gone => ~GoneAt(x.e, Len(log))
      PROVE  LogTags'
    <2>1. /\ Len(log') = Len(log) + 1 /\ log'[Len(log) + 1] = x
          /\ \A n \in 1 .. Len(log) : log'[n] = log[n]
          /\ \A e, t : t \in 0 .. Len(log) => EntryAt(e, t)' = EntryAt(e, t)
        BY <1>1, <1>2, LogGrows
    <2>2. \A e, t : t \in 0 .. Len(log) => GoneAt(e, t)' = GoneAt(e, t)
        BY <2>1 DEF GoneAt
    <2>3. ASSUME NEW n \in 1 .. Len(log'), NEW y, y = log'[n], NEW e, e = y.e, y.tag # "Resync"
          PROVE  /\ y.tag = IF y.home = Gone THEN "Delete" ELSE IF GoneAt(e, n - 1)' THEN "Insert" ELSE "Update"
                 /\ y.home = Gone => ~GoneAt(e, n - 1)'
        <3>1. CASE n = Len(log) + 1
            <4>1. GoneAt(e, n - 1)' <=> GoneAt(e, Len(log))
                BY <1>1, <2>2, <3>1
            <4> QED
                BY <1>1, <1>2, <2>1, <2>3, <3>1, <4>1
        <3>2. CASE n \in 1 .. Len(log)
            <4>1. GoneAt(e, n - 1)' <=> GoneAt(e, n - 1)
                BY <1>1, <2>2, <3>2
            <4>2. y = log[n]
                BY <2>1, <2>3, <3>2
            <4> QED
                BY <2>3, <3>2, <4>1, <4>2 DEF LogTags
        <3> QED
            BY <1>1, <2>1, <2>3, <3>1, <3>2
    <2> QED
        BY <2>3 DEF LogTags
<1>3. ASSUME NEW e \in Entities, NEW home \in Homes \cup {Gone}, Write(e, home)
      PROVE  \E x : Grown(x)
    <2> DEFINE was == EntryAt(e, Len(log)).home
               x == [e |-> e, home |-> home, w |-> writes + 1,
                     tag |-> IF home = Gone THEN "Delete" ELSE IF was = Gone THEN "Insert" ELSE "Update"]
    <2>1. /\ ~(was = Gone /\ home = Gone) /\ log' = Append(log, x)
          /\ home = Gone => ~ShownEarly(e)
          /\ UNCHANGED <<epoch, retained, wire, journal, store, ingest, pending, generation, gate, sub>>
        BY <1>3 DEF Write, Base
    <2>2. x \in Entry
        BY <1>1 DEF Entry
    <2>3. x.tag = IF home = Gone THEN "Delete" ELSE IF GoneAt(e, Len(log)) THEN "Insert" ELSE "Update"
        BY DEF GoneAt
    <2>4. x.e = e /\ x.home = home /\ (home = Gone => ~GoneAt(e, Len(log))) /\ (x.tag = "Delete" => home = Gone)
        BY <2>1 DEF GoneAt
    <2> HIDE DEF x
    <2>5. LogTags'
        BY <1>2, <2>1, <2>2, <2>3, <2>4
    <2> QED
        BY <2>1, <2>2, <2>4, <2>5 DEF Grown
<1>4. ASSUME NEW e \in Entities, NEW home \in Homes \cup {Gone}, BulkChange(e, home)
      PROVE  \E x : Grown(x)
    <2> DEFINE x == [e |-> e, home |-> home, w |-> writes + 1, tag |-> "Resync"]
    <2>1. /\ log' = Append(log, x) /\ x.tag = "Resync"
          /\ UNCHANGED <<epoch, retained, wire, journal, store, ingest, pending, generation, gate, sub>>
        BY <1>4 DEF BulkChange
    <2>2. x \in Entry
        BY <1>1 DEF Entry
    <2> HIDE DEF x
    <2>3. LogTags'
        BY <1>2, <2>1, <2>2
    <2> QED
        BY <2>1, <2>2, <2>3 DEF Grown
<1> QED
    BY <1>3, <1>4 DEF ServerWrites

\* What was decided about positions of the old log is so in the new one.
LEMMA GrownLog ==
    ASSUME Base, LogTags, NEW x, Grown(x)
    PROVE  /\ Len(log') = Len(log) + 1 /\ log'[Len(log) + 1] = x /\ Here' = Here
           /\ \A n \in 1 .. Len(log) : log'[n] = log[n]
           /\ \A e, t : t \in 0 .. Len(log) =>
                /\ EntryAt(e, t)' = EntryAt(e, t) /\ (GoneAt(e, t)' <=> GoneAt(e, t))
                /\ \A c : RowAt(c, e, t)' = RowAt(c, e, t)
           /\ \A e, k, i : i \in Nat /\ k \in 0 .. Len(log) =>
                (Untouched(e, i, k)' <=> Untouched(e, i, k)) /\ (Plain(i, k)' <=> Plain(i, k))
<1>1. /\ Len(log') = Len(log) + 1 /\ log'[Len(log) + 1] = x
      /\ \A n \in 1 .. Len(log) : log'[n] = log[n]
      /\ \A e, t : t \in 0 .. Len(log) => EntryAt(e, t)' = EntryAt(e, t)
    BY LogGrows DEF Base, TypeInv, TypeOK, Grown
<1>2. Here' = Here
    BY DEF Grown, Here
<1>3. \A e, t : t \in 0 .. Len(log) =>
          (GoneAt(e, t)' <=> GoneAt(e, t)) /\ \A c : RowAt(c, e, t)' = RowAt(c, e, t)
    BY <1>1 DEF GoneAt, RowAt, InScope
<1>4. \A e, k, i : i \in Nat /\ k \in 0 .. Len(log) =>
          (Untouched(e, i, k)' <=> Untouched(e, i, k)) /\ (Plain(i, k)' <=> Plain(i, k))
    <2>1. Len(log) \in Nat
        BY BaseLog
    <2> QED
        BY SMTT(40), <1>1, <2>1 DEF Untouched, Plain
<1> QED
    BY <1>1, <1>2, <1>3, <1>4

\* Where the client has been shown e, no deletion comes to contradict it.
ShownTo(e) ==
    \/ \E c \in Collections : store[c][e] # Absent \/ sub[c].listing[e] # Absent
    \/ \E r \in wire.events \cup ingest.work.rows \cup {y \in journal.log : y.id > Here} : r.e = e

\* An event that is appended later takes no safety away from what was shown before it: with
\* the window closed, the entity of an insert that was shown early is not deleted.
LEMMA GrownSafe ==
    ASSUME Base, LogTags, NEW x, Grown(x), NEW e, ShownTo(e),
           NEW i \in Here .. Len(log), NEW t \in i .. Len(log), Safe(e, i, t)
    PROVE  Safe(e, i, t)'
<1>1. /\ Len(log') = Len(log) + 1 /\ log'[Len(log) + 1] = x
      /\ \A n \in 1 .. Len(log) : log'[n] = log[n]
      /\ GoneAt(e, i)' <=> GoneAt(e, i)
      /\ Len(log) \in Nat /\ Here \in Nat /\ i \in Nat /\ t \in Nat
    BY GrownLog, BaseLog
<1>2. SUFFICES ASSUME GoneAt(e, i), NEW n \in i + 1 .. t, NEW d \in t + 1 .. Len(log) + 1,
                      log'[n].e = e /\ log'[n].tag = "Insert", log'[d].e = e /\ log'[d].tag = "Delete"
               PROVE  FALSE
    BY <1>1 DEF Safe, Is
<1>3. log[n].e = e /\ log[n].tag = "Insert" /\ n \in 1 .. Len(log) /\ n > Here
    BY <1>1, <1>2
<1>4. CASE d \in 1 .. Len(log)
    BY <1>1, <1>2, <1>3, <1>4 DEF Safe, Is
<1>5. CASE d = Len(log) + 1
    <2>1. x.e = e /\ x.tag = "Delete"
        BY <1>1, <1>2, <1>5
    <2>2. InsertAhead(e)
        BY <1>3 DEF InsertAhead, Here
    <2>3. ShownEarly(e)
        BY <2>2 DEF ShownEarly, ShownTo, Here
    <2> QED
        BY <2>1, <2>3 DEF Grown
<1> QED
    BY <1>1, <1>2, <1>4, <1>5

\* The same of what is shown from the position ingested so far.
LEMMA GrownSafeHere ==
    ASSUME Base, LogTags, NEW x, Grown(x), NEW e, ShownTo(e),
           NEW t \in Here .. Len(log), Safe(e, Here, t)
    PROVE  Safe(e, Here, t)'
<1>1. PICK i : i = Here
    OBVIOUS
<1>2. i \in Here .. Len(log) /\ t \in i .. Len(log) /\ Here' = i
    BY <1>1, BaseLog, GrownLog
<1>3. Safe(e, i, t)'
    BY <1>1, <1>2, GrownSafe
<1> QED
    BY <1>2, <1>3 DEF Safe

\* Rows and batches stay true when the log grows.
LEMMA GrownRows ==
    ASSUME Base, LogTags, NEW x, Grown(x)
    PROVE  /\ \A r \in Row : RowTells(r) => RowTells(r)'
           /\ \A rows, h : Accounted(rows, h) => Accounted(rows, h)'
           /\ \A e, k, i : i \in 0 .. Len(log) /\ k \in 0 .. Len(log) => (Quiet(e, i, k)' <=> Quiet(e, i, k))
           /\ \A h \in Nat : Behind(h) => Behind(h)'
           /\ \A i \in Nat : Told(i) => Told(i)'
           /\ \A i : Backed(i)' <=> Backed(i)
           /\ ResyncAhead => ResyncAhead'
<1>1. /\ Len(log') = Len(log) + 1 /\ log'[Len(log) + 1] = x /\ Here' = Here
      /\ \A n \in 1 .. Len(log) : log'[n] = log[n]
      /\ \A e, t : t \in 0 .. Len(log) =>
                /\ EntryAt(e, t)' = EntryAt(e, t) /\ (GoneAt(e, t)' <=> GoneAt(e, t))
      /\ \A e, k, i : i \in Nat /\ k \in 0 .. Len(log) =>
                (Untouched(e, i, k)' <=> Untouched(e, i, k)) /\ (Plain(i, k)' <=> Plain(i, k))
    BY GrownLog
<1>2. Len(log) \in Nat /\ Here \in Nat /\ \A r \in Row : r.id \in Nat
    BY BaseLog
<1>3. UNCHANGED <<epoch, retained, wire, journal, ingest>>
    BY DEF Grown
<1>4. \A r \in Row, t \in 0 .. Len(log) : TellsAt(r, t)' <=> TellsAt(r, t)
    BY <1>1 DEF TellsAt
<1>5. ASSUME NEW r \in Row, RowTells(r) PROVE RowTells(r)'
    <2>1. PICK h \in r.id .. Len(log) : TellsAt(r, h)
        BY <1>5 DEF RowTells
    <2>2. r.id \in 1 .. Len(log) /\ log[r.id].e = r.e /\ (GoneAt(r.e, r.id) => r.tag = "Delete")
        BY <1>5 DEF RowTells, Placed
    <2>3. h \in r.id .. Len(log') /\ TellsAt(r, h)'
        BY <1>1, <1>2, <1>4, <2>1, <2>2
    <2>4. Placed(r)'
        BY <1>1, <1>2, <2>2 DEF Placed
    <2> QED
        BY <2>3, <2>4 DEF RowTells
<1>6. ASSUME NEW rows, NEW h, Accounted(rows, h) PROVE Accounted(rows, h)'
    <2>1. h \in Here .. Len(log) /\ h \in 0 .. Len(log) /\ h \in Here' .. Len(log')
        BY <1>1, <1>2, <1>6 DEF Accounted
    <2>2. \A e : Untouched(e, Here, h)' <=> Untouched(e, Here, h)
        BY <1>1, <1>2, <2>1 DEF Untouched
    <2>3. \A e, n : n \in Here + 1 .. h => (Untouched(e, n, h)' <=> Untouched(e, n, h))
        BY <1>1, <1>2, <2>1
    <2>4. \A e : (GoneAt(e, Here)' <=> GoneAt(e, Here)) /\ (GoneAt(e, h)' <=> GoneAt(e, h))
        BY <1>1, <1>2, <2>1 DEF GoneAt
    <2>5. Plain(Here, h)'
        BY <1>1, <1>2, <1>6, <2>1 DEF Accounted, Plain
    <2> QED
        BY <1>1, <1>6, <2>1, <2>2, <2>3, <2>4, <2>5 DEF Accounted
<1>7. ASSUME NEW e, NEW i \in 0 .. Len(log), NEW k \in 0 .. Len(log) PROVE Quiet(e, i, k)' <=> Quiet(e, i, k)
    BY <1>1, <1>2 DEF Quiet
<1>8. \A h \in Nat : Behind(h) => Behind(h)'
    BY <1>1, <1>2, <1>3 DEF Behind, OnWire, InHand
<1>9. ASSUME NEW i \in Nat, Told(i) PROVE Told(i)'
    <2>1. PICK h \in i .. Len(log) : Behind(h) /\ Accounted(journal.log, h)
        BY <1>9 DEF Told
    <2>2. PICK rows : rows = journal.log
        OBVIOUS
    <2>3. h \in i .. Len(log') /\ Behind(h)' /\ Accounted(rows, h)'
        BY <1>1, <1>2, <1>6, <1>8, <2>1, <2>2
    <2>4. journal'.log = rows
        BY <1>3, <2>2
    <2> QED
        BY <2>3, <2>4 DEF Told, Accounted
<1>10. \A i : Backed(i)' <=> Backed(i)
    BY <1>1, <1>3 DEF Backed
<1>11. ResyncAhead => ResyncAhead'
    BY <1>1, <1>2, <1>3 DEF ResyncAhead
<1> QED
    BY <1>5, <1>6, <1>7, <1>8, <1>9, <1>10, <1>11

\* The rows of a batch that was listed before an event was appended still account for its range.
LEMMA GrownBatch ==
    ASSUME Base, LogTags, NEW x, Grown(x), NEW rows \in SUBSET Row, NEW h,
           BatchRows(rows, h), \A r \in rows : ShownTo(r.e)
    PROVE  BatchRows(rows, h)'
<1>1. /\ Len(log') = Len(log) + 1 /\ Here' = Here
      /\ \A n \in 1 .. Len(log) : log'[n] = log[n]
      /\ \A e, t : t \in 0 .. Len(log) => (GoneAt(e, t)' <=> GoneAt(e, t))
      /\ \A e, k, i : i \in Nat /\ k \in 0 .. Len(log) =>
                (Untouched(e, i, k)' <=> Untouched(e, i, k)) /\ (Plain(i, k)' <=> Plain(i, k))
    BY GrownLog
<1>2. Len(log) \in Nat /\ Here \in Nat /\ h \in Here .. Len(log)
    BY BaseLog DEF BatchRows, Accounted
<1>3. Accounted(rows, h)'
    BY GrownRows DEF BatchRows
<1>4. ASSUME NEW r \in rows
      PROVE  /\ Placed(r)' /\ r.id \in Here' + 1 .. h /\ Untouched(r.e, r.id, h)' /\ Safe(r.e, Here, r.id)'
             /\ ~(GoneAt(r.e, Here)' /\ GoneAt(r.e, h)')
    <2>1. /\ r.e \in Entities /\ r.id \in 1 .. Len(log) /\ r.id \in Here + 1 .. h
          /\ Untouched(r.e, r.id, h) /\ Safe(r.e, Here, r.id)
          /\ ~(GoneAt(r.e, Here) /\ GoneAt(r.e, h))
          /\ log[r.id].e = r.e /\ (GoneAt(r.e, r.id) => r.tag = "Delete")
        BY DEF BatchRows, Placed
    <2>2. Placed(r)'
        BY <1>1, <1>2, <2>1 DEF Placed
    <2>3. r.id \in Here .. Len(log)
        BY <1>2, <2>1
    <2>4. Safe(r.e, Here, r.id)'
        BY <2>1, <2>3, GrownSafeHere
    <2> QED
        BY <1>1, <1>2, <2>1, <2>2, <2>4
<1>5. OneRowEach(rows)' /\ \A r \in rows : r.e \in Entities
    BY DEF BatchRows, OneRowEach
<1> QED
    BY <1>1, <1>3, <1>4, <1>5 DEF BatchRows, Safe

\* What is said of the log, the wire, the work in hand and the journal survives an event.
LEMMA TruthsGrow ==
    ASSUME Base, CoverageInv, NEW x, Grown(x)
    PROVE  Truths'
<1>1. /\ Len(log') = Len(log) + 1 /\ Here' = Here
      /\ \A n \in 1 .. Len(log) : log'[n] = log[n]
      /\ \A e, t : t \in 0 .. Len(log) => (GoneAt(e, t)' <=> GoneAt(e, t))
      /\ \A e, k, i : i \in Nat /\ k \in 0 .. Len(log) => (Untouched(e, i, k)' <=> Untouched(e, i, k))
    BY GrownLog DEF CoverageInv
<1>2. /\ Len(log) \in Nat /\ Here \in Nat /\ journal.log \in SUBSET Row
      /\ wire.events \in SUBSET Row /\ ingest.work.rows \in SUBSET Row /\ \A r \in Row : r.id \in Nat
    BY BaseLog DEF CoverageInv
<1>3. /\ \A r \in Row : RowTells(r) => RowTells(r)'
      /\ \A rows, h : Accounted(rows, h) => Accounted(rows, h)'
      /\ \A e, k, i : i \in 0 .. Len(log) /\ k \in 0 .. Len(log) => (Quiet(e, i, k)' <=> Quiet(e, i, k))
      /\ \A h \in Nat : Behind(h) => Behind(h)'
      /\ \A i \in Nat : Told(i) => Told(i)'
      /\ ResyncAhead => ResyncAhead'
    BY GrownRows DEF CoverageInv
<1>4. UNCHANGED <<epoch, retained, wire, journal, ingest>>
    BY DEF Grown
<1>5. OnWire' = OnWire /\ InHand' = InHand /\ OnLog' = OnLog
    BY <1>4 DEF OnWire, InHand, OnLog
<1> PICK w : w = wire
    OBVIOUS
<1> PICK k : k = ingest.work
    OBVIOUS
<1> PICK at : at = Here
    OBVIOUS
<1> PICK rows : rows = journal.log
    OBVIOUS
<1>6. wire' = w /\ ingest'.work = k /\ Here' = at /\ journal'.log = rows
    BY <1>1, <1>4
<1>7. WireTells'
    <2>1. ASSUME OnWire, ~wire.resync, OnLog PROVE BatchRows(w.events, w.last)'
        BY <1>2, <2>1, GrownBatch DEF CoverageInv, WireTells, ShownTo
    <2>2. ASSUME OnWire, ~wire.resync, OnLog, wire.stage = "listed", NEW r \in wire.events
          PROVE  r.tag = "Delete" <=> GoneAt(r.e, r.id)'
        <3>1. r.id \in 1 .. Len(log) /\ (r.tag = "Delete" <=> GoneAt(r.e, r.id))
            BY <2>2 DEF CoverageInv, WireTells, BatchRows, Placed
        <3> QED
            BY <1>1, <1>2, <3>1
    <2>3. ASSUME OnWire, ~wire.resync, OnLog, wire.stage = "sent", NEW r \in wire.events
          PROVE  RowTells(r)'
        BY <1>2, <1>3, <2>3 DEF CoverageInv, WireTells
    <2>4. ASSUME OnWire, ~wire.resync, OnLog PROVE BatchRows(wire.events, wire.last)'
        BY <1>6, <2>1, <2>4 DEF BatchRows, Accounted, OneRowEach
    <2>5. WireTells
        BY DEF CoverageInv
    <2>6. wire.last \in Nat
        BY BaseTypes
    <2>7. OnWire => wire.last <= Len(log')
        BY <1>1, <1>2, <2>5, <2>6 DEF WireTells
    <2>8. ResyncAhead => ResyncAhead'
        BY <1>3
    <2> QED
        BY <1>4, <1>5, <2>2, <2>3, <2>4, <2>5, <2>7, <2>8 DEF WireTells
<1>8. WorkTells'
    <2>1. WorkTells
        BY DEF CoverageInv
    <2>2. ASSUME ingest.pc = "append", OnLog
          PROVE  BatchRows(ingest.work.rows, ingest.work.last)' /\ \A r \in ingest.work.rows : RowTells(r)'
        <3>1. BatchRows(k.rows, k.last)'
            BY <1>2, <2>1, <2>2, GrownBatch DEF CoverageInv, WorkTells, ShownTo
        <3>2. \A r \in k.rows : RowTells(r)'
            BY <1>2, <1>3, <2>1, <2>2 DEF WorkTells
        <3> QED
            BY <1>6, <3>1, <3>2 DEF BatchRows, Accounted, OneRowEach
    <2>3. ASSUME ingest.pc = "publish", OnLog
          PROVE  /\ Accounted(journal.log, ingest.work.last)'
                 /\ \A r \in ingest.work.rows : Untouched(r.e, r.id, ingest.work.last)'
        <3>1. Accounted(rows, k.last) /\ \A r \in k.rows : r.id \in Nat /\ Untouched(r.e, r.id, k.last)
            BY <1>2, <2>1, <2>3 DEF WorkTells
        <3>2. Accounted(rows, k.last)'
            BY <1>3, <3>1
        <3>4. k.last \in 0 .. Len(log)
            BY <1>2, <3>1 DEF Accounted
        <3>3. \A r \in k.rows : Untouched(r.e, r.id, k.last)'
            BY <1>1, <3>1, <3>4
        <3> QED
            BY <1>6, <3>2, <3>3 DEF Accounted, Untouched
    <2>4. ingest.work.last \in Nat
        BY BaseTypes
    <2>5. InHand /\ ingest.work.epoch = epoch => ingest.work.last <= Len(log')
        BY <1>1, <1>2, <2>1, <2>4 DEF WorkTells
    <2>6. ResyncAhead => ResyncAhead'
        BY <1>3
    <2> QED
        BY <1>1, <1>4, <1>5, <2>1, <2>2, <2>3, <2>5, <2>6 DEF WorkTells
<1>9. Epochs'
    BY <1>4, <1>5 DEF CoverageInv, Epochs
<1>10. JournalTells'
    <2>1. SUFFICES ASSUME OnLog PROVE JournalTells'
        BY <1>5 DEF JournalTells
    <2>2. JournalTells
        BY DEF CoverageInv
    <2>3. at <= Len(log) /\ at \in 0 .. Len(log)
        BY <1>2, <2>1, <2>2 DEF JournalTells, Behind
    <2>4. Behind(Here)'
        <3>1. Behind(at)'
            BY <1>3, <2>1, <2>2, <2>3 DEF JournalTells
        <3> QED
            BY <1>6, <3>1 DEF Behind
    <2>5. ASSUME NEW r \in journal.log
          PROVE  /\ RowTells(r)' /\ r.e \in Entities
                 /\ r.id > Here => Safe(r.e, Here, r.id)' /\ Told(r.id)'
                 /\ r.id <= Here => \/ Quiet(r.e, r.id, Here)'
                                    \/ \E y \in journal.log : y.e = r.e /\ y.id > r.id
        <3>1. r \in Row /\ RowTells(r) /\ r.e \in Entities /\ r.id \in 1 .. Len(log)
            BY <1>2, <2>1, <2>2 DEF JournalTells, RowTells, Placed
        <3>2. ASSUME r.id > Here PROVE Safe(r.e, Here, r.id)' /\ Told(r.id)'
            <4>1. Safe(r.e, Here, r.id) /\ Told(r.id) /\ ShownTo(r.e) /\ r.id \in Here .. Len(log)
                BY <1>2, <2>1, <2>2, <3>1, <3>2 DEF JournalTells, ShownTo
            <4> QED
                BY <1>3, <3>1, <4>1, GrownSafeHere DEF CoverageInv
        <3>3. Quiet(r.e, r.id, at)' <=> Quiet(r.e, r.id, at)
            BY <1>2, <1>3, <2>3, <3>1
        <3>4. Quiet(r.e, r.id, Here)' <=> Quiet(r.e, r.id, at)'
            BY <1>6 DEF Quiet, Untouched, GoneAt, EntryAt
        <3> QED
            BY <1>3, <2>1, <2>2, <3>1, <3>2, <3>3, <3>4 DEF JournalTells
    <2> QED
        BY <1>1, <1>4, <1>5, <2>1, <2>2, <2>4, <2>5 DEF JournalTells, OneRowEach
<1> QED
    BY <1>7, <1>8, <1>9, <1>10 DEF Truths, Grown
-----------------------------------------------------------------------------
(* The log, the wire, the work in hand and the journal, step by step *)

SameRows == /\ journal'.log = journal.log /\ journal'.cursor = journal.cursor /\ journal'.epoch = journal.epoch
            /\ journal'.resync = journal.resync /\ journal'.floor = journal.floor

\* Steps of a collection, and flushes, leave all of it alone.
LEMMA TruthsStand ==
    ASSUME Truths, UNCHANGED <<log, epoch, retained, wire, ingest>>, SameRows
    PROVE  Truths'
<1>1. /\ log' = log /\ epoch' = epoch /\ retained' = retained /\ wire' = wire /\ ingest' = ingest
      /\ journal'.log = journal.log /\ journal'.cursor = journal.cursor /\ journal'.epoch = journal.epoch
      /\ journal'.resync = journal.resync /\ journal'.floor = journal.floor
    BY DEF SameRows
<1> USE <1>1 DEF EntryAt, GoneAt, Untouched, Quiet, Plain, Is, Safe, Placed, TellsAt, RowTells,
                 Accounted, OneRowEach, BatchRows, ResyncAhead, OnWire, InHand, Behind, Told, OnLog, Here
<1>2. LogTags' = LogTags
    BY DEF LogTags
<1>3. WireTells' = WireTells
    BY DEF WireTells
<1>4. WorkTells' = WorkTells
    BY DEF WorkTells
<1>5. Epochs' = Epochs
    BY DEF Epochs
<1>6. JournalTells' = JournalTells
    BY DEF JournalTells
<1> QED
    BY ONLY <1>2, <1>3, <1>4, <1>5, <1>6, Truths DEF Truths

\* So do steps that drop or finish what was in hand or on the wire.
LEMMA TruthsRelease ==
    ASSUME Base, Truths, UNCHANGED <<log, epoch, retained>>, SameRows, ~InHand',
           wire'.stage = "none" \/ (wire' = wire /\ ingest'.pc \in {"catchup", "stream"})
    PROVE  Truths'
<1>1. UNCHANGED log => LogTags' = LogTags /\ Len(log') = Len(log)
    BY DEF LogTags, GoneAt, EntryAt
<1>2. Here' = Here /\ OnLog' = OnLog /\ ResyncAhead' = ResyncAhead
    BY DEF Here, OnLog, ResyncAhead, SameRows
<1>3. WireTells'
    <2>1. CASE wire'.stage = "none"
        BY <2>1 DEF WireTells, OnWire
    <2>2. CASE wire' = wire /\ ingest'.pc \in {"catchup", "stream"}
        <3>1. BatchRows(wire.events, wire.last)' = BatchRows(wire.events, wire.last)
            BY <1>2, <2>2 DEF BatchRows, Accounted, OneRowEach, Placed, Safe, Untouched, Plain, Is, GoneAt, EntryAt
        <3>2. \A r \in Row : RowTells(r)' = RowTells(r) /\ GoneAt(r.e, r.id)' = GoneAt(r.e, r.id)
            BY DEF RowTells, TellsAt, Placed, GoneAt, EntryAt
        <3>3. wire.events \in SUBSET Row
            BY DEF Base, TypeInv, TypeOK, Batch
        <3> QED
            BY <1>1, <1>2, <2>2, <3>1, <3>2, <3>3 DEF WireTells, OnWire, Truths
    <2> QED
        BY <2>1, <2>2
<1>4. WorkTells'
    BY DEF WorkTells, InHand
<1>5. Epochs'
    BY DEF Epochs, InHand, SameRows, Truths
<1>6. JournalTells'
    <2>1. \A h : Behind(h) => Behind(h)'
        BY DEF Behind, OnWire, InHand
    <2>2. \A h : Accounted(journal.log, h)' = Accounted(journal.log, h)
        BY <1>2 DEF Accounted, Untouched, Plain, GoneAt, EntryAt, SameRows
    <2>3. \A i : Told(i) => Told(i)'
        BY <2>1, <2>2 DEF Told
    <2>4. Behind(Here) => Behind(Here)'
        BY <1>2 DEF Behind, OnWire, InHand
    <2>5. OneRowEach(journal.log)' = OneRowEach(journal.log)
        BY DEF OneRowEach, SameRows
    <2>6. \A x : /\ RowTells(x)' = RowTells(x) /\ Safe(x.e, Here, x.id)' = Safe(x.e, Here, x.id)
                 /\ Quiet(x.e, x.id, Here)' = Quiet(x.e, x.id, Here)
        BY <1>2 DEF RowTells, TellsAt, Placed, Safe, Quiet, Untouched, Is, GoneAt, EntryAt
    <2> QED
        BY <1>2, <2>3, <2>4, <2>5, <2>6 DEF JournalTells, SameRows, Truths
<1> QED
    BY <1>1, <1>3, <1>4, <1>5, <1>6 DEF Truths

\* The server's retention only makes a resync due.
LEMMA TruthsExpire ==
    ASSUME Base, Truths, Expire
    PROVE  Truths'
<1>1. PICK n \in retained + 1 .. Len(log) : retained' = n
    BY DEF Expire
<1>2. UNCHANGED <<log, epoch, wire, journal, ingest>>
    BY DEF Expire
<1>3. ResyncAhead => ResyncAhead'
    BY <1>1, <1>2, BaseTypes, BaseLog DEF ResyncAhead, Here, Truths
<1>4. LogTags' = LogTags
    BY <1>2 DEF LogTags, GoneAt, EntryAt
<1>5. Here' = Here /\ OnLog' = OnLog /\ OnWire' = OnWire /\ InHand' = InHand
    BY <1>2 DEF Here, OnLog, OnWire, InHand
<1>6. /\ BatchRows(wire.events, wire.last)' = BatchRows(wire.events, wire.last)
      /\ BatchRows(ingest.work.rows, ingest.work.last)' = BatchRows(ingest.work.rows, ingest.work.last)
      /\ Accounted(journal.log, ingest.work.last)' = Accounted(journal.log, ingest.work.last)
    BY <1>2, <1>5 DEF BatchRows, Accounted, OneRowEach, Placed, Safe, Untouched, Plain, Is, GoneAt, EntryAt
<1>7. \A r : RowTells(r)' = RowTells(r) /\ GoneAt(r.e, r.id)' = GoneAt(r.e, r.id)
              /\ Untouched(r.e, r.id, ingest.work.last)' = Untouched(r.e, r.id, ingest.work.last)
    BY <1>2 DEF RowTells, TellsAt, Placed, Untouched, GoneAt, EntryAt
<1>8. WireTells'
    BY <1>2, <1>3, <1>5, <1>6, <1>7 DEF WireTells, Truths
<1>9. WorkTells'
    BY <1>2, <1>3, <1>5, <1>6, <1>7 DEF WorkTells, Truths
<1>10. Epochs' = Epochs
    BY <1>2, <1>5 DEF Epochs
<1>11. JournalTells' = JournalTells
    BY <1>2 DEF EntryAt, GoneAt, Untouched, Quiet, Plain, Is, Safe, Placed, TellsAt, RowTells,
                Accounted, OneRowEach, OnWire, InHand, Behind, Told, JournalTells, OnLog, Here
<1> QED
    BY ONLY <1>4, <1>8, <1>9, <1>10, <1>11, Truths DEF Truths

\* After a restore the journal speaks of a timeline that is gone.
LEMMA RestoredLog ==
    ASSUME Base, Truths, Restore
    PROVE  /\ ~OnLog' /\ ~OnWire' /\ epoch' = epoch + 1 /\ journal' = journal /\ wire' = wire /\ ingest' = ingest
           /\ InHand' => ingest.work.epoch # epoch'
<1>1. epoch' = epoch + 1 /\ journal' = journal /\ wire' = wire /\ ingest' = ingest /\ journal.epoch # None
    BY DEF Restore
<1>2. journal.epoch <= epoch /\ (wire.stage # "none" => wire.epoch <= epoch) /\ (InHand => ingest.work.epoch <= epoch)
    BY BaseTypes DEF Truths, Epochs, WireTells, WorkTells
<1> QED
    BY <1>1, <1>2, BaseTypes DEF OnLog, OnWire, InHand

\* A server restored from a backup leaves nothing of the old timeline to be true of the new one.
LEMMA TruthsRestore ==
    ASSUME Base, Truths, Restore
    PROVE  Truths'
<1>1. /\ ~OnLog' /\ ~OnWire' /\ epoch' = epoch + 1 /\ journal' = journal /\ wire' = wire /\ ingest' = ingest
      /\ InHand' => ingest.work.epoch # epoch'
    BY RestoredLog
<1>2. LogTags'
    <2>1. PICK k \in 0 .. Len(log) - 1 : log' = SubSeq(log, 1, k)
        BY DEF Restore
    <2>2. log \in Seq(Entry) /\ Len(log) \in Nat
        BY BaseLog DEF Truths, LogOK
    <2>3. Len(log') = k /\ \A n \in 1 .. k : log'[n] = log[n]
        BY <2>1, <2>2
    <2>4. \A e, t : t \in 0 .. k => EntryAt(e, t)' = EntryAt(e, t)
        <3>1. ASSUME NEW e, NEW t \in 0 .. k PROVE EntryAt(e, t)' = EntryAt(e, t)
            <4> DEFINE S == {n \in 1 .. t : log[n].e = e}
            <4>1. {n \in 1 .. t : log'[n].e = e} = S
                BY <2>3
            <4>2. S # {} => Max(S) \in 1 .. t
                <5>1. IsFiniteSet(1 .. t)
                    BY FS_Interval
                <5>2. S \in SUBSET Nat /\ S \subseteq 1 .. t /\ IsFiniteSet(S)
                    BY <5>1, FS_Subset
                <5> HIDE DEF S
                <5> QED
                    BY <5>2, MaxOfPositions
            <4>3. S # {} => log'[Max(S)] = log[Max(S)]
                <5> HIDE DEF S
                <5> QED
                    BY <2>3, <4>2
            <4>4. EntryAt(e, t)' = IF S = {} THEN [e |-> e, tag |-> "Delete", home |-> Gone, w |-> 0]
                                   ELSE log'[Max(S)]
                BY <4>1 DEF EntryAt
            <4>5. EntryAt(e, t) = IF S = {} THEN [e |-> e, tag |-> "Delete", home |-> Gone, w |-> 0]
                                  ELSE log[Max(S)]
                BY DEF EntryAt
            <4> HIDE DEF S
            <4> QED
                BY <4>3, <4>4, <4>5
        <3> QED
            BY <3>1
    <2>5. LogTags
        BY DEF Truths
    <2>6. ASSUME NEW n \in 1 .. k, NEW e, e = log[n].e
          PROVE  GoneAt(e, n - 1)' <=> GoneAt(e, n - 1)
        BY <2>4 DEF GoneAt
    <2> QED
        BY <2>2, <2>3, <2>5, <2>6 DEF LogTags
<1>3. WireTells' /\ WorkTells' /\ Epochs'
    <2>1. epoch \in Nat /\ ResyncAhead \in BOOLEAN
        BY BaseTypes DEF ResyncAhead
    <2>2. WireTells'
        BY <1>1, <2>1, BaseTypes DEF WireTells, Truths
    <2>3. WorkTells'
        BY SMTT(40), <1>1, <2>1, BaseTypes DEF WorkTells, Truths, InHand, Here
    <2>4. Epochs'
        BY <1>1, <2>1, BaseTypes DEF Epochs, WorkTells, WireTells, Truths, InHand, Restore
    <2> QED
        BY <2>2, <2>3, <2>4
<1>4. JournalTells'
    BY <1>1 DEF JournalTells
<1> QED
    BY <1>2, <1>3, <1>4 DEF Truths
\* A batch is listed from the cursor to the head of the log.
LEMMA TruthsList ==
    ASSUME Base, Truths, ServeList
    PROVE  Truths'
<1> DEFINE due == Here < retained \/ \E n \in Here + 1 .. Len(log) : log[n].tag = "Resync"
           batch == [stage |-> "listed", last |-> Len(log), epoch |-> epoch, resync |-> due,
                     events |-> IF due THEN {} ELSE ListedEvents(Here, Len(log))]
<1>1. /\ ingest.pc \in {"catchup", "stream"} /\ wire.stage = "none" /\ wire' = batch
      /\ UNCHANGED <<log, epoch, retained, journal, ingest>>
    BY DEF ServeList, Here
<1>2. LogOK /\ Len(log) \in Nat /\ Here \in Nat /\ epoch \in Nat
    BY BaseLog, BaseTypes DEF Truths
<1>3. /\ wire'.stage = "listed" /\ wire'.last = Len(log) /\ wire'.epoch = epoch /\ wire'.resync = due
      /\ wire'.events = IF due THEN {} ELSE ListedEvents(Here, Len(log))
    BY <1>1
<1> HIDE DEF batch
<1>4. log' = log /\ epoch' = epoch /\ retained' = retained /\ journal' = journal /\ ingest' = ingest
    BY <1>1
<1>5. LogTags' = LogTags
    BY <1>4 DEF LogTags, GoneAt, EntryAt
<1>6. Here' = Here /\ OnLog' = OnLog /\ InHand' = InHand /\ ResyncAhead' = ResyncAhead /\ ~InHand
    BY <1>1, <1>4 DEF Here, OnLog, InHand, ResyncAhead
<1>7. WireTells'
    <2>1. ASSUME ~due, OnLog
          PROVE  /\ BatchRows(ListedEvents(Here, Len(log)), Len(log))
                 /\ \A r \in ListedEvents(Here, Len(log)) : r.tag = "Delete" <=> GoneAt(r.e, r.id)
        <3>1. Here <= Len(log)
            BY <2>1 DEF Truths, JournalTells, Behind
        <3>2. Plain(Here, Len(log))
            BY <2>1 DEF Plain
        <3> QED
            BY <1>2, <3>1, <3>2, ListedTell
    <2> PICK rows : rows = ListedEvents(Here, Len(log))
        OBVIOUS
    <2> PICK h : h = Len(log)
        OBVIOUS
    <2>2. BatchRows(rows, h)' = BatchRows(rows, h)
        BY <1>4 DEF BatchRows, Accounted, OneRowEach, Placed, Safe, Untouched, Plain, Is, GoneAt, EntryAt, Here
    <2>3. \A r : GoneAt(r.e, r.id)' = GoneAt(r.e, r.id)
        BY <1>4 DEF GoneAt, EntryAt
    <2>4. ~due => wire'.events = rows /\ wire'.last = h
        BY <1>3
    <2>5. ~due /\ OnLog => BatchRows(rows, h)'
        BY <2>1, <2>2
    <2>6. ~due /\ OnLog => BatchRows(wire.events, wire.last)'
        BY <2>4, <2>5 DEF BatchRows, Accounted, OneRowEach
    <2>7. due => ResyncAhead
        BY DEF ResyncAhead
    <2>8. ~due /\ OnLog => \A r \in wire'.events : r.tag = "Delete" <=> GoneAt(r.e, r.id)'
        BY <2>1, <2>3, <2>4
    <2> HIDE DEF due
    <2>9. OnWire' /\ wire'.stage = "listed" /\ ingest'.pc \in {"catchup", "stream"} /\ wire'.epoch \in 0 .. epoch'
          /\ wire'.last <= Len(log')
        BY <1>1, <1>2, <1>3, <1>4 DEF OnWire
    <2> QED
        BY <1>3, <1>6, <2>6, <2>7, <2>8, <2>9 DEF WireTells
<1>8. WorkTells'
    BY <1>4, <1>6 DEF WorkTells, Truths, InHand
<1>9. Epochs'
    BY <1>3, <1>4, <1>6 DEF Epochs, Truths
<1>10. JournalTells'
    <2>1. \A h : Behind(h) => Behind(h)'
        BY <1>3, <1>4, <1>6 DEF Behind
    <2>2. \A h : Accounted(journal.log, h)' = Accounted(journal.log, h)
        BY <1>4 DEF Accounted, Untouched, Plain, GoneAt, EntryAt, Here
    <2>3. \A i : Told(i) => Told(i)'
        BY <1>4, <2>1, <2>2 DEF Told
    <2>4. Behind(Here) => Behind(Here)'
        BY <1>3, <1>4, <1>6 DEF Behind
    <2>5. OneRowEach(journal.log)' = OneRowEach(journal.log)
        BY <1>4 DEF OneRowEach
    <2>6. \A x : /\ RowTells(x)' = RowTells(x) /\ Safe(x.e, Here, x.id)' = Safe(x.e, Here, x.id)
                 /\ Quiet(x.e, x.id, Here)' = Quiet(x.e, x.id, Here)
        BY <1>4 DEF RowTells, TellsAt, Placed, Safe, Quiet, Untouched, Is, GoneAt, EntryAt, Here
    <2> QED
        BY <1>4, <1>6, <2>3, <2>4, <2>5, <2>6 DEF JournalTells, Truths
<1> QED
    BY <1>5, <1>7, <1>8, <1>9, <1>10 DEF Truths

\* A hydrated row tells its entity's state at the head of the log, or its own deletion.
LEMMA HydratedTell ==
    ASSUME log \in Seq(Entry), NEW r \in Row, Placed(r), r.tag = "Delete" <=> GoneAt(r.e, r.id)
    PROVE  /\ Hydrated(r).id = r.id /\ Hydrated(r).e = r.e
           /\ Placed(Hydrated(r)) /\ RowTells(Hydrated(r))
<1>1. r.id \in 1 .. Len(log) /\ log[r.id].e = r.e
    BY DEF Placed
<1> PICK q : q = Hydrated(r)
    OBVIOUS
<1>2. q.id = r.id /\ q.e = r.e /\ (r.tag = "Delete" => q.tag = "Delete")
    BY DEF Hydrated, Row
<1>3. CASE r.tag = "Delete"
    <2>1. TellsAt(q, r.id)
        BY <1>2, <1>3 DEF TellsAt
    <2> QED
        BY <1>1, <1>2, <1>3, <2>1 DEF RowTells, Placed
<1>4. CASE r.tag # "Delete" /\ GoneAt(r.e, Len(log))
    <2>1. q.tag = "Delete"
        BY <1>4 DEF Hydrated, GoneAt, Row
    <2>2. TellsAt(q, Len(log))
        BY <1>2, <1>4, <2>1 DEF TellsAt
    <2> QED
        BY <1>1, <1>2, <2>1, <2>2 DEF RowTells, Placed
<1>5. CASE r.tag # "Delete" /\ ~GoneAt(r.e, Len(log))
    <2>1. q.home = EntryAt(r.e, Len(log)).home /\ q.w = EntryAt(r.e, Len(log)).w /\ q.tag = r.tag
        BY <1>5 DEF Hydrated, GoneAt, Row
    <2>2. TellsAt(q, Len(log))
        BY <1>2, <1>5, <2>1 DEF TellsAt
    <2> QED
        BY <1>1, <1>2, <1>5, <2>1, <2>2 DEF RowTells, Placed
<1> QED
    BY <1>2, <1>3, <1>4, <1>5
\* With the same log, everything said of positions and rows stays as it was ...
LEMMA SameLog ==
    ASSUME log' = log
    PROVE  /\ LogTags' = LogTags /\ Len(log') = Len(log)
           /\ \A e, t : EntryAt(e, t)' = EntryAt(e, t) /\ GoneAt(e, t)' = GoneAt(e, t)
           /\ \A e, i, k : /\ Untouched(e, i, k)' = Untouched(e, i, k) /\ Quiet(e, i, k)' = Quiet(e, i, k)
                           /\ Plain(i, k)' = Plain(i, k) /\ Safe(e, i, k)' = Safe(e, i, k)
           /\ \A r : Placed(r)' = Placed(r) /\ RowTells(r)' = RowTells(r)
           /\ \A c, e, t : RowAt(c, e, t)' = RowAt(c, e, t)
BY DEF EntryAt, GoneAt, Untouched, Quiet, Plain, Safe, Is, Placed, TellsAt, RowTells, LogTags, RowAt, InScope

\* ... and with the same cursor everything said of batches and tables.
LEMMA SameCursor ==
    ASSUME log' = log, Here' = Here
    PROVE  /\ \A rows, h : Accounted(rows, h)' = Accounted(rows, h) /\ BatchRows(rows, h)' = BatchRows(rows, h)
           /\ \A c, e, v, m : Shows(c, e, v, m)' = Shows(c, e, v, m)
           /\ \A c, e, rows, unlisted, table, m :
                 Covered(c, e, rows, unlisted, table, m)' = Covered(c, e, rows, unlisted, table, m)
<1>1. \A rows, h : Accounted(rows, h)' = Accounted(rows, h) /\ BatchRows(rows, h)' = BatchRows(rows, h)
    BY DEF EntryAt, GoneAt, Untouched, Plain, Safe, Is, Placed, Accounted, BatchRows, OneRowEach
<1>2. \A c, e, v, m : Shows(c, e, v, m)' = Shows(c, e, v, m)
    BY DEF EntryAt, GoneAt, Safe, Is, Shows, RowAt, InScope
<1>3. \A c, e, rows, unlisted, table, m :
          Covered(c, e, rows, unlisted, table, m)' = Covered(c, e, rows, unlisted, table, m)
    BY DEF EntryAt, GoneAt, Safe, Is, Shows, RowAt, InScope, Covered, Newest, Quiet, Untouched
<1> QED
    BY <1>1, <1>2, <1>3

\* Hydration fills the rows in; a batch of a timeline that ended meanwhile is dropped.
LEMMA TruthsHydrate ==
    ASSUME Base, Truths, ServeHydrate
    PROVE  Truths'
<1>1. /\ wire.stage = "listed"
      /\ wire' = IF wire.epoch # epoch THEN NoBatch
                 ELSE [wire EXCEPT !.stage = "sent", !.events = {Hydrated(r) : r \in @}]
      /\ UNCHANGED <<log, epoch, retained, journal, ingest>>
    BY DEF ServeHydrate
<1>2. ingest.pc \in {"catchup", "stream"} /\ ~InHand
    BY <1>1 DEF Truths, WireTells, InHand
<1>3. CASE wire.epoch # epoch
    <2>1. wire'.stage = "none" /\ ~InHand' /\ SameRows
        BY <1>1, <1>2, <1>3 DEF NoBatch, InHand, SameRows
    <2> QED
        BY <1>1, <2>1, TruthsRelease
<1>4. CASE wire.epoch = epoch
    <2> PICK rows : rows = {Hydrated(r) : r \in wire.events}
        OBVIOUS
    <2> PICK h : h = wire.last
        OBVIOUS
    <2>1. /\ wire'.stage = "sent" /\ wire'.events = rows /\ wire'.last = h
          /\ wire'.epoch = wire.epoch /\ wire'.resync = wire.resync
        BY <1>1, <1>4 DEF Base, TypeInv, TypeOK, Batch
    <2>2. log' = log /\ epoch' = epoch /\ retained' = retained /\ journal' = journal /\ ingest' = ingest
        BY <1>1
    <2>3. Here' = Here /\ OnLog' = OnLog /\ InHand' = InHand /\ ResyncAhead' = ResyncAhead /\ OnWire /\ OnWire'
        BY <1>1, <1>4, <2>1, <2>2 DEF Here, OnLog, InHand, ResyncAhead, OnWire
    <2>4. WireTells'
        <3>1. ASSUME ~wire.resync, OnLog
              PROVE  BatchRows(rows, h) /\ \A r \in rows : RowTells(r)
            <4>1. /\ BatchRows(wire.events, h) /\ \A r \in wire.events : r.tag = "Delete" <=> GoneAt(r.e, r.id)
                  /\ wire.events \in SUBSET Row /\ log \in Seq(Entry)
                BY <1>1, <2>3, <3>1, BaseLog DEF Truths, WireTells, LogOK
            <4>2. \A r \in wire.events : Hydrated(r).id = r.id /\ Hydrated(r).e = r.e
                                         /\ Placed(Hydrated(r)) /\ RowTells(Hydrated(r))
                BY <4>1, HydratedTell DEF BatchRows
            <4>3. \A q \in rows : \E r \in wire.events : q = Hydrated(r)
                OBVIOUS
            <4>4. \A r \in wire.events : Hydrated(r) \in rows
                OBVIOUS
            <4>5. Accounted(rows, h)
                BY <4>1, <4>2, <4>4 DEF BatchRows, Accounted
            <4>6. OneRowEach(rows)
                BY <4>1, <4>2, <4>3 DEF BatchRows, OneRowEach
            <4>7. \A q \in rows : /\ q.e \in Entities /\ RowTells(q)
                                  /\ Placed(q) /\ q.id \in Here + 1 .. h /\ Untouched(q.e, q.id, h) /\ Safe(q.e, Here, q.id)
                                  /\ ~(GoneAt(q.e, Here) /\ GoneAt(q.e, h))
                BY <4>1, <4>2, <4>3 DEF BatchRows
            <4> QED
                BY <4>5, <4>6, <4>7 DEF BatchRows
        <3>2. BatchRows(rows, h)' = BatchRows(rows, h)
            BY <2>2, <2>3, SameCursor
        <3>3. \A r : RowTells(r)' = RowTells(r)
            BY <2>2, SameLog
        <3>4. ~wire.resync /\ OnLog => BatchRows(rows, h)'
            BY <3>1, <3>2
        <3>5. ~wire.resync /\ OnLog => BatchRows(wire.events, wire.last)'
            BY <2>1, <3>4 DEF BatchRows, Accounted, OneRowEach
        <3>6. ~wire.resync /\ OnLog => \A r \in wire'.events : RowTells(r)'
            BY <2>1, <3>1, <3>3
        <3>7. wire.resync => wire'.events = {}
            BY <1>1, <2>1, <2>3 DEF Truths, WireTells
        <3> QED
            BY <1>1, <1>2, <1>4, <2>1, <2>2, <2>3, <3>5, <3>6, <3>7 DEF WireTells, Truths
    <2>5. WorkTells'
        BY <2>2, <2>3, <1>2 DEF WorkTells, Truths, InHand
    <2>6. Epochs'
        BY <1>1, <2>1, <2>2, <2>3 DEF Epochs, Truths
    <2>7. JournalTells'
        <3>1. \A i : Behind(i) => Behind(i)'
            BY <2>1, <2>2, <2>3 DEF Behind
        <3>2. \A i : Accounted(journal.log, i)' = Accounted(journal.log, i)
            BY <2>2 DEF Accounted, Untouched, Plain, GoneAt, EntryAt, Here
        <3>3. \A i : Told(i) => Told(i)'
            BY <2>2, <3>1, <3>2 DEF Told
        <3>4. Behind(Here) => Behind(Here)'
            BY <2>1, <2>2, <2>3 DEF Behind
        <3>5. OneRowEach(journal.log)' = OneRowEach(journal.log)
            BY <2>2 DEF OneRowEach
        <3>6. \A x : /\ RowTells(x)' = RowTells(x) /\ Safe(x.e, Here, x.id)' = Safe(x.e, Here, x.id)
                     /\ Quiet(x.e, x.id, Here)' = Quiet(x.e, x.id, Here)
            BY <2>2 DEF RowTells, TellsAt, Placed, Safe, Quiet, Untouched, Is, GoneAt, EntryAt, Here
        <3> QED
            BY <2>2, <2>3, <3>3, <3>4, <3>5, <3>6 DEF JournalTells, Truths
    <2> QED
        BY <2>2, <2>4, <2>5, <2>6, <2>7, SameLog DEF Truths
<1> QED
    BY <1>3, <1>4

\* A batch that continues the journal becomes the work in hand; any other starts a recovery.
LEMMA TruthsAccept ==
    ASSUME Base, Truths, Accept
    PROVE  Truths'
<1> DEFINE changed == journal.epoch # None /\ journal.epoch # wire.epoch
           recovery == changed \/ wire.resync
           fresh == {r \in wire.events : r.id > Here}
<1>1. /\ ingest.pc \in {"catchup", "stream"} /\ wire.stage = "sent" /\ wire' = NoBatch
      /\ UNCHANGED <<log, epoch, retained>>
    BY DEF Accept
<1>2. /\ recovery => /\ ingest'.pc = "recover" /\ ingest'.state = "Recovering"
                     /\ ingest'.work.kind = IF changed THEN "EpochReset" ELSE "Resync"
      /\ ~recovery => ingest'.pc = "append" /\ ingest'.work.rows = fresh
      /\ ingest'.work.last = wire.last /\ ingest'.work.epoch = wire.epoch
    BY DEF Accept, Here, Base, TypeInv, TypeOK, IngestFiber
<1>3. /\ journal'.log = journal.log /\ journal'.cursor = journal.cursor /\ journal'.resync = journal.resync
      /\ journal'.floor = journal.floor
      /\ journal'.epoch = IF journal.epoch = None THEN wire.epoch ELSE journal.epoch
    BY DEF Accept, Base, TypeInv, TypeOK, Journal
<1>4. /\ epoch \in Nat /\ wire.epoch \in Nat /\ journal.epoch \in Nat \cup {None} /\ None = -1
      /\ wire.last \in Nat /\ Len(log) \in Nat /\ Here \in Nat /\ \A m \in Models : journal.floor[m] \in Nat \cup {None}
    BY BaseTypes, BaseLog DEF Truths
<1>5. /\ ~InHand /\ InHand' /\ wire'.stage = "none" /\ Here' = Here /\ ResyncAhead' = ResyncAhead /\ Len(log') = Len(log)
    BY <1>1, <1>2, <1>3 DEF NoBatch, InHand, Here, ResyncAhead
<1>6. wire.epoch \in 0 .. epoch /\ journal.epoch <= wire.epoch /\ (wire.epoch = epoch => OnWire)
    BY <1>1 DEF Truths, WireTells, Epochs, OnWire
<1>7. OnLog' => OnLog /\ OnWire /\ ~changed /\ wire.epoch = epoch
    BY <1>1, <1>3, <1>4, <1>6 DEF OnLog
<1>8. WireTells'
    BY <1>5 DEF WireTells, OnWire
<1>9. WorkTells'
    <2> PICK rows : rows = wire.events
        OBVIOUS
    <2> PICK h : h = wire.last
        OBVIOUS
    <2>1. ASSUME ~recovery, OnLog' PROVE fresh = rows /\ BatchRows(rows, h) /\ \A r \in rows : RowTells(r)
        <3>1. BatchRows(wire.events, wire.last) /\ \A r \in wire.events : RowTells(r)
            BY <1>1, <1>7, <2>1 DEF Truths, WireTells
        <3>2. \A r \in wire.events : r.id > Here
            BY <1>4, <3>1 DEF BatchRows
        <3> QED
            BY <3>1, <3>2
    <2>2. BatchRows(rows, h)' = BatchRows(rows, h) /\ \A r : RowTells(r)' = RowTells(r)
        BY <1>1, <1>5, SameLog, SameCursor
    <2>3. ~recovery /\ OnLog' => ingest'.work.rows = rows /\ ingest'.work.last = h /\ BatchRows(rows, h)'
                                 /\ \A r \in rows : RowTells(r)'
        BY <1>2, <2>1, <2>2
    <2>4. ~recovery /\ OnLog' => BatchRows(ingest.work.rows, ingest.work.last)' /\ \A r \in ingest'.work.rows : RowTells(r)'
        BY <2>3 DEF BatchRows, Accounted, OneRowEach
    <2>5. ingest'.work.epoch = epoch' => ingest'.work.last <= Len(log')
        BY <1>1, <1>2, <1>5, <1>6 DEF Truths, WireTells
    <2>6. ~recovery => ingest'.work.epoch = journal'.epoch
        BY <1>2, <1>3
    <2>7. recovery /\ OnLog' => ingest'.work.kind = "Resync" /\ ResyncAhead' /\ ingest'.work.epoch = epoch'
        BY <1>1, <1>2, <1>5, <1>7 DEF Truths, WireTells
    <2>8. ingest'.work.epoch \in 0 .. epoch'
        BY <1>1, <1>2, <1>6
    <2> HIDE DEF recovery
    <2> QED
        BY <1>2, <2>4, <2>5, <2>6, <2>7, <2>8 DEF WorkTells
<1>10. Epochs'
    BY <1>1, <1>2, <1>3, <1>4, <1>5, <1>6 DEF Epochs, Truths
<1>11. JournalTells'
    <2>1. SUFFICES ASSUME OnLog' PROVE JournalTells'
        BY DEF JournalTells
    <2>2. OnLog /\ OnWire /\ wire.epoch = epoch
        BY <1>7, <2>1
    <2>3. ~OnWire'
        BY <1>5 DEF OnWire
    <2>4. \A h : Behind(h) => Behind(h)'
        BY <1>1, <1>2, <1>5, <2>2, <2>3 DEF Behind
    <2>5. \A h : Accounted(journal.log, h)' = Accounted(journal.log, h)
        BY <1>1, <1>3, <1>5 DEF Accounted, Untouched, Plain, GoneAt, EntryAt
    <2>6. \A i : Told(i) => Told(i)'
        BY <1>1, <1>3, <2>4, <2>5 DEF Told
    <2>7. Behind(Here) => Behind(Here)'
        BY <1>1, <1>2, <1>5, <2>2, <2>3 DEF Behind
    <2>8. OneRowEach(journal.log)' = OneRowEach(journal.log)
        BY <1>3 DEF OneRowEach
    <2>9. \A x : /\ RowTells(x)' = RowTells(x) /\ Safe(x.e, Here, x.id)' = Safe(x.e, Here, x.id)
                 /\ Quiet(x.e, x.id, Here)' = Quiet(x.e, x.id, Here)
        BY <1>1, <1>5 DEF RowTells, TellsAt, Placed, Safe, Quiet, Untouched, Is, GoneAt, EntryAt
    <2> QED
        BY <1>3, <1>5, <2>2, <2>6, <2>7, <2>8, <2>9 DEF JournalTells, Truths
<1> QED
    BY <1>1, <1>8, <1>9, <1>10, <1>11, SameLog DEF Truths
\* The journal takes the batch in: newer rows of the same entities replace nothing they rely on.
LEMMA TruthsAppend ==
    ASSUME Base, Truths, AppendChunk
    PROVE  Truths'
<1> PICK k : k = ingest.work
    OBVIOUS
<1> DEFINE merged == {r \in journal.log : \A s \in k.rows : s.id # r.id} \cup k.rows
<1>1. /\ ingest.pc = "append" /\ ingest'.pc = "publish" /\ ingest'.work = k /\ ingest'.state = ingest.state
      /\ log' = log /\ epoch' = epoch /\ retained' = retained /\ wire' = wire
    BY DEF AppendChunk, Base, TypeInv, TypeOK, IngestFiber
<1>2. /\ journal'.log = merged /\ journal'.cursor = journal.cursor /\ journal'.resync = journal.resync
      /\ journal'.floor = journal.floor /\ journal'.epoch = journal.epoch
    BY DEF AppendChunk, AppendRows, Base, TypeInv, TypeOK, Journal
<1> PICK rows : rows = merged
    OBVIOUS
<1> HIDE DEF merged
<1>3. /\ wire.stage = "none" /\ InHand /\ InHand' /\ Here' = Here /\ OnLog' = OnLog /\ ResyncAhead' = ResyncAhead
      /\ ~OnWire /\ ~OnWire' /\ Len(log') = Len(log)
    BY <1>1, <1>2 DEF Truths, WireTells, InHand, Here, OnLog, ResyncAhead, OnWire
<1>4. /\ journal.epoch \in Nat \cup {None} /\ None = -1 /\ Len(log) \in Nat /\ Here \in Nat /\ k.last \in Nat
      /\ journal.log \in SUBSET Row /\ k.rows \in SUBSET Row /\ \A r \in Row : r.id \in Nat
    BY BaseTypes, BaseLog DEF Truths
<1>5. k.epoch = journal.epoch /\ journal.epoch # None /\ (OnLog => k.epoch = epoch)
    BY <1>1, <1>3 DEF Truths, WorkTells, Epochs, OnLog
<1>6. OnLog => BatchRows(k.rows, k.last) /\ \A r \in k.rows : RowTells(r)
    BY <1>1 DEF Truths, WorkTells
<1>7. k.rows \subseteq rows /\ rows \subseteq journal.log \cup k.rows
      /\ \A r \in journal.log : r \in rows \/ \E s \in k.rows : s.id = r.id
    BY DEF merged
<1>8. ASSUME OnLog PROVE Accounted(rows, k.last)
    BY <1>6, <1>7, <1>8 DEF BatchRows, Accounted
<1>9. WireTells'
    BY <1>1, <1>3 DEF WireTells
<1>10. WorkTells'
    <2>1. /\ Accounted(rows, k.last)' = Accounted(rows, k.last)
          /\ \A e, i, j : Untouched(e, i, j)' = Untouched(e, i, j)
        BY <1>1, <1>3, SameLog, SameCursor
    <2>2. OnLog => Accounted(rows, k.last)'
        BY <1>8, <2>1
    <2>3. OnLog => Accounted(journal.log, ingest.work.last)'
        BY <1>1, <1>2, <2>2 DEF Accounted
    <2>4. OnLog => \A r \in k.rows : r.id > Here /\ Untouched(r.e, r.id, k.last)'
        BY <1>4, <1>6, <2>1 DEF BatchRows
    <2>5. OnLog => \A r \in k.rows : r.id > Here /\ Untouched(r.e, r.id, ingest.work.last)'
        BY <1>1, <2>4 DEF Untouched
    <2> QED
        BY <1>1, <1>2, <1>3, <1>5, <1>7, <2>3, <2>5 DEF WorkTells, Truths
<1>11. Epochs'
    BY <1>1, <1>2, <1>3 DEF Epochs, Truths
<1>12. JournalTells'
    <2>1. SUFFICES ASSUME OnLog PROVE JournalTells'
        BY <1>3 DEF JournalTells
    <2>2. Behind(k.last)' /\ k.last \in Here .. Len(log) /\ (Behind(Here) => Behind(Here)')
        BY <1>1, <1>3, <1>4, <1>8, <2>1 DEF Accounted, Behind
    <2>3. \A i \in Nat : i <= k.last => Told(i)'
        <3>1. Accounted(rows, k.last)'
            BY <1>1, <1>3, <1>8, <2>1, SameCursor
        <3>2. ASSUME NEW i \in Nat, i <= k.last PROVE Told(i)'
            <4>1. k.last \in i .. Len(log')
                BY <1>3, <1>4, <2>2, <3>2
            <4> QED
                BY <1>2, <2>2, <3>1, <4>1 DEF Told, Accounted
        <3> QED
            BY <3>2
    <2>4. \A x : /\ RowTells(x)' = RowTells(x) /\ Safe(x.e, Here, x.id)' = Safe(x.e, Here, x.id)
                 /\ Quiet(x.e, x.id, Here)' = Quiet(x.e, x.id, Here)
        BY <1>1, <1>3 DEF RowTells, TellsAt, Placed, Safe, Quiet, Untouched, Is, GoneAt, EntryAt
    <2>5. \A r \in journal.log : r.id \in 1 .. Len(log) /\ log[r.id].e = r.e
        BY <2>1 DEF Truths, JournalTells, RowTells, Placed
    <2>6. \A s \in k.rows : log[s.id].e = s.e /\ s.id > Here /\ s.id <= k.last /\ s.e \in Entities /\ Safe(s.e, Here, s.id)
        BY <1>4, <1>6, <2>1 DEF BatchRows, Placed
    <2>7. OneRowEach(rows)
        <3>1. ASSUME NEW x \in rows, NEW y \in rows, x.id = y.id PROVE x = y
            <4>1. CASE x \in k.rows /\ y \in k.rows
                BY <1>6, <2>1, <3>1, <4>1 DEF BatchRows, OneRowEach
            <4>2. CASE x \notin k.rows \/ y \notin k.rows
                <5>1. x \in journal.log /\ y \in journal.log
                    BY <3>1, <4>2 DEF merged
                <5> QED
                    BY <2>1, <3>1, <5>1 DEF Truths, JournalTells, OneRowEach
            <4> QED
                BY <4>1, <4>2
        <3> QED
            BY <3>1 DEF OneRowEach
    <2>8. ASSUME NEW x \in rows
          PROVE  /\ RowTells(x) /\ x.e \in Entities
                 /\ x.id > Here => Safe(x.e, Here, x.id) /\ Told(x.id)'
                 /\ x.id <= Here => \/ Quiet(x.e, x.id, Here)
                                    \/ \E y \in rows : y.e = x.e /\ y.id > x.id
        <3>1. CASE x \in k.rows
            BY <1>4, <1>6, <2>1, <2>3, <2>6, <3>1
        <3>2. CASE x \notin k.rows
            <4>1. x \in journal.log
                BY <1>7, <3>2
            <4>2. RowTells(x) /\ x.e \in Entities /\ x.id \in Nat
                BY <1>4, <2>1, <4>1 DEF Truths, JournalTells
            <4>3. ASSUME x.id > Here PROVE Safe(x.e, Here, x.id) /\ Told(x.id)'
                <5>1. Safe(x.e, Here, x.id) /\ Told(x.id)
                    BY <2>1, <4>1, <4>3 DEF Truths, JournalTells
                <5>2. PICK h \in x.id .. Len(log) : Behind(h)
                    BY <5>1 DEF Told
                <5>3. x.id <= k.last
                    BY <1>3, <1>4, <1>5, <2>1, <4>2, <5>2 DEF Behind
                <5> QED
                    BY <2>3, <4>2, <5>1, <5>3
            <4>4. ASSUME x.id <= Here
                  PROVE  Quiet(x.e, x.id, Here) \/ \E y \in rows : y.e = x.e /\ y.id > x.id
                <5>1. Quiet(x.e, x.id, Here) \/ \E y \in journal.log : y.e = x.e /\ y.id > x.id
                    BY <2>1, <4>1, <4>4 DEF Truths, JournalTells
                <5>2. ASSUME NEW y \in journal.log, y.e = x.e, y.id > x.id
                      PROVE  \E z \in rows : z.e = x.e /\ z.id > x.id
                    <6>1. CASE y \in rows
                        BY <5>2, <6>1
                    <6>2. CASE y \notin rows
                        <7>1. PICK s \in k.rows : s.id = y.id
                            BY <1>7, <6>2
                        <7> QED
                            BY <1>7, <2>5, <2>6, <5>2, <7>1
                    <6> QED
                        BY <6>1, <6>2
                <5> QED
                    BY <5>1, <5>2
            <4> QED
                BY <4>2, <4>3, <4>4
        <3> QED
            BY <3>1, <3>2
    <2>9. OneRowEach(journal.log)'
        BY <1>2, <2>7 DEF OneRowEach
    <2> QED
        BY <1>2, <1>3, <2>1, <2>2, <2>4, <2>8, <2>9 DEF JournalTells, Truths
<1> QED
    BY <1>1, <1>9, <1>10, <1>11, <1>12, SameLog DEF Truths

\* Publishing only shortens what is left to publish.
LEMMA TruthsPublish ==
    ASSUME Base, Truths, PublishRow
    PROVE  Truths'
<1>1. /\ ingest.pc = "publish" /\ ingest'.pc = "publish" /\ ingest'.work.rows \subseteq ingest.work.rows
      /\ ingest'.work.last = ingest.work.last /\ ingest'.work.epoch = ingest.work.epoch
      /\ log' = log /\ epoch' = epoch /\ retained' = retained /\ wire' = wire /\ journal' = journal
    BY DEF PublishRow, Base, TypeInv, TypeOK, IngestFiber, Work
<1>2. wire.stage = "none"
    BY <1>1 DEF Truths, WireTells
<1>3. WireTells' /\ Epochs'
    BY <1>1, <1>2 DEF WireTells, OnWire, Epochs, InHand, Truths
<1>4. WorkTells'
    <2>1. Accounted(journal.log, ingest.work.last)' = Accounted(journal.log, ingest.work.last)
        BY <1>1 DEF Accounted, Untouched, Plain, GoneAt, EntryAt, Here
    <2>2. \A r : Untouched(r.e, r.id, ingest.work.last)' = Untouched(r.e, r.id, ingest.work.last)
        BY <1>1 DEF Untouched
    <2>3. OnLog' = OnLog /\ Here' = Here
        BY <1>1 DEF OnLog, Here
    <2> QED
        BY <1>1, <2>1, <2>2, <2>3 DEF WorkTells, InHand, Truths
<1>5. JournalTells' = JournalTells
    <2>1. \A h : Behind(h)' = Behind(h)
        BY <1>1 DEF Behind, OnWire, InHand
    <2>2. Behind(Here)' = Behind(Here)
        BY <1>1 DEF Behind, OnWire, InHand, Here
    <2>3. \A h : Accounted(journal.log, h)' = Accounted(journal.log, h)
        BY <1>1 DEF Accounted, Untouched, Plain, GoneAt, EntryAt, Here
    <2>4. \A i : Told(i)' = Told(i)
        BY <1>1, <2>1, <2>3 DEF Told
    <2>5. \A x : /\ RowTells(x)' = RowTells(x) /\ Safe(x.e, Here, x.id)' = Safe(x.e, Here, x.id)
                 /\ Quiet(x.e, x.id, Here)' = Quiet(x.e, x.id, Here)
        BY <1>1 DEF RowTells, TellsAt, Placed, Safe, Quiet, Untouched, Is, GoneAt, EntryAt, Here
    <2>6. OnLog' = OnLog /\ Here' = Here
        BY <1>1 DEF OnLog, Here
    <2> QED
        BY <1>1, <2>2, <2>4, <2>5, <2>6 DEF JournalTells, OneRowEach
<1> QED
    BY <1>1, <1>3, <1>4, <1>5, SameLog DEF Truths

\* An entity gone before and after a batch is gone at an event whose row says no insert
\* of it will be cancelled.
LEMMA StaysGone ==
    ASSUME LogOK, NEW e, NEW h \in Here .. Len(log), NEW m \in Here + 1 .. h,
           GoneAt(e, Here), GoneAt(e, h), Plain(Here, h), Safe(e, Here, m)
    PROVE  GoneAt(e, m)
<1>1. Here \in Nat /\ h \in Nat /\ m \in Nat
    BY DEF LogOK
<1>2. SUFFICES ASSUME ~GoneAt(e, m) PROVE FALSE
    OBVIOUS
<1>3. Plain(Here, m) /\ Plain(m, h)
    BY <1>1 DEF Plain
<1>4. PICK n \in Here + 1 .. m : Is(n, e, "Insert")
    BY <1>1, <1>2, <1>3, Appears DEF LogOK
<1>5. PICK d \in m + 1 .. h : Is(d, e, "Delete")
    BY <1>1, <1>2, <1>3, Disappears DEF LogOK
<1> QED
    BY <1>1, <1>4, <1>5 DEF Safe

\* What the work in hand is known to be once it is published.
LEMMA PublishedWork ==
    ASSUME Base, Truths, OnLog, ingest.pc = "publish"
    PROVE  /\ Accounted(journal.log, ingest.work.last) /\ ingest.work.last \in Here .. Len(log)
           /\ Plain(Here, ingest.work.last) /\ ingest.work.epoch = epoch
           /\ \A x \in journal.log : x.id \in 1 .. ingest.work.last /\ Placed(x) /\ x.e \in Entities
<1>1. Accounted(journal.log, ingest.work.last)
    BY DEF Truths, WorkTells
<1>2. ingest.work.epoch = epoch /\ InHand
    BY BaseTypes DEF Truths, WorkTells, Epochs, OnLog, InHand
<1>3. ingest.work.last \in Here .. Len(log) /\ Len(log) \in Nat /\ Here \in Nat
    BY <1>1, BaseLog DEF Accounted, Truths
<1>4. ASSUME NEW x \in journal.log PROVE x.id \in 1 .. ingest.work.last /\ Placed(x) /\ x.e \in Entities
    <2>1. RowTells(x) /\ x.e \in Entities /\ (x.id > Here => Told(x.id))
        BY DEF Truths, JournalTells
    <2>2. Placed(x) /\ x.id \in 1 .. Len(log)
        BY <2>1 DEF RowTells, Placed
    <2>3. Told(x.id) => x.id <= ingest.work.last
        BY <1>2, <1>3, <2>2 DEF Told, Behind
    <2> QED
        BY <1>3, <2>1, <2>2, <2>3
<1> QED
    BY <1>1, <1>2, <1>3, <1>4 DEF Accounted

\* The newest row of an entity in the journal says all there is to say up to the batch's end.
LEMMA NewestQuiet ==
    ASSUME Base, Truths, OnLog, ingest.pc = "publish", NEW x \in journal.log
    PROVE  Quiet(x.e, x.id, ingest.work.last) \/ \E y \in journal.log : y.e = x.e /\ y.id > x.id
<1> PICK last : last = ingest.work.last
    OBVIOUS
<1>1. /\ Accounted(journal.log, last) /\ last \in Here .. Len(log) /\ Plain(Here, last)
      /\ \A y \in journal.log : y.id \in 1 .. last /\ Placed(y) /\ y.e \in Entities
    BY PublishedWork
<1>2. LogOK /\ Here \in Nat /\ Len(log) \in Nat
    BY BaseLog DEF Truths
<1>3. SUFFICES ASSUME \A y \in journal.log : y.e = x.e => y.id <= x.id
               PROVE  Quiet(x.e, x.id, last)
    BY <1>1
<1>4. CASE x.id <= Here
    <2>1. Quiet(x.e, x.id, Here)
        BY <1>1, <1>3, <1>4 DEF Truths, JournalTells
    <2>2. Quiet(x.e, Here, last)
        BY <1>1, <1>2, <1>3, <1>4 DEF Accounted, Quiet
    <2> QED
        BY <1>1, <1>2, <1>4, <2>1, <2>2, QuietJoins
<1>5. CASE x.id > Here
    <2>1. x.id \in Here + 1 .. last
        BY <1>1, <1>2, <1>5
    <2>2. Untouched(x.e, x.id, last) \/ (GoneAt(x.e, Here) /\ GoneAt(x.e, last))
        BY <1>1, <1>2, <1>3, <2>1, AccountedAt
    <2>3. Safe(x.e, Here, x.id)
        BY <1>5 DEF Truths, JournalTells
    <2>4. GoneAt(x.e, Here) /\ GoneAt(x.e, last) => GoneAt(x.e, x.id)
        BY <1>1, <1>2, <2>1, <2>3, StaysGone
    <2> QED
        BY <2>2, <2>4 DEF Quiet
<1> QED
    BY <1>1, <1>2, <1>4, <1>5
\* The cursor moves over a batch that is published.
LEMMA AdvancedCursor ==
    ASSUME Base, Truths, AdvanceIngested
    PROVE  /\ ingest.pc = "publish" /\ ingest.work.rows = {} /\ ingest'.pc \in {"stream", "flush"}
           /\ ingest'.state \in {"Streaming", ingest.state}
           /\ journal'.log = journal.log /\ journal'.epoch = journal.epoch /\ journal'.resync = journal.resync
           /\ journal'.floor = journal.floor /\ journal'.marks = journal.marks
           /\ journal'.cursor \in Nat /\ Here' = journal'.cursor /\ OnLog' = OnLog
           /\ OnLog => Here' = ingest.work.last
           /\ UNCHANGED <<log, writes, epoch, retained, wire, store, pending, generation, gate, sub>>
<1>1. /\ ingest.pc = "publish" /\ ingest.work.rows = {} /\ ingest'.pc \in {"stream", "flush"}
      /\ ingest'.state \in {"Streaming", ingest.state}
      /\ journal'.log = journal.log /\ journal'.epoch = journal.epoch /\ journal'.resync = journal.resync
      /\ journal'.floor = journal.floor /\ journal'.marks = journal.marks
      /\ journal'.cursor = AdvanceSyncId(journal.cursor, ingest.work.last)
      /\ UNCHANGED <<log, writes, epoch, retained, wire, store, pending, generation, gate, sub>>
    BY DEF AdvanceIngested, AdvanceCursor, Streaming, StoppedIngest, Base, TypeInv, TypeOK, Journal, IngestFiber
<1>2. journal.cursor \in Nat \cup {None} /\ ingest.work.last \in Nat /\ None = -1
    BY BaseTypes
<1>3. journal'.cursor \in Nat /\ journal'.cursor >= ingest.work.last
      /\ (Here <= ingest.work.last => journal'.cursor = ingest.work.last)
    BY <1>1, <1>2 DEF AdvanceSyncId, MaxSyncId, Here, OrZero, ZeroSyncId
<1>4. Here' = journal'.cursor /\ OnLog' = OnLog
    BY <1>1, <1>2, <1>3 DEF Here, OrZero, OnLog
<1>5. OnLog => Here <= ingest.work.last
    <2>1. OnLog => ingest.work.last \in Here .. Len(log)
        BY <1>1, PublishedWork
    <2> QED
        BY <2>1, BaseLog DEF Truths
<1> QED
    BY <1>1, <1>3, <1>4, <1>5

\* Moving the cursor to the end of a batch that was told in full (advanceIngested).
LEMMA TruthsAdvance ==
    ASSUME Base, Truths, AdvanceIngested
    PROVE  Truths'
<1>1. /\ ingest.pc = "publish" /\ ingest'.pc \in {"stream", "flush"} /\ ~InHand'
      /\ journal'.log = journal.log /\ journal'.epoch = journal.epoch /\ journal'.resync = journal.resync
      /\ journal'.floor = journal.floor /\ OnLog' = OnLog /\ log' = log /\ epoch' = epoch /\ wire' = wire
      /\ OnLog => Here' = ingest.work.last
    BY AdvancedCursor DEF InHand
<1>2. wire.stage = "none" /\ ~OnWire'
    BY <1>1 DEF Truths, WireTells, OnWire
<1>3. WireTells' /\ WorkTells' /\ Epochs'
    BY <1>1, <1>2 DEF WireTells, WorkTells, Epochs, InHand, Truths
<1>4. JournalTells'
    <2>1. SUFFICES ASSUME OnLog PROVE JournalTells'
        BY <1>1 DEF JournalTells
    <2> PICK last : last = ingest.work.last
        OBVIOUS
    <2>2. /\ last \in Here .. Len(log) /\ \A x \in journal.log : x.id \in 1 .. last /\ Placed(x) /\ x.e \in Entities
          /\ Here' = last /\ Here \in Nat /\ Len(log) \in Nat
        BY <1>1, <2>1, PublishedWork, BaseLog DEF Truths
    <2>3. ASSUME NEW x \in journal.log
          PROVE  Quiet(x.e, x.id, last)' \/ \E y \in journal.log : y.e = x.e /\ y.id > x.id
        BY <1>1, <2>1, NewestQuiet, SameLog
    <2>4. ASSUME NEW x \in journal.log
          PROVE  Quiet(x.e, x.id, Here)' \/ \E y \in journal.log : y.e = x.e /\ y.id > x.id
        BY <2>2, <2>3 DEF Quiet, Untouched, GoneAt, EntryAt
    <2>5. journal.resync <= last /\ \A m \in Models : journal.floor[m] <= last
        <3>1. journal.resync <= Here /\ \A m \in Models : journal.floor[m] <= Here
            BY <2>1 DEF Truths, JournalTells
        <3>2. journal.resync \in Int /\ \A m \in Models : journal.floor[m] \in Int
            BY BaseTypes
        <3>3. Here <= last /\ Here \in Int /\ last \in Int
            BY <2>2
        <3> QED
            BY <3>1, <3>2, <3>3
    <2>6. Behind(Here)'
        BY <1>1, <1>2, <2>2 DEF Behind
    <2>7. \A x \in journal.log : RowTells(x)'
        BY <1>1, <2>1, SameLog DEF Truths, JournalTells
    <2>8. OneRowEach(journal.log)
        BY <2>1 DEF Truths, JournalTells
    <2> QED
        BY <1>1, <2>2, <2>4, <2>5, <2>6, <2>7, <2>8 DEF JournalTells, OneRowEach
<1> QED
    BY <1>1, <1>3, <1>4, SameLog DEF Truths

\* What is left of a pruned journal.
LEMMA PrunedJournal ==
    ASSUME Base, CoverageInv, PruneCommit
    PROVE  /\ ingest.pc = "commit" /\ ingest'.pc = "stream" /\ ingest'.state = "Streaming"
           /\ OnLog => journal'.log = journal.log \ ingest.plan.rows
           /\ journal'.cursor = journal.cursor /\ journal'.epoch = journal.epoch
           /\ journal'.resync = journal.resync /\ journal'.marks = journal.marks
           /\ \A m \in Models : journal'.floor[m] = MaxSyncId(journal.floor[m], ingest.plan.floor[m])
           /\ Here' = Here /\ OnLog' = OnLog
           /\ UNCHANGED <<log, writes, epoch, retained, wire, store, pending, generation, gate, sub>>
<1>1. /\ ingest.pc = "commit" /\ ingest'.pc = "stream" /\ ingest'.state = "Streaming"
      /\ journal' = CommitPrune(journal, ingest.plan)
      /\ UNCHANGED <<log, writes, epoch, retained, wire, store, pending, generation, gate, sub>>
    BY DEF PruneCommit, Streaming, StoppedIngest
<1>2. /\ journal'.log = {r \in journal.log : \A d \in ingest.plan.rows : d.id # r.id}
      /\ journal'.cursor = journal.cursor /\ journal'.epoch = journal.epoch
      /\ journal'.resync = journal.resync /\ journal'.marks = journal.marks
      /\ \A m \in Models : journal'.floor[m] = MaxSyncId(journal.floor[m], ingest.plan.floor[m])
    BY <1>1 DEF CommitPrune, Base, TypeInv, TypeOK, Journal
<1>3. Here' = Here /\ OnLog' = OnLog
    BY <1>1, <1>2 DEF Here, OnLog
<1>4. OnLog => journal'.log = journal.log \ ingest.plan.rows
    <2>1. OnLog => ingest.plan.rows \subseteq journal.log /\ OneRowEach(journal.log)
        BY <1>1 DEF CoverageInv, Pruning, JournalTells
    <2> QED
        BY <1>2, <2>1 DEF OneRowEach
<1> QED
    BY <1>1, <1>2, <1>3, <1>4

\* Deleting what the planned prune names, and raising the floors that cover it.
LEMMA TruthsPrune ==
    ASSUME Base, CoverageInv, PruneCommit
    PROVE  Truths'
<1>1. /\ ingest.pc = "commit" /\ ingest'.pc = "stream" /\ ~InHand' /\ log' = log /\ epoch' = epoch /\ wire' = wire
      /\ journal'.epoch = journal.epoch /\ journal'.resync = journal.resync
      /\ \A m \in Models : journal'.floor[m] = MaxSyncId(journal.floor[m], ingest.plan.floor[m])
      /\ Here' = Here /\ OnLog' = OnLog /\ (OnLog => journal'.log = journal.log \ ingest.plan.rows)
    BY PrunedJournal DEF InHand
<1>2. wire.stage = "none" /\ ~OnWire'
    BY <1>1 DEF CoverageInv, WireTells, OnWire
<1>3. WireTells' /\ WorkTells' /\ Epochs'
    BY <1>1, <1>2 DEF WireTells, WorkTells, Epochs, InHand, CoverageInv
<1>4. JournalTells'
    <2>1. SUFFICES ASSUME OnLog PROVE JournalTells'
        BY <1>1 DEF JournalTells
    <2>2. /\ \A x \in journal.log : x.id <= Here
          /\ \A x, y \in journal.log : x.e = y.e /\ x.id < y.id => x \in ingest.plan.rows
          /\ \A m \in Models : ingest.plan.floor[m] <= Here
        BY <1>1, <2>1 DEF CoverageInv, Pruning
    <2>3. Behind(Here)'
        BY <1>1, <1>2, <2>1 DEF CoverageInv, JournalTells, Behind
    <2>4. \A m \in Models : journal'.floor[m] <= Here
        BY <1>1, <2>1, <2>2 DEF CoverageInv, JournalTells, MaxSyncId
    <2>5. ASSUME NEW x \in journal.log, x \notin ingest.plan.rows PROVE Quiet(x.e, x.id, Here)
        <3>1. Quiet(x.e, x.id, Here) \/ \E y \in journal.log : y.e = x.e /\ y.id > x.id
            BY <2>1, <2>2 DEF CoverageInv, JournalTells
        <3>2. \A y \in journal.log : x.id \in Nat /\ y.id \in Nat
            BY BaseLog DEF CoverageInv
        <3> QED
            BY <2>2, <2>5, <3>1, <3>2
    <2>6. \A x : RowTells(x)' = RowTells(x) /\ Quiet(x.e, x.id, Here)' = Quiet(x.e, x.id, Here)
        BY <1>1 DEF RowTells, TellsAt, Placed, Quiet, Untouched, Is, GoneAt, EntryAt
    <2>7. Here \in Nat /\ \A x \in journal.log : x.id \in Nat
        BY BaseLog DEF CoverageInv
    <2>8. journal.resync <= Here /\ OneRowEach(journal.log) /\ \A x \in journal.log : RowTells(x) /\ x.e \in Entities
        BY <2>1 DEF CoverageInv, JournalTells
    <2>9. OneRowEach(journal.log)'
        BY <1>1, <2>1, <2>8 DEF OneRowEach
    <2>10. ASSUME NEW x \in journal'.log
           PROVE  RowTells(x)' /\ x.e \in Entities /\ x.id <= Here /\ Quiet(x.e, x.id, Here)' /\ x.id \in Nat
        <3>1. x \in journal.log /\ x \notin ingest.plan.rows
            BY <1>1, <2>1, <2>10
        <3> QED
            BY <2>2, <2>5, <2>6, <2>7, <2>8, <3>1
    <2>11. \A x \in journal'.log : ~(x.id > Here')
        BY <1>1, <2>7, <2>10
    <2> QED
        BY <1>1, <2>1, <2>3, <2>4, <2>8, <2>9, <2>10, <2>11 DEF JournalTells
<1> QED
    BY <1>1, <1>3, <1>4, SameLog DEF Truths, CoverageInv

\* Beginning a recovery leaves what it is about to wipe.
LEMMA TruthsBegin ==
    ASSUME Base, Truths, BeginRecovery
    PROVE  Truths'
<1>1. /\ ingest.pc = "recover" /\ ingest'.pc = "wipe" /\ ingest'.work = ingest.work /\ ingest'.state = ingest.state
      /\ log' = log /\ epoch' = epoch /\ retained' = retained /\ wire' = wire /\ journal' = journal
    BY DEF BeginRecovery, Base, TypeInv, TypeOK, IngestFiber
<1>2. wire.stage = "none" /\ InHand' = InHand
    BY <1>1 DEF Truths, WireTells, InHand
<1>3. WireTells' /\ Epochs'
    BY <1>1, <1>2 DEF WireTells, OnWire, Epochs, Truths
<1>4. WorkTells'
    BY <1>1, <1>2 DEF WorkTells, InHand, OnLog, ResyncAhead, Here, Truths
<1>5. JournalTells' = JournalTells
    <2>1. \A h : Behind(h)' = Behind(h)
        BY <1>1, <1>2 DEF Behind, OnWire
    <2>2. Behind(Here)' = Behind(Here)
        BY <1>1, <1>2 DEF Behind, OnWire, Here
    <2>3. \A h : Accounted(journal.log, h)' = Accounted(journal.log, h)
        BY <1>1 DEF Accounted, Untouched, Plain, GoneAt, EntryAt, Here
    <2>4. \A i : Told(i)' = Told(i)
        BY <1>1, <2>1, <2>3 DEF Told
    <2>5. \A x : /\ RowTells(x)' = RowTells(x) /\ Safe(x.e, Here, x.id)' = Safe(x.e, Here, x.id)
                 /\ Quiet(x.e, x.id, Here)' = Quiet(x.e, x.id, Here)
        BY <1>1 DEF RowTells, TellsAt, Placed, Safe, Quiet, Untouched, Is, GoneAt, EntryAt, Here
    <2>6. OnLog' = OnLog /\ Here' = Here
        BY <1>1 DEF OnLog, Here
    <2> QED
        BY <1>1, <2>2, <2>4, <2>5, <2>6 DEF JournalTells, OneRowEach
<1> QED
    BY <1>1, <1>3, <1>4, <1>5, SameLog DEF Truths

\* A wiped journal: no rows, no marks, and a cursor at the recovery's position.
LEMMA WipedJournal ==
    ASSUME Base, Truths, WipeJournal
    PROVE  /\ ingest.pc = "wipe" /\ ingest'.pc = "tell" /\ ingest'.work = ingest.work /\ ingest'.state = ingest.state
           /\ journal'.log = {} /\ journal'.cursor = ingest.work.last /\ journal'.marks = NoMarks
           /\ journal'.floor = [m \in Models |-> None]
           /\ journal'.resync = IF ingest.work.kind = "EpochReset" THEN None ELSE ingest.work.last
           /\ journal'.epoch = IF ingest.work.kind = "EpochReset" THEN ingest.work.epoch ELSE journal.epoch
           /\ Here' = ingest.work.last
           /\ OnLog' => ingest.work.epoch = epoch /\ ingest.work.last <= Len(log)
           /\ UNCHANGED <<log, writes, epoch, retained, wire, store, pending, generation, gate, sub>>
<1>1. /\ ingest.pc = "wipe" /\ ingest'.pc = "tell" /\ ingest'.work = ingest.work /\ ingest'.state = ingest.state
      /\ journal'.log = {} /\ journal'.cursor = ingest.work.last /\ journal'.marks = NoMarks
      /\ journal'.floor = [m \in Models |-> None]
      /\ journal'.resync = IF ingest.work.kind = "EpochReset" THEN None ELSE ingest.work.last
      /\ journal'.epoch = IF ingest.work.kind = "EpochReset" THEN ingest.work.epoch ELSE journal.epoch
      /\ UNCHANGED <<log, writes, epoch, retained, wire, store, pending, generation, gate, sub>>
    BY DEF WipeJournal, ResetToEpoch, ResetCoverage, EmptyJournal, NoMarks, Base, TypeInv, TypeOK, IngestFiber
<1>2. ingest.work.last \in Nat /\ ingest.work.epoch \in Nat /\ epoch \in Nat /\ journal.epoch \in Nat \cup {None} /\ None = -1
    BY BaseTypes
<1>3. Here' = ingest.work.last
    BY <1>1, <1>2 DEF Here, OrZero
<1>4. OnLog' => ingest.work.epoch = epoch /\ ingest.work.last <= Len(log)
    <2>1. InHand /\ (InHand => journal.epoch # None)
        BY <1>1 DEF InHand, Truths, Epochs
    <2>2. OnLog' => ingest.work.epoch = epoch
        BY <1>1, <1>2, <2>1 DEF OnLog, Truths, WorkTells
    <2> QED
        BY <2>1, <2>2 DEF Truths, WorkTells
<1> QED
    BY <1>1, <1>3, <1>4

\* A recovery empties the journal and takes the position of the answer it met.
LEMMA TruthsWipe ==
    ASSUME Base, Truths, WipeJournal
    PROVE  Truths'
<1>1. /\ ingest.pc = "wipe" /\ ingest'.pc = "tell" /\ ingest'.work = ingest.work /\ ingest'.state = ingest.state
      /\ journal'.log = {} /\ journal'.floor = [m \in Models |-> None]
      /\ journal'.resync = IF ingest.work.kind = "EpochReset" THEN None ELSE ingest.work.last
      /\ journal'.epoch = IF ingest.work.kind = "EpochReset" THEN ingest.work.epoch ELSE journal.epoch
      /\ Here' = ingest.work.last /\ (OnLog' => ingest.work.epoch = epoch /\ ingest.work.last <= Len(log))
      /\ UNCHANGED <<log, epoch, retained, wire>>
    BY WipedJournal
<1>2. /\ ingest.work.last \in Nat /\ ingest.work.epoch \in Nat /\ epoch \in Nat
      /\ journal.epoch \in Nat \cup {None} /\ None = -1
    BY BaseTypes
<1>3. wire.stage = "none" /\ wire' = wire /\ ~OnWire' /\ InHand /\ InHand'
    BY <1>1 DEF Truths, WireTells, InHand, OnWire
<1>4. WireTells'
    BY <1>3 DEF WireTells
<1>5. WorkTells'
    BY <1>1, <1>3 DEF WorkTells, Truths
<1>6. Epochs'
    BY <1>1, <1>2, <1>3 DEF Epochs, Truths, WorkTells
<1>7. JournalTells'
    <2>1. SUFFICES ASSUME OnLog' PROVE JournalTells'
        BY DEF JournalTells
    <2>2. Behind(Here)'
        BY <1>1, <1>2, <1>3, <2>1 DEF Behind
    <2>3. \A m \in Models : journal'.floor[m] <= Here'
        BY <1>1, <1>2
    <2> QED
        BY <1>1, <1>2, <2>2, <2>3 DEF JournalTells, OneRowEach
<1> QED
    BY <1>1, <1>4, <1>5, <1>6, <1>7, SameLog DEF Truths

\* Every step keeps what is said of the log, the wire, the work in hand and the journal.
LEMMA TruthsNext ==
    ASSUME Base, CoverageInv, [Next]_vars
    PROVE  Truths'
<1>1. Truths
    BY DEF CoverageInv, Truths
<1>2. LogTags
    BY DEF CoverageInv
<1>3. ASSUME UNCHANGED <<log, epoch, retained, wire, ingest, journal>> PROVE Truths'
    BY <1>1, <1>3, TruthsStand DEF SameRows
<1>4. CASE ServerWrites
    <2>1. PICK x : Grown(x)
        BY <1>2, <1>4, WritesGrow
    <2> QED
        BY <2>1, TruthsGrow
<1>5. CASE Expire
    BY <1>1, <1>5, TruthsExpire
<1>6. CASE Restore
    BY <1>1, <1>6, TruthsRestore
<1>7. CASE Serve
    BY <1>1, <1>7, TruthsList, TruthsHydrate DEF Serve
<1>8. CASE Start
    <2>1. ingest.pc = "stopped" /\ ingest'.pc \in {"stream", "catchup"} /\ UNCHANGED <<log, epoch, retained, wire, journal>>
        BY <1>8 DEF Start, Base, TypeInv, TypeOK, IngestFiber
    <2>2. ~InHand' /\ SameRows
        BY <2>1 DEF InHand, SameRows
    <2> QED
        BY <1>1, <2>1, <2>2, TruthsRelease
<1>9. CASE Accept
    BY <1>1, <1>9, TruthsAccept
<1>10. CASE AppendChunk
    BY <1>1, <1>10, TruthsAppend
<1>11. CASE PublishRow
    BY <1>1, <1>11, TruthsPublish
<1>12. CASE AdvanceIngested
    BY <1>1, <1>12, TruthsAdvance
<1>13. CASE FlushBeforePrune
    <2>1. /\ ingest.pc = "flush" /\ ingest'.pc = "prune" /\ UNCHANGED <<log, epoch, retained, wire>>
          /\ journal' = FoldMarks(journal, pending)
        BY <1>13 DEF FlushBeforePrune, FlushMarks, Base, TypeInv, TypeOK, IngestFiber
    <2>2. ~InHand' /\ SameRows /\ wire'.stage = "none"
        BY <1>1, <2>1 DEF InHand, SameRows, FoldMarks, Truths, WireTells, Base, TypeInv, TypeOK, Journal
    <2> QED
        BY <1>1, <2>1, <2>2, TruthsRelease
<1>14. CASE PruneRead
    <2>1. /\ ingest.pc = "prune" /\ ingest'.pc \in {"stream", "commit"} /\ UNCHANGED <<log, epoch, retained, wire, journal>>
        BY <1>14 DEF PruneRead, Streaming, StoppedIngest, Base, TypeInv, TypeOK, IngestFiber
    <2>2. ~InHand' /\ SameRows /\ wire'.stage = "none"
        BY <1>1, <2>1 DEF InHand, SameRows, Truths, WireTells
    <2> QED
        BY <1>1, <2>1, <2>2, TruthsRelease
<1>15. CASE PruneCommit
    BY <1>15, TruthsPrune
<1>16. CASE BeginRecovery
    BY <1>1, <1>16, TruthsBegin
<1>17. CASE WipeJournal
    BY <1>1, <1>17, TruthsWipe
<1>18. CASE TellRecovery
    <2>1. /\ ingest.pc = "tell" /\ ingest'.pc \in {"stream", "catchup"} /\ UNCHANGED <<log, epoch, retained, wire, journal>>
        BY <1>18 DEF TellRecovery, Streaming, StoppedIngest, Base, TypeInv, TypeOK, IngestFiber
    <2>2. ~InHand' /\ SameRows /\ wire'.stage = "none"
        BY <1>1, <2>1 DEF InHand, SameRows, Truths, WireTells
    <2> QED
        BY <1>1, <2>1, <2>2, TruthsRelease
<1>19. CASE TimedFlush
    <2>1. UNCHANGED <<log, epoch, retained, wire, ingest>> /\ journal' = FoldMarks(journal, pending)
        BY <1>19 DEF TimedFlush, FlushMarks
    <2>2. SameRows
        BY <2>1 DEF SameRows, FoldMarks, Base, TypeInv, TypeOK, Journal
    <2> QED
        BY <1>1, <2>1, <2>2, TruthsStand
<1>20. CASE Fail
    <2>1. /\ ingest'.pc = "catchup" /\ wire' = NoBatch /\ UNCHANGED <<log, epoch, retained, journal>>
        BY <1>20 DEF Fail, Base, TypeInv, TypeOK, IngestFiber
    <2>2. ~InHand' /\ SameRows /\ wire'.stage = "none"
        BY <2>1 DEF InHand, SameRows, NoBatch
    <2> QED
        BY <1>1, <2>1, <2>2, TruthsRelease
<1>21. CASE Stop
    <2>1. /\ ingest'.pc = "stopped" /\ wire' = NoBatch /\ UNCHANGED <<log, epoch, retained, journal>>
        BY <1>21 DEF Stop, StoppedIngest
    <2>2. ~InHand' /\ SameRows /\ wire'.stage = "none"
        BY <2>1 DEF InHand, SameRows, NoBatch
    <2> QED
        BY <1>1, <2>1, <2>2, TruthsRelease
<1>22. CASE Crash
    <2>1. /\ ingest'.pc = "stopped" /\ wire' = NoBatch /\ UNCHANGED <<log, epoch, retained>> /\ SameRows
        BY <1>22 DEF Crash, StoppedIngest, FoldMarks, SameRows, Base, TypeInv, TypeOK, Journal
    <2>2. ~InHand' /\ wire'.stage = "none"
        BY <2>1 DEF InHand, NoBatch
    <2> QED
        BY <1>1, <2>1, <2>2, TruthsRelease
<1>23. CASE \E c \in Collections : Unmount(c) \/ Mount(c) \/ Attach(c) \/ Drain(c)
    <2>1. UNCHANGED <<log, epoch, retained, wire, ingest, journal>>
        BY <1>23 DEF Unmount, Mount, Attach, ReadMark, ReadFloor, ReadJournal, Drain, TakeReplay, TakeTail,
                     ListServer, Land, Ack
    <2> QED
        BY <1>3, <2>1
<1>24. CASE UNCHANGED vars
    BY <1>3, <1>24 DEF vars
<1> QED
    BY <1>4, <1>5, <1>6, <1>7, <1>8, <1>9, <1>10, <1>11, <1>12, <1>13, <1>14, <1>15, <1>16, <1>17, <1>18, <1>19,
       <1>20, <1>21, <1>22, <1>23, <1>24 DEF Next, Run, Recover, Disturb
-----------------------------------------------------------------------------
(* The steps of an attachment, field by field *)

Others(c) == \A d \in Collections \ {c} : sub'[d] = sub[d]
Rest == UNCHANGED <<log, writes, epoch, retained, wire, journal, ingest, generation>>

\* Mount starts an attachment; the reads that follow fill its plan in.
LEMMA MountStep ==
    ASSUME Base, NEW c \in Collections, Mount(c)
    PROVE  /\ sub[c].pc = "off" /\ gate = Free /\ Others(c) /\ Rest /\ store' = store /\ pending' = pending
           /\ sub'[c].pc = "attach" /\ sub'[c].gen = generation /\ sub'[c].snap = None /\ sub'[c].replay = {}
           /\ sub'[c].queue = <<>> /\ sub'[c].guard = 0 /\ sub'[c].sig = NoItem /\ sub'[c].listing = NoRows
BY DEF Mount, Detached, Others, Rest, Base, TypeInv, TypeOK

\* A mount reads its collection's mark and the cursor.
LEMMA ReadMarkStep ==
    ASSUME Base, NEW c \in Collections, ReadMark(c)
    PROVE  /\ sub[c].pc = "attach" /\ Others(c) /\ Rest /\ store' = store /\ pending' = pending /\ gate' = gate
           /\ sub'[c].pc = "floor" /\ sub'[c].mark = Current(c) /\ sub'[c].cursor = journal.cursor
           /\ sub'[c].gen = sub[c].gen /\ sub'[c].snap = sub[c].snap /\ sub'[c].replay = sub[c].replay
           /\ sub'[c].queue = sub[c].queue /\ sub'[c].guard = sub[c].guard /\ sub'[c].sig = sub[c].sig
           /\ sub'[c].listing = sub[c].listing
BY DEF ReadMark, Others, Rest, Current, Base, TypeInv, TypeOK, Subscriber

\* A mount reads the retention floor of its collection's model.
LEMMA ReadFloorStep ==
    ASSUME Base, NEW c \in Collections, ReadFloor(c)
    PROVE  /\ sub[c].pc = "floor" /\ Others(c) /\ Rest /\ store' = store /\ pending' = pending /\ gate' = gate
           /\ sub'[c].pc = "read" /\ sub'[c].mark = sub[c].mark /\ sub'[c].cursor = sub[c].cursor
           /\ sub'[c].floor = journal.floor[CollModel[c]]
           /\ sub'[c].gen = sub[c].gen /\ sub'[c].snap = sub[c].snap /\ sub'[c].replay = sub[c].replay
           /\ sub'[c].queue = sub[c].queue /\ sub'[c].guard = sub[c].guard /\ sub'[c].sig = sub[c].sig
           /\ sub'[c].listing = sub[c].listing
BY DEF ReadFloor, Others, Rest, Base, TypeInv, TypeOK, Subscriber

\* Reading the journal starts the drain: a Snapshot or a replay slice, and a guard at or
\* above the plan's and every row read.
LEMMA ReadJournalStep ==
    ASSUME Base, NEW c \in Collections, ReadJournal(c)
    PROVE  LET s == sub[c]
               t == sub'[c]
               plan == PlanMount(s.mark, s.cursor, s.floor, journal.resync)
           IN  /\ s.pc = "read" /\ Others(c) /\ Rest /\ store' = store /\ pending' = pending
               /\ t.pc = "idle" /\ t.snap = IF plan.decision = "Snapshot" THEN plan.since ELSE None
               /\ t.replay = ReadRows(journal, CollModel[c], plan.since)
               /\ plan.since \in Nat /\ plan.guard \in Nat
               /\ t.guard \in Nat /\ t.guard >= plan.guard /\ \A r \in t.replay : r.id <= t.guard
               /\ t.guard = plan.guard \/ \E r \in t.replay : t.guard = r.id
               /\ t.gen = s.gen /\ t.queue = s.queue /\ t.sig = s.sig /\ t.listing = s.listing
<1> DEFINE s == sub[c]
           t == sub'[c]
           plan == PlanMount(s.mark, s.cursor, s.floor, journal.resync)
           rows == ReadRows(journal, CollModel[c], plan.since)
           ids == {r.id : r \in rows}
           guard == Max({plan.guard} \cup ids)
           snap == IF plan.decision = "Snapshot" THEN plan.since ELSE None
<1> USE DEF Base, TypeInv, TypeOK
<1>1. plan.since \in SyncId /\ plan.guard \in SyncId
    BY PlanMountType DEF Subscriber, Journal
<1>2. rows \in SUBSET Row /\ IsFiniteSet(rows)
    <2>1. rows \subseteq journal.log
        BY DEF ReadRows
    <2> QED
        BY <2>1, FS_Subset DEF Finite, Journal
<1>3. guard \in {plan.guard} \cup ids /\ \A i \in {plan.guard} \cup ids : guard >= i
    <2>1. IsFiniteSet(ids)
        BY <1>2, FiniteIds
    <2>2. IsFiniteSet({plan.guard} \cup ids)
        BY <2>1, FS_Singleton, FS_Union
    <2>3. {plan.guard} \cup ids \in SUBSET Nat
        BY <1>1, <1>2 DEF Row, SyncId
    <2> HIDE DEF ids
    <2> QED
        BY <2>2, <2>3, MaxOfPositions
<1>4. /\ s.pc = "read" /\ Others(c) /\ Rest /\ store' = store /\ pending' = pending
      /\ sub' = [sub EXCEPT ![c] =
            [s EXCEPT !.pc = "idle", !.mark = None, !.cursor = None, !.floor = None,
                      !.snap = snap, !.replay = rows, !.guard = guard]]
    BY DEF ReadJournal, Others, Rest
<1> HIDE DEF guard, snap, rows, plan
<1>5. /\ t.pc = "idle" /\ t.snap = snap /\ t.replay = rows /\ t.guard = guard
      /\ t.gen = s.gen /\ t.queue = s.queue /\ t.sig = s.sig /\ t.listing = s.listing
    BY <1>4 DEF Subscriber
<1>6. \A i \in ids : i \in Nat
    BY <1>2 DEF Row, SyncId
<1>7. guard \in Nat /\ guard >= plan.guard /\ (\A r \in rows : r.id <= guard)
      /\ (guard = plan.guard \/ \E r \in rows : guard = r.id)
    BY <1>1, <1>3, <1>6 DEF SyncId
<1> QED
    BY <1>1, <1>4, <1>5, <1>7 DEF plan, rows, snap, SyncId

\* The next signal is the mount's Snapshot, or the oldest row of the replay slice.
LEMMA TakeReplayStep ==
    ASSUME Base, NEW c \in Collections, TakeReplay(c)
    PROVE  LET s == sub[c]
               t == sub'[c]
           IN  /\ s.pc = "idle" /\ Others(c) /\ Rest /\ store' = store /\ pending' = pending /\ gate' = gate
               /\ t.queue = s.queue /\ t.guard = s.guard /\ t.gen = s.gen /\ t.listing = s.listing /\ t.snap = None
               /\ \/ /\ s.snap # None /\ t.replay = s.replay
                     /\ s.gen = generation => t.pc = "list" /\ t.sig.kind = "Mount" /\ t.sig.gen = generation
                                              /\ t.sig.row.id = s.snap
                     /\ s.gen # generation => t.pc = "idle" /\ t.sig = s.sig
                  \/ \E r \in s.replay :
                        /\ s.snap = None /\ t.replay = s.replay \ {r} /\ \A x \in s.replay : r.id <= x.id
                        /\ s.gen = generation => t.pc = "land" /\ t.sig.kind = "Event" /\ t.sig.gen = generation
                                                 /\ t.sig.row = r
                        /\ s.gen # generation => t.pc = "idle" /\ t.sig = s.sig
<1> DEFINE s == sub[c]
           t == sub'[c]
<1>1. s \in Subscriber /\ s.pc = "idle" /\ Others(c) /\ Rest /\ store' = store /\ pending' = pending /\ gate' = gate
    BY DEF TakeReplay, Others, Rest, Base, TypeInv, TypeOK
<1>2. CASE s.snap # None
    <2> DEFINE item == [kind |-> "Mount", row |-> ControlRow(s.snap), gen |-> s.gen]
    <2>1. t = Handling([s EXCEPT !.snap = None], item)
        BY <1>2 DEF TakeReplay, Base, TypeInv, TypeOK
    <2> QED
        BY <1>1, <1>2, <2>1 DEF Handling, Subscriber, ControlRow
<1>3. CASE s.snap = None
    <2> DEFINE r == Oldest(s.replay)
               item == [kind |-> "Event", row |-> r, gen |-> s.gen]
    <2>1. s.replay # {} /\ t = Handling([s EXCEPT !.replay = @ \ {r}], item)
        BY <1>3 DEF TakeReplay, Base, TypeInv, TypeOK
    <2>2. r \in s.replay /\ \A x \in s.replay : r.id <= x.id
        <3>1. s.replay \in SUBSET Row
            BY <1>1 DEF Subscriber
        <3> QED
            BY <2>1, <3>1, OldestRow
    <2> HIDE DEF r
    <2> QED
        BY <1>1, <1>3, <2>1, <2>2 DEF Handling, Subscriber
<1> QED
    BY <1>2, <1>3

\* The head of the tail is emitted unless it is stale or of an earlier generation.
LEMMA TakeTailStep ==
    ASSUME Base, NEW c \in Collections, TakeTail(c)
    PROVE  LET s == sub[c]
               t == sub'[c]
               item == s.queue[1]
           IN  /\ s.pc = "idle" /\ Others(c) /\ Rest /\ store' = store /\ pending' = pending /\ gate' = gate
               /\ s.snap = None /\ s.replay = {} /\ t.snap = None /\ t.replay = {}
               /\ t.gen = s.gen /\ t.listing = s.listing
               /\ Len(s.queue) \in Nat /\ Len(s.queue) > 0 /\ Len(t.queue) = Len(s.queue) - 1
               /\ \A k \in 1 .. Len(t.queue) : t.queue[k] = s.queue[k + 1]
               /\ t.guard = GuardAfter(s.guard, item.kind, item.row.id)
               /\ IF IsStale(s.guard, item.kind, item.row.id) \/ item.gen # generation
                  THEN t.pc = "idle" /\ t.sig = s.sig
                  ELSE t.sig = item /\ t.pc = IF item.kind = "Event" THEN "land" ELSE "list"
<1> DEFINE s == sub[c]
           t == sub'[c]
           item == s.queue[1]
           guard == GuardAfter(s.guard, item.kind, item.row.id)
           tail == Tail(s.queue)
<1>1. /\ s \in Subscriber /\ s.pc = "idle" /\ Others(c) /\ Rest /\ store' = store /\ pending' = pending /\ gate' = gate
      /\ s.snap = None /\ s.replay = {} /\ s.queue # <<>>
    BY DEF TakeTail, Others, Rest, Base, TypeInv, TypeOK
<1>2. s.queue \in Seq(Item)
    BY <1>1 DEF Subscriber
<1>3. /\ Len(s.queue) \in Nat /\ Len(s.queue) > 0 /\ Len(tail) = Len(s.queue) - 1
      /\ \A k \in 1 .. Len(tail) : tail[k] = s.queue[k + 1]
      /\ Head(s.queue) = item
    BY <1>1, <1>2
<1>4. t = IF IsStale(s.guard, item.kind, item.row.id) THEN [s EXCEPT !.queue = tail, !.guard = guard]
          ELSE Handling([s EXCEPT !.queue = tail, !.guard = guard], item)
    BY <1>3 DEF TakeTail, Base, TypeInv, TypeOK
<1> HIDE DEF guard, tail
<1>5. /\ t.queue = tail /\ t.guard = guard /\ t.snap = None /\ t.replay = {} /\ t.gen = s.gen /\ t.listing = s.listing
      /\ IF IsStale(s.guard, item.kind, item.row.id) \/ item.gen # generation
         THEN t.pc = "idle" /\ t.sig = s.sig
         ELSE t.sig = item /\ t.pc = IF item.kind = "Event" THEN "land" ELSE "list"
    BY <1>1, <1>4 DEF Handling, Subscriber
<1> QED
    BY <1>1, <1>3, <1>5 DEF guard

\* A listing takes the server's rows of this moment.
LEMMA ListStep ==
    ASSUME Base, NEW c \in Collections, ListServer(c)
    PROVE  LET s == sub[c]
               t == sub'[c]
           IN  /\ s.pc = "list" /\ Others(c) /\ Rest /\ store' = store /\ pending' = pending /\ gate' = gate
               /\ t.pc = "land" /\ t.listing = Truth(c)
               /\ t.sig = s.sig /\ t.gen = s.gen /\ t.snap = s.snap /\ t.replay = s.replay
               /\ t.queue = s.queue /\ t.guard = s.guard
<1> DEFINE truth == Truth(c)
<1>1. /\ sub' = [sub EXCEPT ![c] = [@ EXCEPT !.pc = "land", !.listing = truth]]
      /\ sub[c].pc = "list" /\ Others(c) /\ Rest /\ store' = store /\ pending' = pending /\ gate' = gate
    BY DEF ListServer, Others, Rest, Base, TypeInv, TypeOK
<1> HIDE DEF truth
<1>2. sub[c] \in Subscriber /\ sub'[c] = [sub[c] EXCEPT !.pc = "land", !.listing = truth]
    BY <1>1 DEF Base, TypeInv, TypeOK
<1>3. /\ sub'[c].pc = "land" /\ sub'[c].listing = truth
      /\ sub'[c].sig = sub[c].sig /\ sub'[c].gen = sub[c].gen /\ sub'[c].snap = sub[c].snap
      /\ sub'[c].replay = sub[c].replay /\ sub'[c].queue = sub[c].queue /\ sub'[c].guard = sub[c].guard
    BY <1>2 DEF Subscriber
<1> QED
    BY <1>1, <1>3 DEF truth

\* A listing replaces the table; a row changes the entity that it is about.
LEMMA LandStep ==
    ASSUME Base, NEW c \in Collections, Land(c)
    PROVE  LET s == sub[c]
               t == sub'[c]
           IN  /\ s.pc = "land" /\ Others(c) /\ Rest /\ pending' = pending /\ gate' = gate
               /\ \A d \in Collections \ {c} : store'[d] = store[d]
               /\ s.sig.kind # "Event" => store'[c] = s.listing
               /\ s.sig.kind = "Event" => \A e \in Entities :
                    store'[c][e] = IF e = s.sig.row.e THEN LandedRow(c, s.sig.row) ELSE store[c][e]
               /\ t.pc = "ack" /\ t.listing = NoRows
               /\ t.sig = s.sig /\ t.gen = s.gen /\ t.snap = s.snap /\ t.replay = s.replay
               /\ t.queue = s.queue /\ t.guard = s.guard
<1>1. /\ sub' = [sub EXCEPT ![c].pc = "ack", ![c].listing = NoRows] /\ store' = [store EXCEPT ![c] = Landed(c, sub[c])]
      /\ sub[c].pc = "land" /\ Others(c) /\ Rest /\ pending' = pending /\ gate' = gate
      /\ \A d \in Collections \ {c} : store'[d] = store[d]
    BY DEF Land, Commit, Others, Rest, Base, TypeInv, TypeOK
<1>2. sub[c] \in Subscriber /\ sub'[c] = [sub[c] EXCEPT !.pc = "ack", !.listing = NoRows]
      /\ store'[c] = Landed(c, sub[c]) /\ store[c] \in [Entities -> Nat]
    BY <1>1 DEF Base, TypeInv, TypeOK
<1>3. sub[c].sig.kind = "Event" => \A e \in Entities :
          store'[c][e] = IF e = sub[c].sig.row.e THEN LandedRow(c, sub[c].sig.row) ELSE store[c][e]
    BY <1>2 DEF Landed, LandedRow
<1>4. sub[c].sig.kind # "Event" => store'[c] = sub[c].listing
    BY <1>2 DEF Landed
<1>5. /\ sub'[c].pc = "ack" /\ sub'[c].listing = NoRows
      /\ sub'[c].sig = sub[c].sig /\ sub'[c].gen = sub[c].gen /\ sub'[c].snap = sub[c].snap
      /\ sub'[c].replay = sub[c].replay /\ sub'[c].queue = sub[c].queue /\ sub'[c].guard = sub[c].guard
    BY <1>2 DEF Subscriber
<1> QED
    BY <1>1, <1>3, <1>4, <1>5

\* An ack advances the pending mark, unless a recovery has begun since the item was queued.
LEMMA AckStep ==
    ASSUME Base, NEW c \in Collections, Ack(c)
    PROVE  LET s == sub[c]
               t == sub'[c]
           IN  /\ s.pc = "ack" /\ gate = Free /\ Others(c) /\ Rest /\ store' = store /\ gate' = gate
               /\ \A d \in Collections \ {c} : pending'[d] = pending[d]
               /\ s.sig.gen # generation => Current(c)' = Current(c)
               /\ s.sig.gen = generation => Current(c)' = MaxSyncId(Current(c), s.sig.row.id)
               /\ t.pc = "idle" /\ t.sig = NoItem
               /\ t.listing = s.listing /\ t.gen = s.gen /\ t.snap = s.snap /\ t.replay = s.replay
               /\ t.queue = s.queue /\ t.guard = s.guard
<1>1. /\ sub' = [sub EXCEPT ![c].pc = "idle", ![c].sig = NoItem]
      /\ pending' = IF sub[c].sig.gen # generation THEN pending
                    ELSE [pending EXCEPT ![c] = AdvanceSyncId(@, sub[c].sig.row.id)]
      /\ sub[c].pc = "ack" /\ gate = Free /\ Others(c) /\ Rest /\ store' = store /\ gate' = gate
      /\ \A d \in Collections \ {c} : pending'[d] = pending[d]
    BY DEF Ack, Others, Rest, Base, TypeInv, TypeOK
<1>2. /\ sub[c] \in Subscriber /\ sub'[c] = [sub[c] EXCEPT !.pc = "idle", !.sig = NoItem]
      /\ pending'[c] = IF sub[c].sig.gen # generation THEN pending[c]
                       ELSE AdvanceSyncId(pending[c], sub[c].sig.row.id)
      /\ journal' = journal
    BY <1>1 DEF Base, TypeInv, TypeOK, Rest
<1>3. pending[c] \in Nat \cup {None} /\ journal.marks[c] \in Nat \cup {None} /\ None = -1
    BY BaseTypes
<1>4. sub[c].sig.row.id \in Nat
    BY <1>2 DEF Subscriber, Item, Row, SyncId
<1>5. /\ sub[c].sig.gen # generation => Current(c)' = Current(c)
      /\ sub[c].sig.gen = generation => Current(c)' = MaxSyncId(Current(c), sub[c].sig.row.id)
    BY <1>2, <1>3, <1>4 DEF Current, MaxSyncId, AdvanceSyncId
<1>6. /\ sub'[c].pc = "idle" /\ sub'[c].sig = NoItem
      /\ sub'[c].listing = sub[c].listing /\ sub'[c].gen = sub[c].gen /\ sub'[c].snap = sub[c].snap
      /\ sub'[c].replay = sub[c].replay /\ sub'[c].queue = sub[c].queue /\ sub'[c].guard = sub[c].guard
    BY <1>2 DEF Subscriber
<1> QED
    BY <1>1, <1>5, <1>6

\* An unmount detaches one subscriber and nothing else.
LEMMA UnmountStep ==
    ASSUME Base, NEW c \in Collections, Unmount(c)
    PROVE  /\ Others(c) /\ Rest /\ store' = store /\ pending' = pending /\ sub'[c] = Detached
BY DEF Unmount, Others, Rest, Base, TypeInv, TypeOK

-----------------------------------------------------------------------------
(* A subscriber's fields *)

\* The fields of a subscriber, one by one.
LEMMA SubscriberTypes ==
    ASSUME Base, NEW c \in Collections
    PROVE  /\ sub[c] \in Subscriber /\ sub[c].queue \in Seq(Item) /\ Len(sub[c].queue) \in Nat
           /\ \A k \in 1 .. Len(sub[c].queue) : sub[c].queue[k] \in Item /\ sub[c].queue[k].row \in Row
                                               /\ sub[c].queue[k].gen \in Nat /\ sub[c].queue[k].row.id \in Nat
           /\ sub[c].sig \in Item /\ sub[c].sig.row \in Row /\ sub[c].sig.gen \in Nat /\ sub[c].sig.row.id \in Nat
           /\ sub[c].gen \in Nat /\ sub[c].guard \in Nat /\ sub[c].snap \in Nat \cup {None}
           /\ sub[c].mark \in Nat \cup {None} /\ sub[c].cursor \in Nat \cup {None} /\ sub[c].floor \in Nat \cup {None}
           /\ sub[c].replay \in SUBSET Row /\ \A r \in sub[c].replay : r \in Row /\ r.id \in Nat
           /\ Current(c) \in Nat \cup {None} /\ None = -1
<1>1. sub[c] \in Subscriber
    BY DEF Base, TypeInv, TypeOK
<1>2. sub[c].queue \in Seq(Item)
    BY <1>1 DEF Subscriber
<1>3. Len(sub[c].queue) \in Nat /\ \A k \in 1 .. Len(sub[c].queue) : sub[c].queue[k] \in Item
    BY <1>2
<1>4. \A i \in Item : i.row \in Row /\ i.gen \in Nat
    BY DEF Item
<1>5. \A r \in Row : r.id \in Nat
    BY DEF Row, SyncId
<1>6. sub[c].sig \in Item /\ sub[c].gen \in Nat /\ sub[c].guard \in Nat /\ sub[c].snap \in Nat \cup {None}
      /\ sub[c].mark \in Nat \cup {None} /\ sub[c].cursor \in Nat \cup {None} /\ sub[c].floor \in Nat \cup {None}
      /\ sub[c].replay \in SUBSET Row
    BY <1>1 DEF Subscriber, OptionalSyncId, SyncId
<1>7. Current(c) \in Nat \cup {None} /\ None = -1
    BY BaseTypes DEF Current, MaxSyncId
<1> QED
    BY <1>1, <1>2, <1>3, <1>4, <1>5, <1>6, <1>7

-----------------------------------------------------------------------------
(* The steps of the ingest fiber, field by field *)

\* An item is offered to the attached collections.
Offered(kind, row) == sub' = Published(kind, row)

\* Starting resumes where the state of the broker says.
LEMMA StartStep ==
    ASSUME Base, Start
    PROVE  /\ ingest.pc = "stopped" /\ ingest'.pc \in {"catchup", "stream"}
           /\ ingest'.state = ingest.state /\ (ingest'.pc = "catchup" <=> ingest.state # "Streaming")
           /\ ingest'.work = ingest.work
           /\ UNCHANGED <<log, writes, epoch, retained, wire, journal, store, pending, generation, gate, sub>>
BY DEF Start, Base, TypeInv, TypeOK, IngestFiber

\* A failed stream is left for another catch-up, and an interrupted recovery stays one.
LEMMA FailStep ==
    ASSUME Base, Fail
    PROVE  /\ ingest.pc \in {"catchup", "stream"} /\ ingest'.pc = "catchup" /\ wire' = NoBatch
           /\ (ingest'.state = "Recovering" <=> ingest.state = "Recovering")
           /\ ingest'.work = ingest.work
           /\ UNCHANGED <<log, writes, epoch, retained, journal, store, pending, generation, gate, sub>>
BY DEF Fail, Base, TypeInv, TypeOK, IngestFiber

\* Stopping drops the work in hand and releases the gate, if the fiber held it.
LEMMA StopStep ==
    ASSUME Base, Stop
    PROVE  /\ ingest.pc \notin {"stopped", "tell"} /\ ingest'.pc = "stopped" /\ wire' = NoBatch
           /\ ingest'.state = ingest.state /\ ingest'.work = NoWork
           /\ gate' = (IF gate = Ingest THEN Free ELSE gate)
           /\ UNCHANGED <<log, writes, epoch, retained, journal, store, pending, generation, sub>>
BY DEF Stop, StoppedIngest, Base

\* A crash leaves the tables, as durable as they were, the journal and, of the marks,
\* what was flushed in time.
LEMMA CrashStep ==
    ASSUME Base, Crash
    PROVE  /\ ingest' = StoppedIngest /\ wire' = NoBatch /\ pending' = NoMarks /\ generation' = 0 /\ gate' = Free
           /\ \A c \in Collections :
                /\ sub'[c] = Detached
                /\ journal'.marks[c] \in {journal.marks[c], Current(c)} /\ Current(c)' = journal'.marks[c]
           /\ SameRows
           /\ UNCHANGED <<log, writes, epoch, retained, store>>
<1>1. PICK written \in SUBSET {c \in Collections : pending[c] # None} :
          journal' = FoldMarks(journal, [c \in Collections |-> IF c \in written THEN pending[c] ELSE None])
    BY DEF Crash
<1>2. journal \in Journal /\ \A c \in Collections : journal.marks[c] \in Nat \cup {None} /\ pending[c] \in Nat \cup {None}
    BY BaseTypes DEF Base, TypeInv, TypeOK
<1>3. SameRows
    BY <1>1, <1>2 DEF FoldMarks, SameRows, Journal
<1>4. ASSUME NEW c \in Collections PROVE journal'.marks[c] \in {journal.marks[c], Current(c)}
    <2> DEFINE p == IF c \in written THEN pending[c] ELSE None
    <2>1. journal'.marks[c] = IF p = None THEN journal.marks[c] ELSE AdvanceSyncId(journal.marks[c], p)
        BY <1>1, <1>2 DEF FoldMarks, Journal
    <2> QED
        BY <1>2, <2>1 DEF AdvanceSyncId, MaxSyncId, Current, None
<1>5. /\ ingest' = StoppedIngest /\ wire' = NoBatch /\ pending' = NoMarks /\ generation' = 0 /\ gate' = Free
      /\ \A c \in Collections : sub'[c] = Detached
      /\ UNCHANGED <<log, writes, epoch, retained, store>>
    BY DEF Crash, AllDetached, Base, Durable
<1>6. ASSUME NEW c \in Collections PROVE Current(c)' = journal'.marks[c]
    <2>1. pending'[c] = None
        BY <1>5 DEF NoMarks
    <2>2. journal'.marks[c] \in Nat \cup {None}
        BY <1>2, <1>4 DEF Current, MaxSyncId
    <2> QED
        BY <2>1, <2>2 DEF Current, MaxSyncId, None
<1> QED
    BY <1>3, <1>4, <1>5, <1>6

\* Both flushes fold the pending marks into the durable ones.
LEMMA FlushStep ==
    ASSUME Base, FlushMarks
    PROVE  /\ gate = Free /\ SameRows /\ pending' = NoMarks
           /\ \A c \in Collections : journal'.marks[c] = Current(c) /\ Current(c)' = Current(c)
<1>1. journal' = FoldMarks(journal, pending) /\ gate = Free /\ pending' = NoMarks
    BY DEF FlushMarks
<1>2. journal \in Journal /\ \A c \in Collections : journal.marks[c] \in Nat \cup {None} /\ pending[c] \in Nat \cup {None}
    BY BaseTypes DEF Base, TypeInv, TypeOK
<1>3. SameRows
    BY <1>1, <1>2 DEF FoldMarks, SameRows, Journal
<1>4. ASSUME NEW c \in Collections PROVE journal'.marks[c] = Current(c) /\ Current(c)' = Current(c)
    <2>1. journal'.marks[c] = IF pending[c] = None THEN journal.marks[c] ELSE AdvanceSyncId(journal.marks[c], pending[c])
        BY <1>1, <1>2 DEF FoldMarks, Journal
    <2>2. journal'.marks[c] = Current(c)
        BY <1>2, <2>1 DEF AdvanceSyncId, MaxSyncId, Current, None
    <2>3. pending'[c] = None /\ Current(c) \in Nat \cup {None}
        BY <1>1, <1>2 DEF NoMarks, Current, MaxSyncId
    <2> QED
        BY <2>2, <2>3 DEF Current, MaxSyncId, None
<1> QED
    BY <1>1, <1>3, <1>4

\* The marks are flushed before a prune is planned.
LEMMA FlushBeforePruneStep ==
    ASSUME Base, FlushBeforePrune
    PROVE  /\ ingest.pc = "flush" /\ ingest'.pc = "prune" /\ ingest'.state = ingest.state /\ ingest'.work = ingest.work
           /\ FlushMarks /\ UNCHANGED <<log, writes, epoch, retained, wire, store, generation, gate, sub>>
BY DEF FlushBeforePrune, Base, TypeInv, TypeOK, IngestFiber

\* A batch is taken from the wire: its rows that are new, or the recovery that it announces.
LEMMA AcceptStep ==
    ASSUME Base, Accept
    PROVE  LET changed == journal.epoch # None /\ journal.epoch # wire.epoch
               recovery == changed \/ wire.resync
           IN  /\ ingest.pc \in {"catchup", "stream"} /\ wire.stage = "sent" /\ wire' = NoBatch
               /\ ingest'.pc = (IF recovery THEN "recover" ELSE "append")
               /\ ingest'.state = (IF recovery THEN "Recovering" ELSE ingest.state)
               /\ ingest'.work.rows \subseteq wire.events
               /\ ingest'.work.last = wire.last /\ ingest'.work.epoch = wire.epoch
               /\ journal'.log = journal.log /\ journal'.cursor = journal.cursor
               /\ journal'.resync = journal.resync /\ journal'.floor = journal.floor /\ journal'.marks = journal.marks
               /\ journal'.epoch = (IF journal.epoch = None THEN wire.epoch ELSE journal.epoch)
               /\ UNCHANGED <<log, writes, epoch, retained, store, pending, generation, gate, sub>>
<1> DEFINE changed == journal.epoch # None /\ journal.epoch # wire.epoch
           recovery == changed \/ wire.resync
<1>1. /\ ingest.pc \in {"catchup", "stream"} /\ wire.stage = "sent" /\ wire' = NoBatch
      /\ UNCHANGED <<log, writes, epoch, retained, store, pending, generation, gate, sub>>
    BY DEF Accept
<1>2. /\ journal'.log = journal.log /\ journal'.cursor = journal.cursor
      /\ journal'.resync = journal.resync /\ journal'.floor = journal.floor /\ journal'.marks = journal.marks
      /\ journal'.epoch = (IF journal.epoch = None THEN wire.epoch ELSE journal.epoch)
    BY DEF Accept, Base, TypeInv, TypeOK, Journal
<1>3. CASE recovery
    BY <1>1, <1>2, <1>3 DEF Accept, Base, TypeInv, TypeOK, IngestFiber
<1>4. CASE ~recovery
    BY <1>1, <1>2, <1>4 DEF Accept, Base, TypeInv, TypeOK, IngestFiber
<1> QED
    BY <1>3, <1>4

\* A chunk is appended to the journal, and replaces rows of the same positions.
LEMMA AppendStep ==
    ASSUME Base, AppendChunk
    PROVE  /\ ingest.pc = "append" /\ ingest'.pc = "publish" /\ ingest'.state = ingest.state /\ ingest'.work = ingest.work
           /\ journal'.log = {r \in journal.log : \A y \in ingest.work.rows : y.id # r.id} \cup ingest.work.rows
           /\ journal'.cursor = journal.cursor /\ journal'.epoch = journal.epoch /\ journal'.resync = journal.resync
           /\ journal'.floor = journal.floor /\ journal'.marks = journal.marks
           /\ UNCHANGED <<log, writes, epoch, retained, wire, store, pending, generation, gate, sub>>
BY DEF AppendChunk, AppendRows, Base, TypeInv, TypeOK, IngestFiber, Journal

\* The row that is published is the oldest one in hand.
LEMMA PublishStep ==
    ASSUME Base, PublishRow
    PROVE  \E r \in ingest.work.rows :
              /\ \A x \in ingest.work.rows : r.id <= x.id
              /\ Offered("Event", r)
              /\ ingest.pc = "publish" /\ ingest'.pc = "publish" /\ ingest'.state = ingest.state
              /\ ingest'.work.rows = ingest.work.rows \ {r} /\ ingest'.work.last = ingest.work.last
              /\ ingest'.work.epoch = ingest.work.epoch /\ ingest'.plan = ingest.plan
              /\ UNCHANGED <<log, writes, epoch, retained, wire, journal, store, pending, generation, gate>>
<1> DEFINE r == Oldest(ingest.work.rows)
<1>1. r \in ingest.work.rows /\ \A x \in ingest.work.rows : r.id <= x.id
    <2>1. ingest.work.rows \in SUBSET Row /\ ingest.work.rows # {}
        BY DEF PublishRow, Base, TypeInv, TypeOK, IngestFiber, Work
    <2> QED
        BY <2>1, OldestRow
<1>2. /\ sub' = Published("Event", r) /\ ingest.pc = "publish"
      /\ ingest' = [ingest EXCEPT !.work.rows = @ \ {r}]
      /\ UNCHANGED <<log, writes, epoch, retained, wire, journal, store, pending, generation, gate>>
    BY DEF PublishRow
<1>3. ingest \in IngestFiber
    BY DEF Base, TypeInv, TypeOK
<1> HIDE DEF r
<1>4. /\ ingest'.pc = ingest.pc /\ ingest'.state = ingest.state /\ ingest'.plan = ingest.plan
      /\ ingest'.work = [ingest.work EXCEPT !.rows = @ \ {r}]
    BY <1>2, <1>3 DEF IngestFiber
<1>5. ingest.work \in Work
    BY <1>3 DEF IngestFiber
<1>6. /\ ingest'.work.rows = ingest.work.rows \ {r} /\ ingest'.work.last = ingest.work.last
      /\ ingest'.work.epoch = ingest.work.epoch
    BY <1>4, <1>5 DEF Work
<1> QED
    BY <1>1, <1>2, <1>4, <1>6 DEF Offered

\* prune plans from the journal and the marks of one moment.
LEMMA PruneReadStep ==
    ASSUME Base, PruneRead
    PROVE  /\ ingest.pc = "prune" /\ ingest'.pc \in {"stream", "commit"}
           /\ ingest'.state \in {"Streaming", ingest.state}
           /\ ingest'.pc = "commit" => ingest'.plan = PlanPrune(journal, MaxEventsPerModel, MaxEventsTotal)
           /\ ingest'.work.rows \subseteq ingest.work.rows
           /\ \A c \in Collections : ~Unrecorded(c)
           /\ UNCHANGED <<log, writes, epoch, retained, wire, journal, store, pending, generation, gate, sub>>
<1> DEFINE plan == PlanPrune(journal, MaxEventsPerModel, MaxEventsTotal)
<1>1. /\ ingest.pc = "prune" /\ ingest' = IF plan.rows = {} THEN Streaming(0)
                                         ELSE [ingest EXCEPT !.pc = "commit", !.plan = plan]
      /\ \A c \in Collections : ~Unrecorded(c)
      /\ UNCHANGED <<log, writes, epoch, retained, wire, journal, store, pending, generation, gate, sub>>
    BY DEF PruneRead, Base
<1>2. ingest \in IngestFiber
    BY DEF Base, TypeInv, TypeOK
<1>3. Streaming(0).pc = "stream" /\ Streaming(0).state = "Streaming" /\ Streaming(0).work.rows = {}
    BY DEF Streaming, StoppedIngest, NoWork
<1> HIDE DEF plan
<1>4. \/ ingest' = Streaming(0)
      \/ ingest'.pc = "commit" /\ ingest'.plan = plan /\ ingest'.state = ingest.state /\ ingest'.work = ingest.work
    BY <1>1, <1>2 DEF IngestFiber
<1> QED
    BY <1>1, <1>3, <1>4 DEF plan

\* A recovery takes the gate, starts a generation and forgets the pending marks.
LEMMA BeginStep ==
    ASSUME Base, BeginRecovery
    PROVE  /\ ingest.pc = "recover" /\ gate = Free /\ gate' = Ingest /\ generation' = generation + 1
           /\ pending' = NoMarks
           /\ ingest'.pc = "wipe" /\ ingest'.state = ingest.state /\ ingest'.work = ingest.work
           /\ UNCHANGED <<log, writes, epoch, retained, wire, journal, store, sub>>
BY DEF BeginRecovery, Base, TypeInv, TypeOK, IngestFiber

\* The fanout of a recovery releases the gate and resumes the stream.
LEMMA TellStep ==
    ASSUME Base, TellRecovery
    PROVE  /\ ingest.pc = "tell" /\ gate' = Free /\ ingest'.pc \in {"catchup", "stream"}
           /\ ingest'.pc = "stream" => ingest'.state = "Streaming"
           /\ ingest'.work.rows = {} /\ ingest.work.kind \in {"Resync", "EpochReset"}
           /\ Offered(ingest.work.kind, ControlRow(ingest.work.last))
           /\ UNCHANGED <<log, writes, epoch, retained, wire, journal, store, pending, generation>>
<1>1. /\ ingest.pc = "tell" /\ gate' = Free
      /\ Offered(ingest.work.kind, ControlRow(ingest.work.last))
      /\ UNCHANGED <<log, writes, epoch, retained, wire, journal, store, pending, generation>>
      /\ ingest.work.kind \in {"Resync", "EpochReset"}
    BY DEF TellRecovery, Base, RecoveryWork, Offered
<1>2. /\ ingest'.pc \in {"catchup", "stream"} /\ ingest'.work.rows = {}
      /\ ingest'.pc = "stream" => ingest'.state = "Streaming"
    <2>1. /\ ingest \in IngestFiber
          /\ ingest' = IF ingest.connected
                       THEN [ingest EXCEPT !.pc = "catchup", !.connected = FALSE, !.work = NoWork]
                       ELSE Streaming(ingest.since)
        BY DEF TellRecovery, Base, TypeInv, TypeOK
    <2> QED
        BY <2>1 DEF Streaming, StoppedIngest, NoWork, IngestFiber
<1> QED
    BY <1>1, <1>2

\* The server lists the rows past the cursor, or attaches their values; the client is not concerned.
LEMMA ServeStep ==
    ASSUME Base, Serve
    PROVE  /\ wire'.events = {} \/ wire'.events = ListedEvents(Here, Len(log))
              \/ wire'.events = {Hydrated(r) : r \in wire.events}
           /\ UNCHANGED <<log, writes, epoch, retained, journal, store, ingest, pending, generation, gate, sub>>
<1>1. CASE ServeList
    BY <1>1 DEF ServeList, Here
<1>2. CASE ServeHydrate
    BY <1>2 DEF ServeHydrate, NoBatch, Base, TypeInv, TypeOK, Batch
<1> QED
    BY <1>1, <1>2 DEF Serve

\* Every queued item was queued before, or is the one offered.
LEMMA PublishedItems ==
    ASSUME Base, NEW kind, NEW row, Offered(kind, row), NEW c \in Collections
    PROVE  LET s == sub[c]
               t == sub'[c]
               IsItem(i) == i.kind = kind /\ i.row = row /\ i.gen = generation
               to == s.pc # "off" /\ (kind = "Event" => RowModel(row) = CollModel[c])
           IN  /\ t.pc = s.pc /\ t.gen = s.gen /\ t.mark = s.mark /\ t.cursor = s.cursor /\ t.floor = s.floor
               /\ t.snap = s.snap /\ t.replay = s.replay /\ t.guard = s.guard /\ t.sig = s.sig /\ t.listing = s.listing
               /\ Len(s.queue) \in Nat
               /\ to => Len(t.queue) = Len(s.queue) + 1 /\ IsItem(t.queue[Len(s.queue) + 1])
               /\ ~to => t.queue = s.queue
               /\ \A k \in 1 .. Len(s.queue) : k \in 1 .. Len(t.queue) /\ t.queue[k] = s.queue[k]
               /\ \A k \in 1 .. Len(t.queue) :
                    \/ k \in 1 .. Len(s.queue) /\ t.queue[k] = s.queue[k]
                    \/ k = Len(s.queue) + 1 /\ IsItem(t.queue[k]) /\ to
<1> DEFINE s == sub[c]
           t == sub'[c]
           item == [kind |-> kind, row |-> row, gen |-> generation]
           to == s.pc # "off" /\ (kind = "Event" => RowModel(row) = CollModel[c])
<1>1. s \in Subscriber /\ Len(s.queue) \in Nat /\ s.queue \in Seq(Item)
    BY SubscriberTypes
<1>2. sub'[c] = IF to THEN [s EXCEPT !.queue = Append(@, item)] ELSE s
    BY DEF Published, Offered
<1> HIDE DEF item, to
<1>3. CASE to
    <2> DEFINE q == Append(s.queue, item)
    <2>1. Len(q) = Len(s.queue) + 1 /\ q[Len(s.queue) + 1] = item /\ \A k \in 1 .. Len(s.queue) : q[k] = s.queue[k]
        BY <1>1
    <2>2. \A k \in 1 .. Len(q) : k \in 1 .. Len(s.queue) \/ k = Len(s.queue) + 1
        BY <1>1, <2>1
    <2>3. \A k \in 1 .. Len(s.queue) : k \in 1 .. Len(q)
        BY <1>1, <2>1
    <2>4. t = [s EXCEPT !.queue = q]
        BY <1>2, <1>3
    <2> HIDE DEF q
    <2>5. /\ t.queue = q /\ t.pc = s.pc /\ t.gen = s.gen /\ t.mark = s.mark /\ t.cursor = s.cursor /\ t.floor = s.floor
          /\ t.snap = s.snap /\ t.replay = s.replay /\ t.guard = s.guard /\ t.sig = s.sig /\ t.listing = s.listing
        BY <1>1, <2>4 DEF Subscriber
    <2> QED
        BY <1>1, <1>3, <2>1, <2>2, <2>3, <2>5 DEF item, to
<1>4. CASE ~to
    <2>1. t = s
        BY <1>2, <1>4
    <2> QED
        BY <1>1, <1>4, <2>1 DEF item, to
<1> QED
    BY <1>3, <1>4

-----------------------------------------------------------------------------
(* Rows, listings and generations *)

\* Every step keeps rows about entities.
LEMMA RealRowsNext ==
    ASSUME Base, RealRows, [Next]_vars
    PROVE  RealRows'
<1>1. ASSUME wire'.events \subseteq wire.events, journal'.log \subseteq journal.log,
             ingest'.work.rows \subseteq wire.events \cup ingest.work.rows
      PROVE  RealRows'
    BY <1>1 DEF RealRows
<1>2. NoBatch.events = {} /\ NoWork.rows = {} /\ StoppedIngest.work = NoWork
    BY DEF NoBatch, NoWork, StoppedIngest
<1>3. CASE ServerWrites \/ Expire \/ Restore \/ UNCHANGED vars
           \/ (\E c \in Collections : Unmount(c) \/ Mount(c) \/ Attach(c) \/ Drain(c))
    <2>1. UNCHANGED <<wire, ingest, journal>>
        BY <1>3 DEF ServerWrites, Write, BulkChange, Expire, Restore, vars, Unmount, Mount, Attach, ReadMark, ReadFloor,
               ReadJournal, Drain, TakeReplay, TakeTail, ListServer, Land, Ack
    <2> QED
        BY SMTT(40), <1>1, <2>1
<1>4. CASE Serve
    <2>1. \A r \in ListedEvents(Here, Len(log)) : r.e \in Entities
        BY DEF ListedEvents
    <2>2. wire.events \subseteq Row
        BY DEF Base, TypeInv, TypeOK, Batch
    <2>3. \A r \in Row : Hydrated(r).e = r.e
        BY DEF Hydrated, Row
    <2>4. \A r \in wire'.events : r.e \in Entities
        BY <1>4, <2>1, <2>2, <2>3, ServeStep DEF RealRows
    <2>5. UNCHANGED <<journal, ingest>>
        BY <1>4, ServeStep
    <2> QED
        BY <2>4, <2>5 DEF RealRows
<1>5. CASE Start
    BY <1>1, <1>5, StartStep
<1>6. CASE Fail
    BY <1>1, <1>2, <1>6, FailStep
<1>7. CASE Stop
    BY <1>1, <1>2, <1>7, StopStep
<1>8. CASE Crash
    BY <1>1, <1>2, <1>8, CrashStep DEF SameRows
<1>9. CASE Accept
    BY <1>1, <1>2, <1>9, AcceptStep
<1>10. CASE AppendChunk
    <2>1. /\ ingest'.work = ingest.work /\ wire' = wire
          /\ journal'.log = {r \in journal.log : \A y \in ingest.work.rows : y.id # r.id} \cup ingest.work.rows
        BY <1>10, AppendStep
    <2> QED
        BY <2>1 DEF RealRows
<1>11. CASE PublishRow
    BY <1>1, <1>11, PublishStep
<1>12. CASE AdvanceIngested
    <2>1. ingest'.work.rows \subseteq ingest.work.rows
        BY <1>2, <1>12 DEF AdvanceIngested, Streaming, Base, TypeInv, TypeOK, IngestFiber
    <2>2. journal'.log = journal.log /\ wire' = wire
        BY <1>12 DEF AdvanceIngested, AdvanceCursor, Base, TypeInv, TypeOK, Journal
    <2> QED
        BY <1>1, <2>1, <2>2
<1>13. CASE FlushBeforePrune
    BY <1>1, <1>13, FlushBeforePruneStep, FlushStep DEF SameRows
<1>14. CASE TimedFlush
    <2>1. FlushMarks /\ wire' = wire /\ ingest' = ingest
        BY <1>14 DEF TimedFlush
    <2> QED
        BY <1>1, <2>1, FlushStep DEF SameRows
<1>15. CASE PruneRead
    BY <1>1, <1>15, PruneReadStep
<1>16. CASE PruneCommit
    <2>1. ingest'.work.rows = {}
        BY <1>16 DEF PruneCommit, Streaming, StoppedIngest, NoWork
    <2>2. journal'.log \subseteq journal.log /\ wire' = wire
        BY <1>16 DEF PruneCommit, CommitPrune, Base, TypeInv, TypeOK, Journal
    <2> QED
        BY <1>1, <2>1, <2>2
<1>17. CASE BeginRecovery
    BY <1>1, <1>17, BeginStep
<1>18. CASE WipeJournal
    <2>1. ingest'.work = ingest.work
        BY <1>18 DEF WipeJournal, Base, TypeInv, TypeOK, IngestFiber
    <2>2. journal'.log = {} /\ wire' = wire
        BY <1>18 DEF WipeJournal, ResetToEpoch, ResetCoverage, EmptyJournal
    <2> QED
        BY <1>1, <2>1, <2>2
<1>19. CASE TellRecovery
    BY <1>1, <1>19, TellStep
<1> QED
    BY <1>3, <1>4, <1>5, <1>6, <1>7, <1>8, <1>9, <1>10, <1>11, <1>12, <1>13, <1>14, <1>15, <1>16, <1>17, <1>18, <1>19
       DEF Next, Run, Recover, Disturb

\* A subscriber's step is one of these; the steps of others leave it alone but for
\* what the ingest fiber publishes.
LEMMA SubscriberSteps ==
    ASSUME Base, [Next]_vars, NEW c \in Collections
    PROVE  \/ sub'[c] = sub[c] \/ PublishRow \/ TellRecovery
           \/ Crash \/ Unmount(c) \/ Mount(c) \/ Attach(c) \/ Drain(c)
<1>1. CASE \E d \in Collections : Unmount(d) \/ Mount(d) \/ Attach(d) \/ Drain(d)
    <2>1. PICK d \in Collections : Unmount(d) \/ Mount(d) \/ Attach(d) \/ Drain(d)
        BY <1>1
    <2>2. Others(d)
        BY <2>1, UnmountStep, MountStep, ReadMarkStep, ReadFloorStep, ReadJournalStep, TakeReplayStep, TakeTailStep,
           ListStep, LandStep, AckStep DEF Attach, Drain
    <2> QED
        BY <2>1, <2>2 DEF Others
<1>2. CASE UNCHANGED sub
    BY <1>2
<1>3. \/ UNCHANGED sub \/ PublishRow \/ TellRecovery \/ Crash
      \/ \E d \in Collections : Unmount(d) \/ Mount(d) \/ Attach(d) \/ Drain(d)
    BY DEF Next, vars, ServerWrites, Write, BulkChange, Expire, Restore, Serve, ServeList, ServeHydrate, Start, Fail, Stop,
           Run, Accept, AppendChunk, AdvanceIngested, FlushBeforePrune, PruneRead, PruneCommit, Recover, BeginRecovery,
           WipeJournal, TimedFlush, Disturb
<1> QED
    BY <1>1, <1>2, <1>3

\* Every step keeps the listing state to items that call for a listing.
LEMMA ListsNext ==
    ASSUME Base, Lists, [Next]_vars
    PROVE  Lists'
<1>1. SUFFICES ASSUME NEW c \in Collections, sub'[c].pc = "list" PROVE sub'[c].sig.kind # "Event"
    BY DEF Lists
<1>2. CASE sub'[c] = sub[c]
    BY <1>1, <1>2 DEF Lists
<1>3. CASE PublishRow \/ TellRecovery
    <2>1. PICK kind, row : Offered(kind, row)
        BY <1>3, PublishStep, TellStep
    <2>2. sub'[c].pc = sub[c].pc /\ sub'[c].sig = sub[c].sig
        BY <2>1, PublishedItems
    <2> QED
        BY <1>1, <2>2 DEF Lists
<1>4. CASE Crash \/ Unmount(c)
    BY <1>1, <1>4, UnmountStep, CrashStep DEF Detached
<1>5. CASE Mount(c) \/ Attach(c)
    BY <1>1, <1>5, MountStep, ReadMarkStep, ReadFloorStep, ReadJournalStep DEF Attach
<1>6. CASE TakeReplay(c)
    BY <1>1, <1>6, TakeReplayStep
<1>7. CASE TakeTail(c)
    BY <1>1, <1>7, TakeTailStep
<1>8. CASE ListServer(c) \/ Land(c) \/ Ack(c)
    BY <1>1, <1>8, ListStep, LandStep, AckStep
<1> QED
    BY <1>2, <1>3, <1>4, <1>5, <1>6, <1>7, <1>8, SubscriberSteps DEF Drain

\* Only a drain that lands writes to its collection's table.
LEMMA StoreSteps ==
    ASSUME Base, [Next]_vars, NEW c \in Collections
    PROVE  store'[c] = store[c] \/ Land(c)
<1>1. CASE \E d \in Collections : Unmount(d) \/ Mount(d) \/ Attach(d) \/ Drain(d)
    <2>1. PICK d \in Collections : Unmount(d) \/ Mount(d) \/ Attach(d) \/ Drain(d)
        BY <1>1
    <2>2. CASE Land(d)
        BY <2>2, LandStep
    <2>3. CASE ~Land(d)
        BY <2>1, <2>3, UnmountStep, MountStep, ReadMarkStep, ReadFloorStep, ReadJournalStep, TakeReplayStep, TakeTailStep,
           ListStep, AckStep DEF Attach, Drain
    <2> QED
        BY <2>2, <2>3
<1>2. CASE Crash
    BY <1>2 DEF Crash, Base, Durable
<1>3. \/ UNCHANGED store \/ Crash
      \/ \E d \in Collections : Unmount(d) \/ Mount(d) \/ Attach(d) \/ Drain(d)
    BY DEF Next, vars, ServerWrites, Write, BulkChange, Expire, Restore, Serve, ServeList, ServeHydrate, Start, Fail, Stop,
           Run, Accept, AppendChunk, PublishRow, AdvanceIngested, FlushBeforePrune, PruneRead, PruneCommit, Recover,
           BeginRecovery, WipeJournal, TellRecovery, TimedFlush, Disturb
<1> QED
    BY <1>1, <1>2, <1>3

OwnRows(c) ==
    /\ \A e \in Entities \ Mine(c) : store[c][e] = Absent /\ sub[c].listing[e] = Absent
    /\ Landing(c) => sub[c].sig.row.e \in Mine(c)
    /\ \A r \in sub[c].replay : r.e \in Mine(c)
    /\ \A k \in 1 .. Len(sub[c].queue) :
          sub[c].queue[k].kind = "Event" => sub[c].queue[k].row.e \in Mine(c)

\* Whatever is listed, replayed or published for a collection is about its model.
LEMMA OtherModelsNext ==
    ASSUME Base, RealRows, Lists, OtherModels, [Next]_vars
    PROVE  OtherModels'
<1>1. SUFFICES ASSUME NEW c \in Collections PROVE OwnRows(c)'
    BY DEF OtherModels, OwnRows
<1>2. OwnRows(c)
    BY DEF OtherModels, OwnRows
<1>3. Mine(c)' = Mine(c) /\ \A e \in Entities : NoRows[e] = Absent
    BY DEF Mine, NoRows
<1>4. CASE sub'[c] = sub[c] /\ store'[c] = store[c]
    BY <1>2, <1>3, <1>4 DEF OwnRows, Landing
<1>5. CASE PublishRow
    <2>1. PICK r \in ingest.work.rows : Offered("Event", r) /\ store' = store
        BY <1>5, PublishStep
    <2>2. r.e \in Entities
        BY DEF RealRows
    <2>3. /\ sub'[c].pc = sub[c].pc /\ sub'[c].sig = sub[c].sig /\ sub'[c].listing = sub[c].listing
          /\ sub'[c].replay = sub[c].replay
          /\ \A k \in 1 .. Len(sub'[c].queue) :
                \/ k \in 1 .. Len(sub[c].queue) /\ sub'[c].queue[k] = sub[c].queue[k]
                \/ sub'[c].queue[k].row = r /\ RowModel(r) = CollModel[c]
        BY <2>1, PublishedItems
    <2>4. ASSUME NEW k \in 1 .. Len(sub'[c].queue), sub'[c].queue[k].kind = "Event" PROVE sub'[c].queue[k].row.e \in Mine(c)
        <3>1. \/ k \in 1 .. Len(sub[c].queue) /\ sub'[c].queue[k] = sub[c].queue[k]
              \/ sub'[c].queue[k].row = r /\ RowModel(r) = CollModel[c]
            BY <2>3
        <3> QED
            BY <1>2, <2>2, <2>4, <3>1 DEF OwnRows, Mine, RowModel
    <2> QED
        BY <1>2, <1>3, <2>1, <2>3, <2>4 DEF OwnRows, Landing
<1>6. CASE TellRecovery
    <2>1. /\ Offered(ingest.work.kind, ControlRow(ingest.work.last)) /\ store' = store
          /\ ingest.work.kind # "Event"
        BY <1>6, TellStep
    <2>2. /\ sub'[c].pc = sub[c].pc /\ sub'[c].sig = sub[c].sig /\ sub'[c].listing = sub[c].listing
          /\ sub'[c].replay = sub[c].replay
          /\ \A k \in 1 .. Len(sub'[c].queue) :
                \/ k \in 1 .. Len(sub[c].queue) /\ sub'[c].queue[k] = sub[c].queue[k]
                \/ sub'[c].queue[k].kind = ingest.work.kind
        BY <2>1, PublishedItems
    <2>3. ASSUME NEW k \in 1 .. Len(sub'[c].queue), sub'[c].queue[k].kind = "Event" PROVE sub'[c].queue[k].row.e \in Mine(c)
        <3>1. k \in 1 .. Len(sub[c].queue) /\ sub'[c].queue[k] = sub[c].queue[k]
            BY <2>1, <2>2, <2>3
        <3> QED
            BY <1>2, <2>3, <3>1 DEF OwnRows
    <2> QED
        BY <1>2, <1>3, <2>1, <2>2, <2>3 DEF OwnRows, Landing
<1>7. CASE Crash \/ Unmount(c)
    <2>1. sub'[c] = Detached /\ store'[c] = store[c]
        BY <1>7, UnmountStep, CrashStep
    <2> QED
        BY <1>2, <1>3, <2>1 DEF OwnRows, Landing, Detached
<1>8. CASE Mount(c)
    BY <1>2, <1>3, <1>8, MountStep DEF OwnRows, Landing
<1>9. CASE ReadMark(c) \/ ReadFloor(c)
    BY <1>2, <1>3, <1>9, ReadMarkStep, ReadFloorStep DEF OwnRows, Landing
<1>10. CASE ReadJournal(c)
    <2>1. \A i : \A r \in ReadRows(journal, CollModel[c], i) : r.e \in Mine(c)
        BY DEF ReadRows, RealRows, Mine, RowModel
    <2> QED
        BY <1>2, <1>3, <1>10, <2>1, ReadJournalStep DEF OwnRows, Landing
<1>11. CASE TakeReplay(c)
    BY <1>2, <1>3, <1>11, TakeReplayStep DEF OwnRows, Landing
<1>12. CASE TakeTail(c)
    <2> DEFINE s == sub[c]
               t == sub'[c]
    <2>1. /\ s.pc = "idle" /\ store' = store /\ t.replay = {} /\ t.listing = s.listing
          /\ Len(s.queue) \in Nat /\ Len(s.queue) > 0 /\ Len(t.queue) = Len(s.queue) - 1
          /\ \A k \in 1 .. Len(t.queue) : t.queue[k] = s.queue[k + 1]
          /\ (t.pc = "idle" \/ (t.sig = s.queue[1] /\ (t.pc = "land" => s.queue[1].kind = "Event")))
        BY <1>12, TakeTailStep
    <2>2. ASSUME NEW k \in 1 .. Len(t.queue), t.queue[k].kind = "Event" PROVE t.queue[k].row.e \in Mine(c)
        <3>1. k + 1 \in 1 .. Len(s.queue) /\ t.queue[k] = s.queue[k + 1]
            BY <2>1
        <3> QED
            BY <1>2, <2>2, <3>1 DEF OwnRows
    <2>3. Landing(c)' => t.sig.row.e \in Mine(c)
        BY <1>2, <2>1 DEF OwnRows, Landing
    <2> QED
        BY <1>2, <1>3, <2>1, <2>2, <2>3 DEF OwnRows
<1>13. CASE ListServer(c)
    <2>1. \A e \in Entities \ Mine(c) : Truth(c)[e] = Absent
        BY DEF Truth, RowAt, InScope, Mine
    <2> QED
        BY <1>2, <1>3, <1>13, <2>1, ListStep DEF OwnRows, Landing, Lists
<1>14. CASE Land(c)
    <2>1. \A e \in Entities \ Mine(c) : store'[c][e] = Absent
        BY <1>2, <1>14, LandStep DEF OwnRows, Landing
    <2> QED
        BY <1>2, <1>3, <1>14, <2>1, LandStep DEF OwnRows, Landing
<1>15. CASE Ack(c)
    BY <1>2, <1>3, <1>15, AckStep DEF OwnRows, Landing
<1>16. store'[c] = store[c] \/ Land(c)
    BY StoreSteps
<1> QED
    BY <1>4, <1>5, <1>6, <1>7, <1>8, <1>9, <1>10, <1>11, <1>12, <1>13, <1>14, <1>15, <1>16, SubscriberSteps
       DEF Attach, Drain

-----------------------------------------------------------------------------
(* Generations *)

\* Items carry the generation they were made in, and a recovery's is new to everyone.
LEMMA GensNext ==
    ASSUME Base, Gens, [Next]_vars
    PROVE  Gens'
<1> DEFINE OldGen(c) == /\ sub[c].gen <= generation /\ sub[c].sig.gen <= generation
                        /\ \A k \in Queued(c) : sub[c].queue[k].gen <= generation
           InRecovery == ingest.pc \in {"wipe", "tell"}
<1>1. SUFFICES ASSUME NEW c \in Collections PROVE OldGen(c)' /\ (InRecovery' /\ sub'[c].pc # "off" => Lagging(c)')
    BY DEF Gens
<1>2. OldGen(c) /\ (InRecovery /\ sub[c].pc # "off" => Lagging(c))
    BY DEF Gens
<1>3. /\ generation \in Nat /\ sub[c].gen \in Nat /\ sub[c].sig.gen \in Nat /\ Len(sub[c].queue) \in Nat
      /\ \A k \in Queued(c) : sub[c].queue[k].gen \in Nat
    BY BaseTypes, SubscriberTypes DEF Queued
<1>4. NoItem.gen = 0 /\ Detached.pc = "off" /\ Detached.gen = 0 /\ Detached.sig = NoItem /\ Detached.queue = <<>>
    BY DEF NoItem, Detached
<1>5. CASE BeginRecovery
    <2>1. generation' = generation + 1 /\ sub' = sub
        BY <1>5, BeginStep
    <2> QED
        BY SMTT(40), <1>2, <1>3, <2>1 DEF Queued, Lagging
<1>6. CASE Crash
    <2>1. generation' = 0 /\ sub'[c] = Detached
        BY <1>6, CrashStep
    <2> QED
        BY <1>4, <2>1 DEF Queued
<1>7. CASE sub'[c] = sub[c] /\ generation' = generation /\ (InRecovery' => InRecovery)
    BY <1>2, <1>7 DEF Queued, Lagging
<1>8. CASE PublishRow \/ TellRecovery
    <2>1. PICK kind, row : Offered(kind, row) /\ generation' = generation /\ ~InRecovery'
        BY <1>8, PublishStep, TellStep
    <2>2. /\ sub'[c].gen = sub[c].gen /\ sub'[c].sig = sub[c].sig
          /\ \A k \in 1 .. Len(sub'[c].queue) :
                \/ k \in 1 .. Len(sub[c].queue) /\ sub'[c].queue[k] = sub[c].queue[k]
                \/ sub'[c].queue[k].gen = generation
        BY <2>1, PublishedItems
    <2>3. ASSUME NEW k \in 1 .. Len(sub'[c].queue) PROVE sub'[c].queue[k].gen <= generation
        <3>1. \/ k \in 1 .. Len(sub[c].queue) /\ sub'[c].queue[k] = sub[c].queue[k]
              \/ sub'[c].queue[k].gen = generation
            BY <2>2
        <3> QED
            BY SMTT(40), <1>2, <1>3, <3>1 DEF Queued
    <2> QED
        BY <1>2, <2>1, <2>2, <2>3 DEF Queued
<1>9. CASE Mount(c) \/ Unmount(c) \/ Attach(c) \/ Drain(c)
    <2>1. Rest
        BY <1>9, UnmountStep, MountStep, ReadMarkStep, ReadFloorStep, ReadJournalStep, TakeReplayStep, TakeTailStep,
           ListStep, LandStep, AckStep DEF Attach, Drain
    <2>2. generation' = generation /\ InRecovery' = InRecovery
        BY <2>1 DEF Rest
    <2>3. CASE Unmount(c)
        BY <1>2, <1>3, <1>4, <2>2, <2>3, UnmountStep DEF Queued, Lagging
    <2>4. CASE Mount(c) \/ Attach(c)
        <3>1. gate = Free \/ gate = c
            BY <2>4, MountStep, ReadMarkStep, ReadFloorStep, ReadJournalStep DEF Attach, Base, GateHeld
        <3>2. ~InRecovery
            BY <3>1, ConstantsOK DEF Base, GateHeld, Free, Ingest
        <3>3. CASE Mount(c)
            BY <1>3, <1>4, <2>2, <3>2, <3>3, MountStep DEF Queued
        <3>4. CASE Attach(c)
            BY <1>2, <2>2, <3>2, <3>4, ReadMarkStep, ReadFloorStep, ReadJournalStep DEF Attach, Queued
        <3> QED
            BY <2>4, <3>3, <3>4
    <2>5. CASE TakeReplay(c)
        BY SMTT(40), <1>2, <1>3, <2>2, <2>5, TakeReplayStep DEF Queued, Lagging
    <2>6. CASE TakeTail(c)
        <3> DEFINE s == sub[c]
                   t == sub'[c]
        <3>1. /\ s.pc = "idle" /\ t.gen = s.gen /\ Len(s.queue) > 0 /\ Len(t.queue) = Len(s.queue) - 1
              /\ \A k \in 1 .. Len(t.queue) : t.queue[k] = s.queue[k + 1]
              /\ IF IsStale(s.guard, s.queue[1].kind, s.queue[1].row.id) \/ s.queue[1].gen # generation
                 THEN t.pc = "idle" /\ t.sig = s.sig
                 ELSE t.sig = s.queue[1]
            BY <2>6, TakeTailStep
        <3>2. 1 \in Queued(c) /\ \A k \in 1 .. Len(t.queue) : k + 1 \in Queued(c)
            BY <1>3, <3>1 DEF Queued
        <3>3. OldGen(c)'
            BY <1>2, <1>3, <2>2, <3>1, <3>2 DEF Queued
        <3>4. ASSUME InRecovery PROVE Lagging(c)'
            <4>1. Lagging(c)
                BY <1>2, <3>1, <3>4
            <4>2. s.queue[1].gen # generation
                BY <1>3, <3>2, <4>1 DEF Lagging
            <4> QED
                BY <2>2, <3>1, <3>2, <4>1, <4>2 DEF Lagging, Queued
        <3> QED
            BY <2>2, <3>3, <3>4
    <2>7. CASE ListServer(c) \/ Land(c)
        BY <1>2, <2>2, <2>7, ListStep, LandStep DEF Queued, Lagging
    <2>8. CASE Ack(c)
        BY SMTT(40), <1>2, <1>3, <1>4, <2>2, <2>8, AckStep DEF Queued, Lagging
    <2> QED
        BY <1>9, <2>3, <2>4, <2>5, <2>6, <2>7, <2>8 DEF Drain
<1>10. \/ generation' = generation /\ (InRecovery' => InRecovery)
       \/ BeginRecovery \/ Crash \/ \E d \in Collections : Mount(d) \/ Unmount(d) \/ Attach(d) \/ Drain(d)
    <2>1. CASE ServerWrites \/ Expire \/ Restore \/ Serve \/ TimedFlush \/ UNCHANGED vars
        BY <2>1, ServeStep DEF ServerWrites, Write, BulkChange, Expire, Restore, TimedFlush, vars
    <2>2. CASE Start \/ Fail \/ Stop \/ Accept \/ AppendChunk \/ PublishRow \/ FlushBeforePrune \/ PruneRead \/ TellRecovery
        BY <2>2, StartStep, FailStep, StopStep, AcceptStep, AppendStep, PublishStep, FlushBeforePruneStep, PruneReadStep, TellStep
    <2>3. CASE AdvanceIngested \/ PruneCommit \/ WipeJournal
        <3>1. generation' = generation
            BY <2>3 DEF AdvanceIngested, PruneCommit, WipeJournal
        <3>2. WipeJournal => InRecovery
            BY DEF WipeJournal
        <3>3. AdvanceIngested \/ PruneCommit => ~InRecovery'
            BY DEF AdvanceIngested, PruneCommit, Streaming, StoppedIngest, Base, TypeInv, TypeOK, IngestFiber
        <3> QED
            BY <2>3, <3>1, <3>2, <3>3
    <2> QED
        BY <2>1, <2>2, <2>3 DEF Next, Run, Recover, Disturb
<1>11. \A d \in Collections : d # c /\ (Mount(d) \/ Unmount(d) \/ Attach(d) \/ Drain(d)) =>
           sub'[c] = sub[c] /\ generation' = generation /\ (InRecovery' => InRecovery)
    <2>1. SUFFICES ASSUME NEW d \in Collections, d # c, Mount(d) \/ Unmount(d) \/ Attach(d) \/ Drain(d)
                   PROVE  Others(d) /\ Rest
        BY DEF Others, Rest
    <2> QED
        BY <2>1, UnmountStep, MountStep, ReadMarkStep, ReadFloorStep, ReadJournalStep, TakeReplayStep, TakeTailStep,
           ListStep, LandStep, AckStep DEF Attach, Drain
<1> QED
    BY <1>5, <1>6, <1>7, <1>8, <1>9, <1>10, <1>11, SubscriberSteps

-----------------------------------------------------------------------------
(* Positions the client has been told of *)

\* Only a step of the ingest fiber changes what the journal says.
LEMMA JournalSteps ==
    ASSUME Base, [Next]_vars
    PROVE  SameRows \/ Accept \/ AppendChunk \/ AdvanceIngested \/ PruneCommit \/ WipeJournal
<1>1. CASE UNCHANGED journal
    BY <1>1 DEF SameRows
<1>2. CASE TimedFlush
    <2>1. FlushMarks
        BY <1>2 DEF TimedFlush
    <2> QED
        BY <2>1, FlushStep
<1>3. CASE FlushBeforePrune
    BY <1>3, FlushBeforePruneStep, FlushStep
<1>4. CASE Crash
    BY <1>4, CrashStep
<1>5. CASE \E c \in Collections : Unmount(c) \/ Mount(c) \/ Attach(c) \/ Drain(c)
    BY <1>1, <1>5 DEF Unmount, Mount, Attach, ReadMark, ReadFloor, ReadJournal, Drain, TakeReplay, TakeTail,
                      ListServer, Land, Ack
<1>6. \/ UNCHANGED journal \/ TimedFlush \/ FlushBeforePrune \/ Crash
      \/ Accept \/ AppendChunk \/ AdvanceIngested \/ PruneCommit \/ WipeJournal
      \/ \E c \in Collections : Unmount(c) \/ Mount(c) \/ Attach(c) \/ Drain(c)
    BY DEF Next, vars, ServerWrites, Write, BulkChange, Expire, Restore, Serve, ServeList, ServeHydrate, Start, Fail, Stop,
           Run, PublishRow, PruneRead, Recover, BeginRecovery, TellRecovery, Disturb
<1> QED
    BY <1>1, <1>2, <1>3, <1>4, <1>5, <1>6

\* Only writes and a restore change the log, only a restore the timeline.
LEMMA LogSteps ==
    ASSUME Base, [Next]_vars
    PROVE  /\ log' = log \/ ServerWrites \/ Restore
           /\ epoch' = epoch \/ Restore
<1>1. CASE \E c \in Collections : Unmount(c) \/ Mount(c) \/ Attach(c) \/ Drain(c)
    BY <1>1 DEF Unmount, Mount, Attach, ReadMark, ReadFloor, ReadJournal, Drain, TakeReplay, TakeTail,
                ListServer, Land, Ack
<1>2. ServerWrites => epoch' = epoch
    BY DEF ServerWrites, Write, BulkChange
<1> QED
    BY <1>1, <1>2
       DEF Next, vars, Expire, Serve, ServeList, ServeHydrate, Start, Fail, Stop, Crash, TimedFlush,
           Run, Accept, AppendChunk, PublishRow, AdvanceIngested, FlushBeforePrune, PruneRead, PruneCommit,
           Recover, BeginRecovery, WipeJournal, TellRecovery, Disturb

\* A journal comes to speak of the server's log only by a reset to its epoch.
LEMMA OnLogSteps ==
    ASSUME Base, Truths, [Next]_vars, OnLog'
    PROVE  \/ OnLog /\ epoch' = epoch
           \/ ~OnLog /\ WipeJournal /\ ingest.work.kind = "EpochReset"
<1>1. ~Restore /\ epoch' = epoch
    BY LogSteps, RestoredLog
<1>2. CASE SameRows \/ AppendChunk \/ AdvanceIngested \/ PruneCommit
    <2>1. journal'.epoch = journal.epoch
        BY <1>2, AppendStep, AdvancedCursor DEF SameRows, PruneCommit, CommitPrune, Base, TypeInv, TypeOK, Journal
    <2> QED
        BY <1>1, <2>1 DEF OnLog
<1>3. CASE Accept
    <2>1. journal'.epoch = (IF journal.epoch = None THEN wire.epoch ELSE journal.epoch)
        BY <1>3, AcceptStep
    <2> QED
        BY <1>1, <2>1 DEF OnLog
<1>4. CASE WipeJournal
    <2>1. /\ ingest.pc = "wipe"
          /\ journal'.epoch = IF ingest.work.kind = "EpochReset" THEN ingest.work.epoch ELSE journal.epoch
        BY <1>4, WipedJournal
    <2>2. OnLog => ingest.work.kind = "Resync"
        BY <2>1 DEF Truths, WorkTells
    <2> QED
        BY <1>1, <1>4, <2>1, <2>2 DEF OnLog
<1> QED
    BY <1>2, <1>3, <1>4, JournalSteps

\* The client is never untold of a position of a timeline that goes on.
LEMMA Backing ==
    ASSUME Base, CoverageInv, [Next]_vars, OnLog, OnLog'
    PROVE  /\ \A i \in Nat : Backed(i) => Backed(i)'
           /\ Here \in Nat /\ Here' \in Nat /\ Here <= Here'
<1>1. Truths
    BY DEF CoverageInv, Truths
<1>2. Here \in Nat /\ Len(log) \in Nat /\ journal.log \in SUBSET Row /\ \A r \in Row : r.id \in Nat
    BY <1>1, BaseLog DEF Truths
<1>3. CASE SameRows \/ Accept
    <2>1. journal'.log = journal.log /\ Here' = Here
        BY <1>3, AcceptStep DEF SameRows, Here
    <2> QED
        BY <1>2, <2>1 DEF Backed
<1>4. CASE AppendChunk
    <2>1. /\ journal'.log = {r \in journal.log : \A y \in ingest.work.rows : y.id # r.id} \cup ingest.work.rows
          /\ Here' = Here
        BY <1>4, AppendStep DEF Here
    <2>2. \A x \in journal.log : \E y \in journal'.log : y.id = x.id
        BY <2>1
    <2> QED
        BY <1>2, <2>1, <2>2 DEF Backed
<1>5. CASE AdvanceIngested
    <2>1. ingest.pc = "publish" /\ journal'.log = journal.log /\ Here' = ingest.work.last
        BY <1>1, <1>5, AdvancedCursor
    <2>2. ingest.work.last \in Here .. Len(log)
        BY <1>1, <2>1, PublishedWork
    <2>3. Here' \in Nat /\ Here <= Here'
        BY <1>2, <2>1, <2>2
    <2> QED
        BY <1>2, <2>1, <2>3 DEF Backed
<1>6. CASE PruneCommit
    <2>1. ingest.pc = "commit" /\ journal'.log = journal.log \ ingest.plan.rows /\ Here' = Here
        BY <1>6, PrunedJournal
    <2>2. \A x \in journal.log : x.id <= Here
        BY <2>1 DEF CoverageInv, Pruning
    <2> QED
        BY <1>2, <2>1, <2>2 DEF Backed
<1>7. CASE WipeJournal
    <2>1. ingest.pc = "wipe" /\ Here' = ingest.work.last /\ ingest.work.last \in Nat
        BY <1>1, <1>7, WipedJournal, BaseTypes
    <2>2. InHand /\ ingest.work.epoch = epoch
        BY <1>1, <2>1 DEF InHand, Truths, WorkTells
    <2>3. \A h : Behind(h) => h <= Here'
        BY <2>1, <2>2 DEF Behind
    <2>4. Here <= Here'
        BY <1>1, <2>3 DEF Truths, JournalTells
    <2>5. ASSUME NEW x \in journal.log PROVE x.id <= Here'
        <3>1. x.id \in Nat
            BY <1>2
        <3>2. CASE x.id > Here
            <4>1. PICK h \in x.id .. Len(log) : Behind(h)
                BY <1>1, <3>2 DEF Truths, JournalTells, Told
            <4> QED
                BY <1>2, <2>1, <2>3, <3>1, <4>1
        <3> QED
            BY <1>2, <2>1, <2>4, <3>1, <3>2
    <2> QED
        BY <1>2, <2>1, <2>4, <2>5 DEF Backed
<1> QED
    BY <1>3, <1>4, <1>5, <1>6, <1>7, JournalSteps

\* A published row is one of the journal.
LEMMA PublishedBacked ==
    ASSUME Base, CoverageInv, OnLog, ingest.pc = "publish", NEW r \in ingest.work.rows
    PROVE  r \in journal.log /\ r.id \in Nat /\ Backed(r.id) /\ r.id > Here /\ Untouched(r.e, r.id, ingest.work.last)
<1>1. ingest.work.rows \subseteq journal.log /\ r.id > Here /\ Untouched(r.e, r.id, ingest.work.last)
    BY DEF CoverageInv, WorkTells
<1>2. r.id \in Nat
    BY BaseLog DEF CoverageInv
<1> QED
    BY <1>1, <1>2 DEF Backed

\* Where a mount reads its slice from and guards its tail at is known to the client.
LEMMA PlanBacked ==
    ASSUME Base, CoverageInv, OnLog, NEW c \in Collections, sub[c].pc = "read"
    PROVE  LET plan == PlanMount(sub[c].mark, sub[c].cursor, sub[c].floor, journal.resync)
           IN  Backed(plan.guard) /\ (plan.decision = "Snapshot" => plan.since <= Here)
<1> DEFINE s == sub[c]
           plan == PlanMount(s.mark, s.cursor, s.floor, journal.resync)
           point == SnapshotPoint(s.cursor, journal.resync)
<1>1. MountTells(c) /\ MarkTells(c) /\ journal.resync <= Here
    BY DEF CoverageInv, Mounts, Mounting, MarksTell, JournalTells
<1>2. /\ s.mark \in Nat \cup {None} /\ s.cursor \in Nat \cup {None} /\ journal.cursor \in Nat \cup {None}
      /\ journal.resync \in Nat \cup {None} /\ None = -1
    BY BaseTypes, SubscriberTypes
<1>3. s.mark = Current(c) /\ s.cursor <= journal.cursor /\ Backed(s.mark)
    BY <1>1 DEF MountTells, MarkTells
<1>4. Here \in Nat /\ OrZero(s.cursor) <= Here /\ OrZero(s.cursor) \in Nat
    BY <1>2, <1>3 DEF Here, OrZero, ZeroSyncId
<1>5. point <= Here /\ point \in Nat
    BY <1>1, <1>2, <1>4 DEF SnapshotPoint, MaxSyncId
<1>6. plan.guard = point \/ plan.guard = s.mark
    BY DEF PlanMount, MaxSyncId
<1>7. plan.decision = "Snapshot" => plan.since = point
    BY DEF PlanMount
<1> HIDE DEF plan, point
<1>8. Backed(plan.guard)
    BY <1>3, <1>5, <1>6 DEF Backed
<1>9. plan.decision = "Snapshot" => plan.since <= Here
    BY <1>5, <1>7
<1> QED
    BY <1>8, <1>9 DEF plan, point

\* Nothing but its fanout ends a recovery that has wiped the journal.
LEMMA TellStays ==
    ASSUME Base, [Next]_vars, ingest.pc = "tell"
    PROVE  ingest' = ingest \/ TellRecovery \/ Crash
<1>1. CASE \E c \in Collections : Unmount(c) \/ Mount(c) \/ Attach(c) \/ Drain(c)
    BY <1>1 DEF Unmount, Mount, Attach, ReadMark, ReadFloor, ReadJournal, Drain, TakeReplay, TakeTail,
                ListServer, Land, Ack
<1> QED
    BY <1>1 DEF Next, vars, ServerWrites, Write, BulkChange, Expire, Restore, Serve, ServeList, ServeHydrate,
           Start, Fail, Stop, Base, Run, Accept, AppendChunk, PublishRow, AdvanceIngested, FlushBeforePrune, PruneRead,
           PruneCommit, Recover, BeginRecovery, WipeJournal, TimedFlush, Disturb

\* What a subscriber has heard, or will hear, is known to the client, too.
LEMMA TopsNext ==
    ASSUME Base, CoverageInv, [Next]_vars
    PROVE  Tops'
<1> DEFINE Resetting == ingest.pc = "tell" /\ ingest.work.kind = "EpochReset"
<1>1. SUFFICES ASSUME OnLog', ~Resetting', NEW c \in Collections, sub'[c].pc # "off" PROVE Topped(c)'
    BY DEF Tops
<1>2. Truths /\ LogTags
    BY DEF CoverageInv, Truths
<1>3. ~(WipeJournal /\ ingest.work.kind = "EpochReset")
    BY <1>1, <1>2, WipedJournal
<1>4. OnLog
    BY <1>1, <1>2, <1>3, OnLogSteps
<1>5. /\ \A i \in Nat : Backed(i) => Backed(i)'
      /\ Here \in Nat /\ Here' \in Nat /\ Here <= Here'
    BY <1>1, <1>4, Backing
<1>6. /\ Len(sub[c].queue) \in Nat /\ sub[c].guard \in Nat
      /\ \A k \in Queued(c) : sub[c].queue[k].row.id \in Nat
    BY SubscriberTypes DEF Queued
<1>7. sub[c].pc # "off" /\ ~Resetting => Topped(c)
    BY <1>4 DEF CoverageInv, Tops
<1>8. ASSUME sub'[c].queue = sub[c].queue, sub'[c].guard = sub[c].guard, sub[c].pc # "off", ~Resetting
      PROVE  Topped(c)'
    BY <1>5, <1>6, <1>7, <1>8 DEF Topped, Backed, Queued
<1>9. CASE PublishRow \/ (TellRecovery /\ ~Resetting)
    <2>1. PICK kind, row : /\ Offered(kind, row) /\ row.id \in Nat /\ Backed(row.id) /\ ~Resetting
        <3>1. CASE PublishRow
            BY <1>2, <1>4, <3>1, PublishStep, PublishedBacked
        <3>2. CASE TellRecovery
            <4>1. ControlRow(ingest.work.last).id = Here
                BY <1>2, <3>2, TellStep DEF ControlRow, Truths, WorkTells
            <4> QED
                BY <1>5, <1>9, <3>2, <4>1, TellStep, ConstantsOK DEF Backed, PublishRow
        <3> QED
            BY <1>9, <3>1, <3>2
    <2> DEFINE s == sub[c]
               t == sub'[c]
    <2>2. /\ t.pc = s.pc /\ t.guard = s.guard /\ (t.queue = s.queue \/ Len(t.queue) = Len(s.queue) + 1)
          /\ \A k \in 1 .. Len(s.queue) : k \in 1 .. Len(t.queue) /\ t.queue[k] = s.queue[k]
          /\ \A k \in 1 .. Len(t.queue) :
                \/ k \in 1 .. Len(s.queue) /\ t.queue[k] = s.queue[k]
                \/ k = Len(s.queue) + 1 /\ t.queue[k].row = row
        BY <2>1, PublishedItems
    <2>3. Topped(c)
        BY <1>1, <1>7, <2>1, <2>2
    <2>4. \A i \in 0 .. Len(s.queue) : (\E k \in i + 1 .. Len(s.queue) : s.queue[k].kind = "EpochReset")
                                       => \E k \in i + 1 .. Len(t.queue) : t.queue[k].kind = "EpochReset"
        BY SMTT(40), <1>6, <2>2
    <2>5. (\E k \in 1 .. Len(t.queue) : t.queue[k].kind = "EpochReset") \/ Backed(t.guard)
        BY SMTT(40), <1>6, <2>2, <2>3, <2>4 DEF Topped
    <2>6. ASSUME NEW i \in 1 .. Len(t.queue)
          PROVE  (\E k \in i + 1 .. Len(t.queue) : t.queue[k].kind = "EpochReset") \/ Backed(t.queue[i].row.id)
        <3>1. CASE i \in 1 .. Len(s.queue) /\ t.queue[i] = s.queue[i]
            BY SMTT(40), <1>6, <2>3, <2>4, <3>1 DEF Topped, Queued
        <3>2. CASE t.queue[i].row = row
            BY <2>1, <3>2
        <3> QED
            BY <2>2, <3>1, <3>2
    <2>7. UNCHANGED journal
        BY <1>9, PublishStep, TellStep
    <2> QED
        BY <2>5, <2>6, <2>7 DEF Topped, Backed, Queued, Here
<1>10. CASE TellRecovery /\ Resetting
    <2> DEFINE s == sub[c]
               t == sub'[c]
    <2>1. ingest.pc = "tell" /\ Offered("EpochReset", ControlRow(ingest.work.last)) /\ journal' = journal
        BY <1>10, TellStep
    <2>2. ControlRow(ingest.work.last).id = Here
        BY SMTT(40), <1>2, <2>1 DEF ControlRow, Truths, WorkTells
    <2>3. t.pc = s.pc /\ Len(t.queue) = Len(s.queue) + 1
          /\ t.queue[Len(s.queue) + 1].kind = "EpochReset" /\ t.queue[Len(s.queue) + 1].row.id = Here
        BY <1>1, <2>1, <2>2, PublishedItems
    <2> PICK m \in Nat : m = Len(s.queue) /\ Len(t.queue) = m + 1
        BY <1>6, <2>3
    <2>4. \A i \in 0 .. m : \E k \in i + 1 .. m + 1 : t.queue[k].kind = "EpochReset"
        <3>1. \A i \in 0 .. m : m + 1 \in i + 1 .. m + 1
            BY ONLY m \in Nat
        <3> QED
            BY <2>3, <3>1
    <2>5. Here' = Here
        BY <2>1 DEF Here
    <2>6. ASSUME NEW i \in 1 .. m + 1
          PROVE  (\E k \in i + 1 .. m + 1 : t.queue[k].kind = "EpochReset") \/ Backed(s.queue[i].row.id)'
        <3>1. i \in 0 .. m \/ i = m + 1
            BY ONLY m \in Nat, i \in 1 .. m + 1
        <3>2. i = m + 1 => t.queue[i].row.id <= Here'
            BY <1>5, <2>3, <2>5
        <3> QED
            BY <2>4, <3>1, <3>2 DEF Backed
    <2>7. 0 \in 0 .. m /\ 0 + 1 = 1
        OBVIOUS
    <2>8. \E k \in 1 .. m + 1 : t.queue[k].kind = "EpochReset"
        BY ONLY <2>4, <2>7
    <2>9. Queued(c)' = 1 .. m + 1 /\ sub'[c].queue = t.queue /\ Len(sub'[c].queue) = m + 1
        BY DEF Queued
    <2> QED
        BY <2>6, <2>7, <2>8, <2>9 DEF Topped, Backed
<1>11. CASE Mount(c)
    <2>1. sub'[c].queue = <<>> /\ sub'[c].guard = 0
        BY <1>11, MountStep
    <2> QED
        BY <1>5, <2>1 DEF Topped, Backed, Queued
<1>12. CASE ReadJournal(c)
    <2> DEFINE s == sub[c]
               t == sub'[c]
               plan == PlanMount(s.mark, s.cursor, s.floor, journal.resync)
    <2>1. /\ s.pc = "read" /\ Rest /\ t.queue = s.queue
          /\ t.guard \in Nat /\ (t.guard = plan.guard \/ \E r \in t.replay : t.guard = r.id)
          /\ t.replay = ReadRows(journal, CollModel[c], plan.since)
        BY <1>12, ReadJournalStep
    <2>2. Backed(plan.guard)
        BY <1>4, <2>1, PlanBacked
    <2>3. t.replay \subseteq journal.log
        BY <2>1 DEF ReadRows
    <2> HIDE DEF plan
    <2>4. \A x \in journal.log : x.id >= x.id
        BY <1>2, BaseLog
    <2>5. Backed(t.guard)
        BY <2>1, <2>2, <2>3, <2>4 DEF Backed
    <2>6. ~Resetting /\ Topped(c)
        <3>1. ~Resetting
            BY SMTT(40), <1>12, ConstantsOK DEF ReadJournal, Base, GateHeld
        <3> QED
            BY <1>7, <2>1, <3>1
    <2> QED
        BY <2>1, <2>5, <2>6 DEF Topped, Backed, Queued, Here, Rest
<1>13. CASE TakeTail(c)
    <2> DEFINE s == sub[c]
               t == sub'[c]
               item == s.queue[1]
    <2>1. /\ s.pc = "idle" /\ Rest /\ Len(s.queue) > 0 /\ Len(t.queue) = Len(s.queue) - 1
          /\ \A k \in 1 .. Len(t.queue) : t.queue[k] = s.queue[k + 1]
          /\ t.guard = GuardAfter(s.guard, item.kind, item.row.id)
        BY <1>13, TakeTailStep
    <2>2. ~Resetting
        BY <1>1, <2>1 DEF Rest
    <2>3. Topped(c)
        BY <1>7, <2>1, <2>2
    <2>4. 1 \in Queued(c) /\ item.row.id \in Nat
        BY <1>6, <2>1 DEF Queued
    <2>5. \A i \in 0 .. Len(t.queue) : (\E k \in i + 2 .. Len(s.queue) : s.queue[k].kind = "EpochReset")
                                       => \E k \in i + 1 .. Len(t.queue) : t.queue[k].kind = "EpochReset"
        <3>1. SUFFICES ASSUME NEW i \in 0 .. Len(t.queue), NEW k \in i + 2 .. Len(s.queue), s.queue[k].kind = "EpochReset"
                       PROVE  \E j \in i + 1 .. Len(t.queue) : t.queue[j].kind = "EpochReset"
            OBVIOUS
        <3>2. k - 1 \in i + 1 .. Len(t.queue) /\ k - 1 \in 1 .. Len(t.queue) /\ (k - 1) + 1 = k
            <4>1. PICK m \in Nat : m = Len(s.queue) /\ Len(t.queue) = m - 1
                BY <1>6, <2>1
            <4>2. m \in Nat /\ i \in Nat /\ k \in i + 2 .. m
                BY <3>1, <4>1
            <4>3. k - 1 \in i + 1 .. m - 1 /\ k - 1 \in 1 .. m - 1 /\ (k - 1) + 1 = k
                BY ONLY <4>2
            <4> QED
                BY <4>1, <4>3
        <3>3. t.queue[k - 1] = s.queue[(k - 1) + 1]
            BY <2>1, <3>2
        <3> QED
            BY <3>1, <3>2, <3>3
    <2>6. (\E k \in 1 .. Len(t.queue) : t.queue[k].kind = "EpochReset") \/ Backed(t.guard)
        <3>1. (\E k \in 2 .. Len(s.queue) : s.queue[k].kind = "EpochReset") \/ Backed(item.row.id)
            BY <2>3, <2>4 DEF Topped
        <3>2. (\E k \in 1 .. Len(s.queue) : s.queue[k].kind = "EpochReset") \/ Backed(s.guard)
            BY <2>3 DEF Topped
        <3>3. item.kind # "EpochReset" => t.guard = s.guard \/ t.guard = item.row.id
            BY <2>1 DEF GuardAfter, MaxSyncId
        <3>4. item.kind = "EpochReset" => t.guard = item.row.id
            BY <2>1 DEF GuardAfter
        <3>5. (\E k \in 1 .. Len(s.queue) : s.queue[k].kind = "EpochReset") =>
                item.kind = "EpochReset" \/ \E k \in 2 .. Len(s.queue) : s.queue[k].kind = "EpochReset"
            BY <1>6
        <3>6. (\E k \in 2 .. Len(s.queue) : s.queue[k].kind = "EpochReset")
              => \E k \in 1 .. Len(t.queue) : t.queue[k].kind = "EpochReset"
            BY SMTT(40), <1>6, <2>1, <2>5
        <3> QED
            BY <3>1, <3>2, <3>3, <3>4, <3>5, <3>6
    <2>7. ASSUME NEW i \in 1 .. Len(t.queue)
          PROVE  (\E k \in i + 1 .. Len(t.queue) : t.queue[k].kind = "EpochReset") \/ Backed(t.queue[i].row.id)
        <3>1. i + 1 \in Queued(c) /\ t.queue[i] = s.queue[i + 1] /\ i \in 0 .. Len(t.queue)
            BY <1>6, <2>1 DEF Queued
        <3>2. (\E k \in (i + 1) + 1 .. Len(s.queue) : s.queue[k].kind = "EpochReset") \/ Backed(s.queue[i + 1].row.id)
            BY <2>3, <3>1 DEF Topped
        <3>3. (i + 1) + 1 = i + 2
            OBVIOUS
        <3> QED
            BY <2>5, <3>1, <3>2, <3>3
    <2> QED
        BY <2>1, <2>6, <2>7 DEF Topped, Backed, Queued, Here, Rest
<1>14. CASE ReadMark(c) \/ ReadFloor(c) \/ TakeReplay(c) \/ ListServer(c) \/ Land(c) \/ Ack(c)
    <2>1. /\ Rest /\ sub'[c].queue = sub[c].queue /\ sub'[c].guard = sub[c].guard /\ sub[c].pc # "off"
        BY <1>14, ReadMarkStep, ReadFloorStep, TakeReplayStep, ListStep, LandStep, AckStep
    <2> QED
        BY <1>1, <1>8, <2>1 DEF Rest
<1>15. CASE Crash \/ Unmount(c)
    <2>1. sub'[c] = Detached
        BY <1>15, CrashStep, UnmountStep
    <2> QED
        BY <1>1, <2>1 DEF Detached
<1>16. TellRecovery \/ Crash \/ ~Resetting
    BY <1>1, TellStays
<1>17. CASE sub'[c] = sub[c]
    BY <1>1, <1>8, <1>10, <1>15, <1>16, <1>17
<1> QED
    BY <1>9, <1>10, <1>11, <1>12, <1>13, <1>14, <1>15, <1>17, SubscriberSteps DEF Attach, Drain

-----------------------------------------------------------------------------
(* Mounts under way *)

\* What leads to a prune, and through it.
LEMMA PruneSteps ==
    ASSUME Base, [Next]_vars, ingest'.pc \in {"flush", "prune", "commit"}
    PROVE  ingest' = ingest \/ AdvanceIngested \/ (FlushBeforePrune /\ ingest'.pc = "prune") \/ PruneRead
<1>1. CASE \E c \in Collections : Unmount(c) \/ Mount(c) \/ Attach(c) \/ Drain(c)
    BY <1>1 DEF Unmount, Mount, Attach, ReadMark, ReadFloor, ReadJournal, Drain, TakeReplay, TakeTail,
                ListServer, Land, Ack
<1>2. CASE Start \/ Fail \/ Stop \/ Crash
    BY <1>2, StartStep, FailStep, StopStep, CrashStep DEF StoppedIngest
<1>3. CASE Accept \/ AppendChunk \/ PublishRow \/ BeginRecovery \/ TellRecovery
    BY <1>3, AcceptStep, AppendStep, PublishStep, BeginStep, TellStep
<1>4. CASE PruneCommit \/ WipeJournal
    BY <1>4 DEF PruneCommit, WipeJournal, Streaming, StoppedIngest, Base, TypeInv, TypeOK, IngestFiber
<1>5. CASE ServerWrites \/ Expire \/ Restore \/ Serve \/ TimedFlush \/ UNCHANGED vars
    BY <1>5, ServeStep DEF ServerWrites, Write, BulkChange, Expire, Restore, TimedFlush, vars
<1>6. CASE FlushBeforePrune
    BY <1>6, FlushBeforePruneStep
<1> QED
    BY <1>1, <1>2, <1>3, <1>4, <1>5, <1>6 DEF Next, Run, Recover, Disturb

\* While a mount holds the gate, nothing takes back what it has read.
LEMMA MountsNext ==
    ASSUME Base, CoverageInv, [Next]_vars
    PROVE  Mounts'
<1>1. SUFFICES ASSUME OnLog', NEW c \in Collections, Mounting(c)' PROVE MountTells(c)'
    BY DEF Mounts
<1> DEFINE s == sub[c]
           t == sub'[c]
           m == CollModel[c]
<1>2. Truths /\ LogTags
    BY DEF CoverageInv, Truths
<1>3. t.pc \in {"attach", "floor", "read"}
    BY <1>1 DEF Mounting
<1>4. CASE Mount(c)
    <2>1. /\ t.pc = "attach" /\ t.gen = generation /\ generation' = generation /\ t.queue = <<>>
          /\ t.snap = None /\ t.replay = {}
        BY <1>4, MountStep DEF Rest
    <2> QED
        BY <2>1 DEF MountTells, Queued
<1>5. CASE s.pc \in {"attach", "floor", "read"}
    <2>1. gate = c /\ gate # Free /\ gate # Ingest /\ ingest.pc \notin {"wipe", "tell"}
        BY <1>5, ConstantsOK DEF Base, GateHeld
    <2>2. generation' = generation /\ pending' = pending /\ journal'.marks = journal.marks
        <3>1. CASE Next
            <4>1. IInv /\ GateHeld
                BY DEF Base, IInv
            <4>2. Assembling(c) /\ Assembling(c)'
                BY <1>3, <1>5 DEF Assembling
            <4> QED
                BY <3>1, <4>1, <4>2, StepAtomic
        <3>2. CASE UNCHANGED vars
            BY <3>2 DEF vars
        <3> QED
            BY <3>1, <3>2
    <2>3. OnLog
        BY <1>1, <1>2, <2>1, OnLogSteps DEF WipeJournal
    <2>4. MountTells(c) /\ \A n \in Models : journal.floor[n] <= Here
        BY <1>2, <1>5, <2>3 DEF CoverageInv, Mounts, Mounting, Truths, JournalTells
    <2>5. /\ m \in Models /\ journal.cursor \in Nat \cup {None} /\ s.cursor \in Nat \cup {None} /\ Len(s.queue) \in Nat
          /\ journal.floor[m] \in Nat \cup {None} /\ None = -1 /\ Here \in Nat /\ Len(log) \in Nat
        BY <1>2, BaseTypes, BaseLog, SubscriberTypes
    <2>6. ingest'.pc \in {"prune", "commit"} => (ingest' = ingest \/ PruneRead)
        BY <2>1, AdvancedCursor, <1>2, PruneSteps, FlushBeforePruneStep, FlushStep
    <2>7. ingest'.pc \in {"prune", "commit"} => ingest.pc \in {"prune", "commit"} /\ journal'.cursor = journal.cursor
        <3>1. ingest' = ingest /\ ingest'.pc \in {"prune", "commit"} => journal'.cursor = journal.cursor
            BY JournalSteps, AcceptStep, AppendStep, AdvancedCursor, PrunedJournal, WipedJournal, <1>2 DEF SameRows
        <3> QED
            BY <2>6, <3>1, PruneReadStep
    <2>8. CASE PublishRow
        <3>1. PICK r \in ingest.work.rows : /\ Offered("Event", r) /\ ingest.pc = "publish" /\ ingest'.pc = "publish"
                                            /\ UNCHANGED <<journal, pending>>
            BY <2>8, PublishStep
        <3>2. r \in journal.log
            BY <2>3, <3>1, PublishedBacked
        <3>3. /\ t.pc = s.pc /\ t.gen = s.gen /\ t.mark = s.mark /\ t.cursor = s.cursor /\ t.floor = s.floor
              /\ t.snap = s.snap /\ t.replay = s.replay
              /\ \A k \in 1 .. Len(t.queue) :
                    \/ k \in 1 .. Len(s.queue) /\ t.queue[k] = s.queue[k]
                    \/ t.queue[k].gen = generation /\ t.queue[k].kind = "Event" /\ t.queue[k].row = r
            BY <3>1, PublishedItems
        <3>4. \A k \in 1 .. Len(t.queue) : /\ t.queue[k].gen = generation /\ t.queue[k].kind = "Event"
                                           /\ \E x \in journal.log : x.id = t.queue[k].row.id /\ x.e = t.queue[k].row.e
            BY SMTT(40), <2>4, <3>2, <3>3 DEF MountTells, Queued
        <3> QED
            BY <2>2, <2>4, <3>1, <3>3, <3>4 DEF MountTells, Queued, Current
    <2>9. CASE ReadMark(c)
        <3>1. /\ s.pc = "attach" /\ Rest /\ pending' = pending /\ t.pc = "floor" /\ t.mark = Current(c)
              /\ t.cursor = journal.cursor
              /\ t.gen = s.gen /\ t.snap = s.snap /\ t.replay = s.replay /\ t.queue = s.queue
            BY <2>9, ReadMarkStep
        <3>2. journal.floor[m] <= OrZero(journal.cursor)
            BY <2>4, <2>5 DEF Here
        <3>3. journal.cursor <= journal.cursor
            BY <2>5
        <3> QED
            BY <2>4, <3>1, <3>2, <3>3 DEF MountTells, Queued, Rest, Current
    <2>10. CASE ReadFloor(c)
        <3>1. /\ s.pc = "floor" /\ Rest /\ pending' = pending /\ t.pc = "read" /\ t.mark = s.mark
              /\ t.cursor = s.cursor /\ t.floor = journal.floor[m]
              /\ t.gen = s.gen /\ t.snap = s.snap /\ t.replay = s.replay /\ t.queue = s.queue
            BY <2>10, ReadFloorStep
        <3> QED
            BY <2>4, <3>1 DEF MountTells, Queued, Rest, Current
    <2>11. CASE t = s
        <3>1. \A x \in journal.log : s.queue # <<>> => \E y \in journal'.log : y.id = x.id /\ y.e = x.e
            <4>1. CASE AppendChunk
                <5>1. /\ journal'.log = {r \in journal.log : \A y \in ingest.work.rows : y.id # r.id} \cup ingest.work.rows
                      /\ ingest.pc = "append"
                    BY <4>1, AppendStep
                <5>2. (\A x \in journal.log : Placed(x)) /\ \A y \in ingest.work.rows : Placed(y)
                    BY <1>2, <2>3, <5>1 DEF Truths, JournalTells, WorkTells, RowTells
                <5> QED
                    BY <5>1, <5>2 DEF Placed
            <4>2. CASE PruneCommit
                BY <2>4, <4>2 DEF MountTells, PruneCommit
            <4>3. CASE SameRows \/ Accept \/ AdvanceIngested
                BY <1>2, <4>3, AcceptStep, AdvancedCursor DEF SameRows
            <4> QED
                BY <2>1, <4>1, <4>2, <4>3, JournalSteps DEF WipeJournal
        <3>2. ASSUME NEW k \in Queued(c)
              PROVE  /\ s.queue[k].gen = generation /\ s.queue[k].kind = "Event"
                     /\ \E y \in journal'.log : y.id = s.queue[k].row.id /\ y.e = s.queue[k].row.e
            <4>1. s.queue # <<>>
                BY <2>5, <3>2 DEF Queued
            <4> QED
                BY <2>4, <3>1, <3>2, <4>1 DEF MountTells
        <3>3. journal.cursor <= journal'.cursor
            <4>1. CASE AdvanceIngested
                <5>1. Here' = ingest.work.last /\ ingest.pc = "publish" /\ Here' = journal'.cursor
                    BY <1>2, <2>3, <4>1, AdvancedCursor
                <5>2. ingest.work.last \in Here .. Len(log)
                    BY <1>2, <2>3, <5>1, PublishedWork
                <5>3. journal.cursor <= Here
                    BY <2>5 DEF Here, OrZero, ZeroSyncId
                <5> QED
                    BY <2>5, <5>1, <5>2, <5>3
            <4>2. CASE ~AdvanceIngested
                <5>1. journal'.cursor = journal.cursor
                    BY <2>1, <4>2, JournalSteps, AcceptStep, AppendStep, PrunedJournal DEF SameRows, WipeJournal
                <5> QED
                    BY <2>5, <5>1
            <4> QED
                BY <4>1, <4>2
        <3>4. CASE s.pc \in {"floor", "read"}
            <4>1. /\ s.mark = Current(c) /\ s.cursor <= journal.cursor /\ journal.floor[m] <= OrZero(s.cursor)
                  /\ (ingest.pc \in {"prune", "commit"} => s.cursor = journal.cursor)
                BY <2>4, <3>4 DEF MountTells
            <4>2. journal'.floor[m] <= OrZero(s.cursor) /\ (s.pc = "read" => s.floor = journal'.floor[m])
                <5>1. s.pc = "read" => s.floor = journal.floor[m]
                    BY <2>4 DEF MountTells
                <5>2. CASE PruneCommit
                    <6>1. /\ ingest.pc = "commit" /\ journal'.floor[m] = MaxSyncId(journal.floor[m], ingest.plan.floor[m])
                          /\ ingest.plan.floor[m] <= Here
                        BY <2>3, <2>5, <5>2, PrunedJournal DEF CoverageInv, Pruning
                    <6>2. s.pc = "read" => ingest.plan.floor[m] = None
                        BY <5>2 DEF PruneCommit, Base
                    <6>3. s.cursor = journal.cursor
                        BY <4>1, <6>1
                    <6>4. ingest.plan.floor[m] <= OrZero(s.cursor)
                        BY <6>1, <6>3 DEF Here
                    <6> QED
                        BY <2>5, <4>1, <5>1, <6>1, <6>2, <6>4 DEF MaxSyncId
                <5>3. CASE ~PruneCommit
                    <6>1. journal'.floor = journal.floor
                        BY <1>2, <2>1, <5>3, JournalSteps, AcceptStep, AppendStep, AdvancedCursor DEF SameRows, WipeJournal
                    <6> QED
                        BY <4>1, <5>1, <6>1
                <5> QED
                    BY <5>2, <5>3
            <4>3. s.cursor <= journal'.cursor
                <5>1. journal'.cursor \in Int
                    <6>1. AdvanceIngested => journal'.cursor \in Int
                        BY <1>2, AdvancedCursor
                    <6>2. ~AdvanceIngested => journal'.cursor = journal.cursor
                        BY <2>1, JournalSteps, AcceptStep, AppendStep, PrunedJournal DEF SameRows, WipeJournal
                    <6> QED
                        BY <2>5, <6>1, <6>2
                <5> QED
                    BY <2>5, <3>3, <4>1, <5>1
            <4>4. ingest'.pc \in {"prune", "commit"} => s.cursor = journal'.cursor
                BY <2>7, <4>1
            <4>5. Current(c)' = Current(c)
                BY <2>2 DEF Current
            <4> QED
                BY <2>2, <2>4, <2>7, <2>11, <3>2, <4>1, <4>2, <4>3, <4>4, <4>5 DEF MountTells, Queued
        <3>5. CASE s.pc = "attach"
            BY <2>2, <2>4, <2>7, <2>11, <3>2, <3>5 DEF MountTells, Queued
        <3> QED
            BY <1>5, <3>4, <3>5
    <2>12. ~TellRecovery /\ ~ReadJournal(c) /\ ~Drain(c) /\ ~Mount(c) /\ ~Crash /\ ~Unmount(c)
        <3>1. ~TellRecovery
            BY <2>1 DEF TellRecovery
        <3>2. ~ReadJournal(c)
            BY <1>3, ReadJournalStep
        <3>3. ~Mount(c)
            BY <1>5, MountStep
        <3>4. ~Crash /\ ~Unmount(c)
            BY <1>3, CrashStep, UnmountStep DEF Detached
        <3>5. ~Drain(c)
            BY <1>5, TakeReplayStep, TakeTailStep, ListStep, LandStep, AckStep DEF Drain
        <3> QED
            BY <3>1, <3>2, <3>3, <3>4, <3>5
    <2> QED
        BY <2>8, <2>9, <2>10, <2>11, <2>12, SubscriberSteps DEF Attach
<1>6. s.pc \in {"attach", "floor", "read"} \/ Mount(c)
    <2>1. PublishRow \/ TellRecovery => t.pc = s.pc
        <3>1. PublishRow => \E kind, row : Offered(kind, row)
            BY PublishStep
        <3>2. TellRecovery => \E kind, row : Offered(kind, row)
            BY TellStep
        <3> QED
            BY <3>1, <3>2, PublishedItems
    <2>2. ~Crash /\ ~Unmount(c)
        BY <1>3, CrashStep, UnmountStep DEF Detached
    <2>3. Attach(c) => s.pc \in {"attach", "floor", "read"}
        BY ReadMarkStep, ReadFloorStep, ReadJournalStep DEF Attach
    <2>4. ~Drain(c)
        BY <1>3, TakeReplayStep, TakeTailStep, ListStep, LandStep, AckStep DEF Drain
    <2> QED
        BY <1>3, <2>1, <2>2, <2>3, <2>4, SubscriberSteps
<1> QED
    BY <1>4, <1>5, <1>6

-----------------------------------------------------------------------------
(* Pruning *)

\* What becomes of a mark in one step: it may turn from pending to durable, be forgotten by
\* a recovery or a crash, or move with an ack.
LEMMA MarkSteps ==
    ASSUME Base, [Next]_vars, NEW c \in Collections
    PROVE  \/ journal'.marks[c] \in {journal.marks[c], Current(c)} /\ Current(c)' = Current(c)
           \/ journal'.marks[c] = journal.marks[c] /\ Current(c)' = journal.marks[c] /\ BeginRecovery
           \/ journal'.marks[c] \in {journal.marks[c], Current(c)} /\ Current(c)' = journal'.marks[c] /\ Crash
           \/ journal'.marks[c] = journal.marks[c] /\ Ack(c)
           \/ WipeJournal
<1>1. CASE UNCHANGED <<pending, journal>>
    BY <1>1 DEF Current
<1>2. CASE FlushMarks
    BY <1>2, FlushStep
<1>3. CASE Accept \/ AppendChunk \/ PublishRow \/ AdvanceIngested \/ PruneCommit
    <2>1. journal'.marks = journal.marks /\ pending' = pending
        BY <1>3, AcceptStep, AppendStep, PublishStep
           DEF AdvanceIngested, AdvanceCursor, PruneCommit, CommitPrune, Base, TypeInv, TypeOK, Journal
    <2> QED
        BY <2>1 DEF Current
<1>4. CASE BeginRecovery
    <2>1. pending' = NoMarks /\ journal' = journal
        BY <1>4, BeginStep
    <2>2. journal.marks[c] \in Nat \cup {None} /\ None = -1
        BY BaseTypes
    <2> QED
        BY <1>4, <2>1, <2>2 DEF NoMarks, Current, MaxSyncId
<1>5. CASE \E d \in Collections : Unmount(d) \/ Mount(d) \/ Attach(d) \/ Drain(d)
    <2>1. PICK d \in Collections : Unmount(d) \/ Mount(d) \/ Attach(d) \/ Drain(d)
        BY <1>5
    <2>2. CASE Ack(d)
        <3>1. Rest /\ (d # c => pending'[c] = pending[c])
            BY <2>2, AckStep
        <3> QED
            BY <2>2, <3>1 DEF Rest, Current
    <2>3. CASE ~Ack(d)
        <3>1. Rest /\ pending' = pending
            BY <2>1, <2>3, UnmountStep, MountStep, ReadMarkStep, ReadFloorStep, ReadJournalStep, TakeReplayStep, TakeTailStep,
               ListStep, LandStep DEF Attach, Drain
        <3> QED
            BY <1>1, <3>1 DEF Rest
    <2> QED
        BY <2>2, <2>3
<1>6. CASE Crash
    BY <1>6, CrashStep
<1>7. \/ UNCHANGED <<pending, journal>> \/ FlushMarks
      \/ Accept \/ AppendChunk \/ PublishRow \/ AdvanceIngested \/ PruneCommit
      \/ BeginRecovery \/ Crash \/ WipeJournal
      \/ \E d \in Collections : Unmount(d) \/ Mount(d) \/ Attach(d) \/ Drain(d)
    <2>1. CASE ServerWrites \/ Expire \/ Restore \/ Serve \/ Start \/ Fail \/ Stop \/ PruneRead \/ TellRecovery \/ UNCHANGED vars
        BY <2>1, ServeStep, StartStep, FailStep, StopStep, PruneReadStep, TellStep
           DEF ServerWrites, Write, BulkChange, Expire, Restore, vars
    <2>2. TimedFlush \/ FlushBeforePrune => FlushMarks
        BY DEF TimedFlush, FlushBeforePrune
    <2> QED
        BY <2>1, <2>2 DEF Next, Run, Recover, Disturb
<1> QED
    BY <1>1, <1>2, <1>3, <1>4, <1>5, <1>6, <1>7

\* A prune starts with nothing in the journal that the cursor has not passed.
Settled == ingest.pc \in {"flush", "prune", "commit"} /\ OnLog => \A x \in journal.log : x.id <= Here

\* Every step keeps the journal within the cursor while a prune is under way.
LEMMA SettledNext ==
    ASSUME Base, CoverageInv, [Next]_vars
    PROVE  Settled'
<1>1. SUFFICES ASSUME ingest'.pc \in {"flush", "prune", "commit"}, OnLog' PROVE \A x \in journal'.log : x.id <= Here'
    BY DEF Settled
<1>2. Truths /\ LogTags /\ Settled
    BY DEF CoverageInv, Truths, Pruning, Settled
<1>3. OnLog
    BY <1>1, <1>2, OnLogSteps, WipedJournal
<1>4. CASE SameRows /\ ingest.pc \in {"flush", "prune", "commit"}
    BY <1>2, <1>3, <1>4 DEF SameRows, Here, Settled
<1>5. CASE AdvanceIngested
    <2>1. Here' = ingest.work.last /\ journal'.log = journal.log /\ ingest.pc = "publish"
        BY <1>2, <1>3, <1>5, AdvancedCursor
    <2>2. \A x \in journal.log : x.id <= ingest.work.last
        BY <1>2, <1>3, <2>1, PublishedWork
    <2> QED
        BY <2>1, <2>2
<1>6. CASE FlushBeforePrune
    BY <1>4, <1>6, FlushBeforePruneStep, FlushStep
<1>7. CASE PruneRead
    BY <1>4, <1>7, PruneReadStep DEF SameRows
<1>8. CASE ingest' = ingest
    BY <1>1, <1>4, <1>8, <1>2, JournalSteps, AcceptStep, AppendStep, AdvancedCursor, PrunedJournal, WipedJournal
<1> QED
    BY <1>1, <1>5, <1>6, <1>7, <1>8, PruneSteps

\* What prune plans, from marks that are all on record.
LEMMA PlanTells ==
    ASSUME Base, CoverageInv, OnLog, ingest.pc = "prune", \A c \in Collections : ~Unrecorded(c),
           NEW plan, plan = PlanPrune(journal, MaxEventsPerModel, MaxEventsTotal)
    PROVE  /\ plan.rows \subseteq journal.log
           /\ \A m \in Models : plan.floor[m] <= Here
           /\ \A x, y \in journal.log : x.e = y.e /\ x.id < y.id => x \in plan.rows
           /\ \A c \in Collections, m \in Nat, r \in plan.rows :
                journal.marks[c] # None /\ m >= journal.marks[c] /\ r.e \in Mine(c) =>
                    \/ r.id <= m
                    \/ \E y \in journal.log : y.e = r.e /\ y.id > r.id
                    \/ plan.floor[CollModel[c]] >= r.id
<1> DEFINE rows == journal.log
           min == MinLastApplied(journal)
           p == PrunePlanOf(rows, min, MaxEventsPerModel, MaxEventsTotal)
<1>1. plan.rows = rows \ p.keep /\ plan.floor = p.floor
    BY DEF PlanPrune
<1>2. /\ IsRows(rows) /\ rows \in SUBSET Row /\ Here \in Nat /\ \A r \in rows : r.id \in Nat /\ r.id <= Here /\ r.e \in Entities
    BY BaseLog DEF IsRows, Base, TypeInv, TypeOK, Finite, Journal, CoverageInv, Pruning, SyncId, RealRows
<1>3. ASSUME NEW m \in Models PROVE p.floor[m] <= Here
    <2> DEFINE live == LiveRows(rows, min)
               keep == CapRows(live, MaxEventsPerModel, MaxEventsTotal)
               R == {x \in live \ keep : RowModel(x) = m}
               capped == {r.id : r \in R}
    <2>1. p.floor[m] = IF capped = {} THEN None ELSE Max(capped)
        BY DEF PrunePlanOf
    <2>2. R \subseteq rows
        BY StagesRemove
    <2>3. IsFiniteSet(R)
        BY <1>2, <2>2, FS_Subset DEF IsRows
    <2>4. IsFiniteSet(capped)
        BY <2>3, FiniteIds
    <2>5. capped \in SUBSET Nat /\ \A i \in capped : i <= Here
        BY <1>2, <2>2
    <2> HIDE DEF capped
    <2>6. capped # {} => Max(capped) \in capped
        BY <2>4, <2>5, MaxOfPositions
    <2> QED
        BY <1>2, <2>1, <2>5, <2>6 DEF None
<1>4. ASSUME NEW x \in rows, NEW y \in rows, x.e = y.e, x.id < y.id PROVE x \notin p.keep
    <2>1. p.keep \subseteq LiveRows(rows, min)
        BY DEF PrunePlanOf, CapRows, NewestRows
    <2>2. x \notin LiveRows(rows, min)
        BY <1>2, <1>4 DEF LiveRows, SquashRows
    <2> QED
        BY <2>1, <2>2
<1>5. ASSUME NEW c \in Collections, NEW m \in Nat, NEW r \in plan.rows, journal.marks[c] # None, m >= journal.marks[c],
             r.e \in Mine(c), r.id > m, \A y \in rows : y.e = r.e => y.id <= r.id
      PROVE  plan.floor[CollModel[c]] >= r.id
    <2> DEFINE k == CollModel[c]
               recorded == {journal.marks[d] : d \in {d \in Collections : CollModel[d] = k /\ journal.marks[d] # None}}
    <2>1. k \in Models /\ RowModel(r) = k
        BY <1>5, BaseTypes DEF Mine, RowModel
    <2>2. journal.marks[c] \in recorded
        BY <1>5
    <2>3. recorded \in SUBSET Nat
        BY BaseTypes
    <2>4. min[k] = Min(recorded) /\ Min(recorded) \in recorded /\ \A i \in recorded : Min(recorded) <= i
        <3>1. min[k] = Min(recorded)
            BY <2>1, <2>2 DEF MinLastApplied
        <3> HIDE DEF recorded
        <3>2. PICK i \in recorded : \A j \in recorded : i <= j
            BY <2>2, <2>3, LeastPosition
        <3>3. Min(recorded) \in recorded /\ \A j \in recorded : Min(recorded) <= j
            BY <3>2 DEF Min
        <3> QED
            BY <3>1, <3>3
    <2>5. min[k] # None /\ r.id > min[k]
        <3>1. min[k] \in Nat /\ min[k] <= journal.marks[c] /\ journal.marks[c] \in Nat
            <4> HIDE DEF recorded
            <4> QED
                BY <2>2, <2>3, <2>4
        <3>2. r.id \in Nat
            BY <1>1, <1>2
        <3> QED
            BY <1>5, <3>1, <3>2, BaseTypes
    <2>6. r \in rows /\ r \notin p.keep
        BY <1>1
    <2>7. \A s \in rows : s.e = r.e => s.id <= r.id
        BY <1>5
    <2> HIDE DEF min
    <2>8. r \in p.keep \/ p.floor[RowModel(r)] >= r.id
        BY <1>2, <2>1, <2>5, <2>6, <2>7, PruneLosesNothingSilently
    <2> QED
        BY <1>1, <2>1, <2>6, <2>8
<1>6. ASSUME NEW c \in Collections, NEW m \in Nat, NEW r \in plan.rows, journal.marks[c] # None, m >= journal.marks[c],
             r.e \in Mine(c)
      PROVE  \/ r.id <= m
             \/ \E y \in journal.log : y.e = r.e /\ y.id > r.id
             \/ plan.floor[CollModel[c]] >= r.id
    <2>1. r \in rows /\ r.id \in Nat /\ \A y \in rows : y.id \in Nat
        BY <1>1, <1>2
    <2>2. r.id <= m \/ r.id > m
        BY <2>1
    <2>3. (\A y \in rows : y.e = r.e => y.id <= r.id) \/ \E y \in rows : y.e = r.e /\ y.id > r.id
        BY <2>1
    <2> QED
        BY <1>5, <1>6, <2>2, <2>3
<1> HIDE DEF p
<1> QED
    BY <1>1, <1>3, <1>4, <1>6

\* Nobody waits for a recovery while the fiber is busy with anything else.
LEMMA NobodyLags ==
    ASSUME Base, CoverageInv, OnLog, ingest.pc \notin {"stopped", "catchup", "recover", "wipe", "tell"},
           NEW c \in Collections, Serving(c)
    PROVE  InTune(c)
BY DEF CoverageInv, Serves, Owed

\* What a prune deletes, if its plan is carried out.
Planned ==
    ingest.pc = "commit" /\ OnLog =>
        /\ ingest.plan.rows \subseteq journal.log
        /\ \A m \in Models : ingest.plan.floor[m] <= Here
        /\ \A x, y \in journal.log : x.e = y.e /\ x.id < y.id => x \in ingest.plan.rows
        /\ \A c \in Collections :
            /\ \A m \in {journal.marks[c], Current(c)} : \A r \in ingest.plan.rows : Dispensable(c, m, r)
            /\ Current(c) = None => sub[c].pc \in {"off", "attach", "floor", "read"} \/ Fresh(c)

\* A collection without a mark has nothing but a Snapshot before it.
LEMMA FreshStep ==
    ASSUME Base, CoverageInv, [Next]_vars, OnLog, ingest.pc = "commit", ingest' = ingest, SameRows,
           NEW c \in Collections, Current(c) = None, Current(c)' = None,
           sub[c].pc \in {"off", "attach", "floor", "read"} \/ Fresh(c)
    PROVE  sub'[c].pc \in {"off", "attach", "floor", "read"} \/ Fresh(c)'
<1> DEFINE s == sub[c]
           t == sub'[c]
<1>1. Here' = Here /\ Here \in Nat /\ LogTags
    BY BaseLog DEF SameRows, Here, CoverageInv
<1>2. /\ s.snap \in Nat \cup {None} /\ s.sig.row.id \in Nat /\ s.cursor \in Nat \cup {None} /\ None = -1
      /\ s.pc \in {"off", "attach", "floor", "read", "idle", "list", "land", "ack"} /\ Len(s.queue) \in Nat
    BY SubscriberTypes DEF Subscriber
<1>3. ASSUME s.pc \in {"idle", "list", "land", "ack"} PROVE Fresh(c) /\ InStep(c)
    <2>1. Fresh(c) /\ Serving(c)
        BY <1>3 DEF Serving
    <2>2. Queued(c) = {}
        BY <2>1 DEF Fresh, Queued
    <2> QED
        BY <2>1, <2>2, NobodyLags DEF InTune
<1>4. CASE sub'[c] = sub[c]
    BY <1>1, <1>4 DEF Fresh
<1>5. CASE Unmount(c) \/ Mount(c) \/ ReadMark(c) \/ ReadFloor(c)
    BY <1>5, UnmountStep, MountStep, ReadMarkStep, ReadFloorStep DEF Detached
<1>6. CASE ReadJournal(c)
    <2> DEFINE plan == PlanMount(s.mark, s.cursor, s.floor, journal.resync)
    <2>1. /\ s.pc = "read" /\ t.pc = "idle" /\ t.snap = (IF plan.decision = "Snapshot" THEN plan.since ELSE None)
          /\ t.queue = s.queue
        BY <1>6, ReadJournalStep
    <2>2. MountTells(c)
        BY <2>1 DEF CoverageInv, Mounts, Mounting
    <2>3. s.queue = <<>> /\ s.mark = None /\ s.cursor = journal.cursor
        BY <2>1, <2>2 DEF MountTells
    <2>4. plan.decision = "Snapshot" /\ plan.since = SnapshotPoint(s.cursor, journal.resync)
        BY <2>3 DEF PlanMount, Decision, Untrusted
    <2>5. SnapshotPoint(s.cursor, journal.resync) >= Here
        <3>1. journal.resync \in Nat \cup {None} /\ OrZero(s.cursor) = Here
            BY <2>3, BaseTypes DEF Here
        <3> QED
            BY <1>1, <3>1 DEF SnapshotPoint, MaxSyncId
    <2> HIDE DEF plan
    <2> QED
        BY <1>1, <2>1, <2>3, <2>4, <2>5 DEF Fresh
<1>7. CASE TakeReplay(c)
    <2>1. s.pc = "idle" /\ t.queue = s.queue /\ t.snap = None
        BY <1>7, TakeReplayStep
    <2>2. Fresh(c) /\ InStep(c)
        BY <1>3, <2>1
    <2>3. s.snap # None /\ s.snap >= Here /\ s.gen = generation /\ s.queue = <<>>
        BY <1>1, <1>2, <2>1, <2>2 DEF Fresh, InStep
    <2>4. t.pc = "list" /\ t.sig.kind = "Mount" /\ t.sig.row.id = s.snap
        BY <1>7, <2>3, TakeReplayStep
    <2> QED
        BY <1>1, <2>1, <2>3, <2>4 DEF Fresh
<1>8. CASE TakeTail(c)
    <2>1. s.pc = "idle" /\ Len(s.queue) > 0
        BY <1>8, TakeTailStep
    <2>2. s.queue = <<>>
        BY <1>3, <2>1 DEF Fresh
    <2> QED
        BY <2>1, <2>2
<1>9. CASE ListServer(c) \/ Land(c)
    <2>1. /\ s.pc \in {"list", "land"} /\ t.pc \in {"land", "ack"} /\ t.sig = s.sig /\ t.snap = s.snap /\ t.queue = s.queue
        BY <1>9, ListStep, LandStep
    <2>2. Fresh(c)
        BY <1>3, <2>1
    <2> QED
        BY <1>1, <1>2, <2>1, <2>2 DEF Fresh
<1>10. CASE Ack(c)
    <2>1. s.pc = "ack" /\ (s.sig.gen = generation => Current(c)' = MaxSyncId(Current(c), s.sig.row.id))
        BY <1>10, AckStep
    <2>2. s.sig.gen = generation
        BY <1>3, <2>1 DEF InStep
    <2> QED
        BY <1>2, <2>1, <2>2 DEF MaxSyncId
<1>11. ~PublishRow /\ ~TellRecovery /\ ~Crash
    BY PublishStep, TellStep, CrashStep DEF StoppedIngest
<1> QED
    BY <1>4, <1>5, <1>6, <1>7, <1>8, <1>9, <1>10, <1>11, SubscriberSteps DEF Attach, Drain

\* Every step keeps the plan of a prune to rows that nobody needs.
LEMMA PlannedNext ==
    ASSUME Base, CoverageInv, [Next]_vars
    PROVE  Planned'
<1>1. SUFFICES ASSUME ingest'.pc = "commit", OnLog' PROVE Planned'
    BY DEF Planned
<1>2. Truths /\ LogTags /\ Planned /\ \A x \in journal.log : OnLog /\ ingest.pc \in {"prune", "commit"} => x.id <= Here
    BY DEF CoverageInv, Truths, Pruning, Planned
<1>3. OnLog /\ epoch' = epoch
    BY <1>1, <1>2, OnLogSteps, WipedJournal
<1>4. CASE PruneRead
    <2>1. /\ ingest.pc = "prune" /\ \A c \in Collections : ~Unrecorded(c)
          /\ ingest'.plan = PlanPrune(journal, MaxEventsPerModel, MaxEventsTotal)
          /\ journal' = journal /\ pending' = pending /\ sub' = sub
        BY <1>1, <1>4, PruneReadStep
    <2> PICK plan : plan = PlanPrune(journal, MaxEventsPerModel, MaxEventsTotal)
        OBVIOUS
    <2>2. /\ plan.rows \subseteq journal.log
          /\ \A m \in Models : plan.floor[m] <= Here
          /\ \A x, y \in journal.log : x.e = y.e /\ x.id < y.id => x \in plan.rows
        BY <1>3, <2>1, PlanTells
    <2>3. \A c \in Collections, m \in Nat, r \in plan.rows :
                journal.marks[c] # None /\ m >= journal.marks[c] /\ r.e \in Mine(c) =>
                    \/ r.id <= m
                    \/ \E y \in journal.log : y.e = r.e /\ y.id > r.id
                    \/ plan.floor[CollModel[c]] >= r.id
        BY <1>3, <2>1, PlanTells
    <2>4. ASSUME NEW c \in Collections
          PROVE  /\ \A m \in {journal.marks[c], Current(c)} : m # None => journal.marks[c] # None /\ m \in Nat /\ m >= journal.marks[c]
                 /\ Current(c) = None => sub[c].pc = "off"
        <3>1. /\ journal.marks[c] \in Nat \cup {None} /\ pending[c] \in Nat \cup {None} /\ None = -1
              /\ (journal.marks[c] # None \/ (sub[c].pc = "off" /\ pending[c] = None))
            BY <2>1, BaseTypes DEF Unrecorded
        <3> QED
            BY <3>1 DEF Current, MaxSyncId
    <2>5. ingest'.plan = plan
        BY <2>1
    <2>6. ASSUME NEW c \in Collections
          PROVE  /\ \A m \in {journal.marks[c], Current(c)}' : \A r \in plan.rows : Dispensable(c, m, r)'
                 /\ Current(c)' = None => sub'[c].pc = "off"
        <3>1. Current(c)' = Current(c)
            BY <2>1 DEF Current
        <3> QED
            BY <2>1, <2>3, <2>4, <2>5, <3>1 DEF Dispensable
    <2>7. Here' = Here
        BY <2>1 DEF Here
    <2> QED
        BY <2>1, <2>2, <2>5, <2>6, <2>7 DEF Planned
<1>5. CASE ingest' = ingest
    <2>1. SameRows
        BY <1>1, <1>5, <1>2, JournalSteps, AcceptStep, AppendStep, AdvancedCursor, PrunedJournal, WipedJournal
    <2>2. ingest.pc = "commit" /\ journal'.log = journal.log /\ Here' = Here /\ Here \in Nat
        BY <1>1, <1>2, <1>5, <2>1, BaseLog DEF SameRows, Here
    <2>3. /\ ingest.plan.rows \subseteq journal.log
          /\ \A m \in Models : ingest.plan.floor[m] <= Here
          /\ \A x, y \in journal.log : x.e = y.e /\ x.id < y.id => x \in ingest.plan.rows
        BY <1>2, <1>3, <2>2 DEF Planned
    <2>4. ASSUME NEW c \in Collections
          PROVE  /\ \A m \in {journal.marks[c], Current(c)} : \A r \in ingest.plan.rows : Dispensable(c, m, r)
                 /\ Current(c) = None => sub[c].pc \in {"off", "attach", "floor", "read"} \/ Fresh(c)
        BY <1>2, <1>3, <2>2 DEF Planned
    <2>5. \A c, m, r : Dispensable(c, m, r)' = Dispensable(c, m, r)
        BY <1>5, <2>2 DEF Dispensable, Mine
    <2>6. ~WipeJournal /\ ~BeginRecovery /\ ~Crash
        BY <2>2, <1>2, WipedJournal, BeginStep, CrashStep, <1>5 DEF StoppedIngest
    <2>7. ASSUME NEW c \in Collections, NEW m \in {journal'.marks[c], Current(c)'}, NEW r \in ingest.plan.rows
          PROVE  Dispensable(c, m, r)
        <3>1. CASE m \in {journal.marks[c], Current(c)}
            BY <2>4, <3>1
        <3>2. CASE Ack(c) /\ m = Current(c)'
            <4>1. /\ sub[c].pc = "ack"
                  /\ sub[c].sig.gen # generation => Current(c)' = Current(c)
                  /\ sub[c].sig.gen = generation => Current(c)' = MaxSyncId(Current(c), sub[c].sig.row.id)
                BY <3>2, AckStep
            <4>2. /\ sub[c].sig.row.id \in Nat /\ Current(c) \in Nat \cup {None} /\ None = -1 /\ r.id \in Nat
                BY <1>2, <2>3, SubscriberTypes, BaseLog
            <4>3. CASE m = Current(c)
                BY <2>4, <4>3
            <4>4. CASE m = sub[c].sig.row.id /\ m > Current(c)
                <5>1. CASE Current(c) = None
                    <6>1. Fresh(c) /\ InStep(c)
                        <7>1. Fresh(c) /\ Serving(c) /\ Queued(c) = {}
                            BY <2>4, <4>1, <5>1 DEF Serving, Fresh, Queued
                        <7> QED
                            BY <1>3, <2>2, <7>1, NobodyLags DEF InTune
                    <6>2. sub[c].snap = None
                        BY <4>1, <6>1 DEF InStep
                    <6>3. m >= Here
                        BY <2>2, <4>2, <4>4, <6>1, <6>2 DEF Fresh
                    <6>4. r.id <= Here
                        BY <1>2, <1>3, <2>2, <2>3
                    <6>5. r.id <= m
                        BY <2>2, <4>2, <4>4, <6>3, <6>4
                    <6> QED
                        BY <6>5 DEF Dispensable
                <5>2. CASE Current(c) # None
                    <6>1. Dispensable(c, Current(c), r)
                        BY <2>4
                    <6>2. r.id <= Current(c) => r.id <= m
                        BY <4>2, <4>4
                    <6> QED
                        BY <5>2, <6>1, <6>2 DEF Dispensable
                <5> QED
                    BY <5>1, <5>2
            <4> QED
                BY <3>2, <4>1, <4>2, <4>3, <4>4 DEF MaxSyncId
        <3> QED
            BY <2>6, <2>7, <3>1, <3>2, MarkSteps
    <2>8. ASSUME NEW c \in Collections, Current(c)' = None
          PROVE  sub'[c].pc \in {"off", "attach", "floor", "read"} \/ Fresh(c)'
        <3>1. Current(c) = None
            <4>1. CASE Ack(c)
                BY <2>8, <4>1, AckStep, SubscriberTypes DEF MaxSyncId
            <4> QED
                BY <2>6, <2>8, <4>1, MarkSteps
        <3> QED
            BY <1>3, <1>5, <2>1, <2>2, <2>4, <2>8, <3>1, FreshStep
    <2> QED
        BY <1>5, <2>2, <2>3, <2>5, <2>7, <2>8 DEF Planned
<1> QED
    BY <1>1, <1>4, <1>5, PruneSteps, AdvancedCursor, <1>2

\* Every step keeps what is said of a prune.
LEMMA PruningNext ==
    ASSUME Base, CoverageInv, [Next]_vars
    PROVE  Pruning'
<1>1. Settled' /\ Planned'
    BY SettledNext, PlannedNext
<1> QED
    BY <1>1 DEF Pruning, Settled, Planned

-----------------------------------------------------------------------------
(* Marks *)

\* A table that shows e is not contradicted by what is written next.
LEMMA GrownShows ==
    ASSUME Base, LogTags, NEW x, Grown(x), NEW c, NEW e, NEW v, v # Absent => ShownTo(e),
           NEW m \in Here .. Len(log), Shows(c, e, v, m)
    PROVE  Shows(c, e, v, m)'
<1>1. Here' = Here /\ Len(log') = Len(log) + 1 /\ Here \in Nat /\ Len(log) \in Nat
    BY GrownLog, BaseLog
<1>2. PICK t \in m .. Len(log) : v = RowAt(c, e, t) /\ (v = Absent \/ (Safe(e, Here, t) /\ Safe(e, m, t)))
    BY DEF Shows
<1>3. t \in Here .. Len(log) /\ t \in 0 .. Len(log) /\ t \in m .. Len(log')
    BY <1>1, <1>2
<1>4. v = RowAt(c, e, t)'
    BY <1>2, <1>3, GrownLog
<1>5. v = Absent \/ (Safe(e, Here, t)' /\ Safe(e, m, t)')
    BY <1>1, <1>2, <1>3, GrownSafe, GrownSafeHere
<1> QED
    BY <1>3, <1>4, <1>5 DEF Shows

\* No id is known to the client that a batch being published does not reach.
LEMMA BackedByBatch ==
    ASSUME Base, Truths, OnLog, ingest.pc = "publish", NEW i \in Nat, Backed(i)
    PROVE  i <= ingest.work.last
<1>1. /\ ingest.work.last \in Here .. Len(log) /\ Here \in Nat
      /\ \A x \in journal.log : x.id \in 1 .. ingest.work.last
    BY PublishedWork, BaseLog DEF Truths
<1> QED
    BY <1>1 DEF Backed

\* What is known to the client lies on the log.
LEMMA BackedOnLog ==
    ASSUME Base, Truths, OnLog, NEW i \in Nat, Backed(i)
    PROVE  i <= Len(log)
<1>1. Here <= Len(log) /\ Here \in Nat /\ Len(log) \in Nat
    BY BaseLog DEF Truths, JournalTells, Behind
<1>2. \A x \in journal.log : x.id \in 1 .. Len(log)
    BY DEF Truths, JournalTells, RowTells, Placed
<1> QED
    BY <1>1, <1>2 DEF Backed

\* A table stays as good as it was when the journal's batch is counted in.
LEMMA ShownOnward ==
    ASSUME Base, Truths, OnLog, ingest.pc = "publish", NEW c, NEW e \in Entities, NEW v,
           NEW m \in Nat \cup {None}, Backed(m),
           Shows(c, e, v, MaxSyncId(m, Here))
    PROVE  \/ \E r \in journal.log : r.e = e /\ r.id > m
           \/ Shows(c, e, v, ingest.work.last)
<1> DEFINE M == MaxSyncId(m, Here)
<1> PICK h : h = ingest.work.last
    OBVIOUS
<1>1. /\ Accounted(journal.log, h) /\ h \in Here .. Len(log) /\ Plain(Here, h)
      /\ \A x \in journal.log : x.id \in 1 .. h
    BY PublishedWork
<1>2. LogOK /\ Here \in Nat /\ Len(log) \in Nat /\ None = -1
    BY BaseLog, BaseTypes DEF Truths
<1>3. m \in Nat => m <= h
    BY BackedByBatch
<1>4. M \in Here .. Len(log) /\ h \in M .. Len(log) /\ M \in Here .. h /\ m <= M
    BY <1>1, <1>2, <1>3 DEF MaxSyncId
<1>5. Shows(c, e, v, M)
    OBVIOUS
<1> HIDE DEF M
<1>6. ASSUME Untouched(e, M, h) PROVE Shows(c, e, v, h)
    BY <1>2, <1>4, <1>5, <1>6, ShowsOn
<1>7. CASE Untouched(e, Here, h)
    <2>1. Untouched(e, M, h)
        BY <1>2, <1>4, <1>7 DEF Untouched
    <2> QED
        BY <1>6, <2>1
<1>8. CASE \E r \in journal.log : r.e = e /\ r.id \in Here + 1 .. h /\ Untouched(e, r.id, h)
    <2>1. PICK r \in journal.log : r.e = e /\ r.id \in Here + 1 .. h /\ Untouched(e, r.id, h)
        BY <1>8
    <2>2. r.id > m \/ r.id <= M
        BY <1>2, <1>4, <2>1
    <2>3. CASE r.id <= M
        <3>1. Untouched(e, M, h)
            BY <1>2, <1>4, <2>1, <2>3 DEF Untouched
        <3> QED
            BY <1>6, <3>1
    <2> QED
        BY <2>1, <2>2, <2>3
<1>9. CASE GoneAt(e, Here) /\ GoneAt(e, h)
    BY <1>1, <1>2, <1>4, <1>5, <1>9, ShowsOnGone
<1> QED
    BY <1>1, <1>7, <1>8, <1>9 DEF Accounted

\* The newest row of e in the journal at or above a given one.
LEMMA NewestRow ==
    ASSUME Base, LogTags, NEW r \in journal.log
    PROVE  \E y \in journal.log : y.e = r.e /\ y.id >= r.id /\ \A z \in journal.log : z.e = r.e => z.id <= y.id
<1> DEFINE ids == {y.id : y \in {z \in journal.log : z.e = r.e}}
<1>1. IsFiniteSet({z \in journal.log : z.e = r.e})
    BY FS_Subset DEF Base, TypeInv, Finite
<1>2. IsFiniteSet(ids)
    BY <1>1, FiniteIds
<1>3. ids \in SUBSET Nat /\ r.id \in ids
    BY BaseLog
<1>4. PICK i \in ids : \A j \in ids : i >= j
    BY <1>2, <1>3, GreatestPosition
<1>5. PICK y \in journal.log : y.e = r.e /\ y.id = i
    BY <1>4
<1> QED
    BY <1>3, <1>4, <1>5

\* What is said of a table up to a mark goes on to be true.
LEMMA CoveringStands ==
    ASSUME Base, CoverageInv, [Next]_vars, OnLog, OnLog', ~WipeJournal, NEW c \in Collections,
           NEW table, table \in {store[c], sub[c].listing}, NEW m \in {journal.marks[c], Current(c)},
           Covering(c, table, m)
    PROVE  Covering(c, table, m)'
<1> DEFINE k == CollModel[c]
<1>1. Truths /\ LogTags /\ LogOK /\ Here \in Nat /\ Len(log) \in Nat
    BY BaseLog DEF CoverageInv, Truths
<1>2. /\ k \in Models /\ m \in Nat \cup {None} /\ None = -1 /\ journal.floor[k] \in Nat \cup {None}
      /\ journal.marks[c] \in Nat \cup {None} /\ Current(c) \in Nat \cup {None}
    BY BaseTypes, SubscriberTypes
<1>3. Backed(m)
    <2>1. Backed(Current(c)) /\ m <= Current(c)
        BY <1>2, BaseTypes DEF CoverageInv, MarksTell, MarkTells, Current, MaxSyncId
    <2>2. \A x \in journal.log : x.id \in Nat
        BY <1>1, BaseLog
    <2> QED
        BY <1>1, <1>2, <2>1, <2>2 DEF Backed
<1>4. SUFFICES ASSUME m # None, journal'.floor[k] <= m, NEW e \in Mine(c)
               PROVE  \/ \E r \in journal'.log : r.e = e /\ r.id > m
                      \/ Shows(c, e, table[e], MaxSyncId(m, Here))'
    BY DEF Covering, Mine
<1>5. e \in Entities
    BY DEF Mine
<1>6. ASSUME journal'.floor[k] = journal.floor[k]
      PROVE  (\E r \in journal.log : r.e = e /\ r.id > m) \/ Shows(c, e, table[e], MaxSyncId(m, Here))
    BY <1>4, <1>6 DEF Covering
<1>7. CASE ServerWrites
    <2>1. PICK x : Grown(x)
        BY <1>1, <1>7, WritesGrow
    <2>2. journal' = journal /\ Here' = Here
        BY <2>1 DEF Grown, Here
    <2> PICK M : M = MaxSyncId(m, Here)
        OBVIOUS
    <2>3. M \in Here .. Len(log)
        <3>1. m <= Len(log) /\ Here <= Len(log)
            BY <1>1, <1>2, <1>3, <1>4, BackedOnLog DEF Truths, JournalTells, Behind
        <3> QED
            BY <1>1, <1>2, <1>4, <3>1 DEF MaxSyncId
    <2>4. table[e] # Absent => ShownTo(e)
        BY DEF ShownTo
    <2>5. Shows(c, e, table[e], M) => Shows(c, e, table[e], M)'
        BY <1>1, <2>1, <2>3, <2>4, GrownShows
    <2>6. Shows(c, e, table[e], M)' => Shows(c, e, table[e], MaxSyncId(m, Here))'
        BY <2>2 DEF Shows
    <2> QED
        BY <1>6, <2>2, <2>5, <2>6
<1>8. ASSUME log' = log, Here' = Here
      PROVE  Shows(c, e, table[e], MaxSyncId(m, Here)) => Shows(c, e, table[e], MaxSyncId(m, Here))'
    <2> PICK M : M = MaxSyncId(m, Here)
        OBVIOUS
    <2>1. Shows(c, e, table[e], M)' = Shows(c, e, table[e], M)
        BY <1>8, SameCursor
    <2> QED
        BY <1>8, <2>1 DEF Shows
<1>9. CASE log' = log /\ (SameRows \/ Accept)
    <2>1. journal'.log = journal.log /\ Here' = Here /\ journal'.floor = journal.floor
        BY <1>9, AcceptStep DEF SameRows, Here
    <2> QED
        BY <1>6, <1>8, <1>9, <2>1
<1>10. CASE AppendChunk
    <2>1. /\ journal'.log = {r \in journal.log : \A y \in ingest.work.rows : y.id # r.id} \cup ingest.work.rows
          /\ Here' = Here /\ journal'.floor = journal.floor /\ log' = log /\ ingest.pc = "append"
        BY <1>10, AppendStep DEF Here
    <2>2. ASSUME NEW r \in journal.log, r.e = e, r.id > m PROVE \E y \in journal'.log : y.e = e /\ y.id > m
        <3>1. CASE \A y \in ingest.work.rows : y.id # r.id
            BY <2>1, <2>2, <3>1
        <3>2. CASE \E y \in ingest.work.rows : y.id = r.id
            <4>1. PICK y \in ingest.work.rows : y.id = r.id
                BY <3>2
            <4>2. Placed(y) /\ Placed(r)
                BY <1>1, <2>1 DEF Truths, WorkTells, JournalTells, RowTells
            <4> QED
                BY <2>1, <2>2, <4>1, <4>2 DEF Placed
        <3> QED
            BY <3>1, <3>2
    <2> QED
        BY <1>6, <1>8, <2>1, <2>2
<1>11. CASE AdvanceIngested
    <2>1. /\ ingest.pc = "publish" /\ Here' = ingest.work.last /\ journal'.log = journal.log
          /\ journal'.floor = journal.floor /\ log' = log
        BY <1>1, <1>11, AdvancedCursor
    <2> PICK h : h = ingest.work.last
        OBVIOUS
    <2>2. (\E r \in journal.log : r.e = e /\ r.id > m) \/ Shows(c, e, table[e], h)
        BY <1>1, <1>2, <1>3, <1>5, <1>6, <2>1, ShownOnward
    <2>3. h \in Nat /\ m <= h /\ h >= Here
        BY <1>1, <1>2, <1>3, <1>4, <2>1, BackedByBatch, PublishedWork
    <2>4. MaxSyncId(m, Here)' = h
        BY <1>2, <1>4, <2>1, <2>3 DEF MaxSyncId
    <2>5. Shows(c, e, table[e], h) => Shows(c, e, table[e], MaxSyncId(m, Here))'
        <3>1. ASSUME NEW t, Safe(e, h, t) PROVE Safe(e, Here, t)'
            <4>1. Safe(e, h, t)'
                BY <2>1, <3>1, SameLog
            <4> QED
                BY <2>1, <4>1 DEF Safe
        <3>2. \A t : RowAt(c, e, t)' = RowAt(c, e, t) /\ Safe(e, h, t)' = Safe(e, h, t)
            BY <2>1, SameLog
        <3>3. Shows(c, e, table[e], h) => Shows(c, e, table[e], h)'
            BY <2>1, <3>1, <3>2 DEF Shows
        <3> QED
            BY <2>4, <3>3 DEF Shows
    <2> QED
        BY <2>1, <2>2, <2>5
<1>12. CASE PruneCommit
    <2>1. /\ ingest.pc = "commit" /\ journal'.log = journal.log \ ingest.plan.rows /\ Here' = Here /\ log' = log
          /\ journal'.floor[k] = MaxSyncId(journal.floor[k], ingest.plan.floor[k])
        BY <1>2, <1>12, PrunedJournal
    <2>2. ingest.plan.floor[k] \in Nat \cup {None}
        BY <1>2 DEF Base, TypeInv, TypeOK, IngestFiber, OptionalSyncId, SyncId
    <2>3. journal.floor[k] <= m /\ ingest.plan.floor[k] <= m
        BY <1>2, <1>4, <2>1, <2>2 DEF MaxSyncId
    <2>4. (\E r \in journal.log : r.e = e /\ r.id > m) \/ Shows(c, e, table[e], MaxSyncId(m, Here))
        BY <1>4, <2>3 DEF Covering
    <2>5. ASSUME NEW r \in journal.log, r.e = e, r.id > m PROVE \E y \in journal'.log : y.e = e /\ y.id > m
        <3>1. PICK y \in journal.log : y.e = r.e /\ y.id >= r.id /\ \A z \in journal.log : z.e = r.e => z.id <= y.id
            BY <1>1, NewestRow
        <3>2. r.id \in Nat /\ \A z \in journal.log : z.id \in Nat
            BY <1>1, BaseLog
        <3>3. y \notin ingest.plan.rows
            <4>1. SUFFICES ASSUME y \in ingest.plan.rows PROVE FALSE
                OBVIOUS
            <4>2. Dispensable(c, m, y)
                BY <2>1, <4>1 DEF CoverageInv, Pruning
            <4>3. ~(y.id <= m) /\ ~(\E z \in journal.log : z.e = y.e /\ z.id > y.id) /\ ~(ingest.plan.floor[k] >= y.id)
                BY <1>2, <2>2, <2>3, <2>5, <3>1, <3>2
            <4> QED
                BY <1>4, <2>5, <3>1, <4>2, <4>3 DEF Dispensable
        <3> QED
            BY <1>2, <2>1, <2>5, <3>1, <3>2, <3>3
    <2> QED
        BY <1>8, <2>1, <2>4, <2>5
<1>13. log' = log \/ ServerWrites
    BY <1>1, LogSteps, RestoredLog
<1> QED
    BY <1>7, <1>9, <1>10, <1>11, <1>12, <1>13, JournalSteps

\* A row that was handed to a collection stays accounted for.
LEMMA KeptStands ==
    ASSUME Base, CoverageInv, [Next]_vars, OnLog, OnLog', ~WipeJournal, NEW c \in Collections,
           NEW r, r.id \in Nat, r.e \in Mine(c), Kept(c, r),
           PruneCommit => Current(c) # None /\ r.id > Current(c)
    PROVE  Kept(c, r)'
<1> DEFINE k == CollModel[c]
<1>1. Truths /\ LogTags /\ \A x \in journal.log : x.id \in Nat
    BY BaseLog DEF CoverageInv, Truths
<1>2. k \in Models /\ None = -1 /\ journal.floor[k] \in Nat \cup {None} /\ Current(c) \in Nat \cup {None}
    BY BaseTypes, SubscriberTypes
<1>3. CASE SameRows \/ Accept \/ AdvanceIngested
    <2>1. journal'.log = journal.log /\ journal'.floor = journal.floor
        BY <1>1, <1>3, AcceptStep, AdvancedCursor DEF SameRows
    <2> QED
        BY <2>1 DEF Kept
<1>4. CASE AppendChunk
    <2>1. /\ journal'.log = {y \in journal.log : \A z \in ingest.work.rows : z.id # y.id} \cup ingest.work.rows
          /\ journal'.floor = journal.floor /\ ingest.pc = "append"
        BY <1>4, AppendStep
    <2>2. ASSUME NEW x \in journal.log PROVE \E y \in journal'.log : y.e = x.e /\ y.id = x.id
        <3>1. CASE \E y \in ingest.work.rows : y.id = x.id
            <4>1. PICK y \in ingest.work.rows : y.id = x.id
                BY <3>1
            <4>2. Placed(y) /\ Placed(x)
                BY <1>1, <2>1 DEF Truths, WorkTells, JournalTells, RowTells
            <4> QED
                BY <2>1, <4>1, <4>2 DEF Placed
        <3> QED
            BY <2>1, <3>1
    <2> QED
        BY <2>1, <2>2 DEF Kept
<1>5. CASE PruneCommit
    <2>1. /\ ingest.pc = "commit" /\ journal'.log = journal.log \ ingest.plan.rows
          /\ journal'.floor[k] = MaxSyncId(journal.floor[k], ingest.plan.floor[k])
        BY <1>2, <1>5, PrunedJournal
    <2>2. ingest.plan.floor[k] \in Nat \cup {None}
        BY <1>2 DEF Base, TypeInv, TypeOK, IngestFiber, OptionalSyncId, SyncId
    <2>3. journal'.floor[k] >= journal.floor[k] /\ journal'.floor[k] >= ingest.plan.floor[k]
        BY <1>2, <2>1, <2>2 DEF MaxSyncId
    <2>4. CASE journal.floor[k] >= r.id
        BY <1>2, <2>1, <2>2, <2>3, <2>4 DEF Kept, MaxSyncId
    <2>5. CASE \E x \in journal.log : x.e = r.e /\ x.id >= r.id
        <3>1. PICK x \in journal.log : x.e = r.e /\ x.id >= r.id
            BY <2>5
        <3>2. PICK y \in journal.log : y.e = x.e /\ y.id >= x.id /\ \A z \in journal.log : z.e = x.e => z.id <= y.id
            BY <1>1, NewestRow
        <3>3. y.e = r.e /\ y.id >= r.id
            BY <1>1, <3>1, <3>2
        <3>4. CASE y \in ingest.plan.rows
            <4>1. Dispensable(c, Current(c), y)
                BY <2>1, <3>4 DEF CoverageInv, Pruning
            <4>2. ~(y.id <= Current(c)) /\ ~(\E z \in journal.log : z.e = y.e /\ z.id > y.id)
                BY <1>1, <1>2, <1>5, <3>2, <3>3
            <4>3. ingest.plan.floor[k] >= y.id
                BY <1>5, <3>3, <4>1, <4>2 DEF Dispensable
            <4> QED
                BY <1>1, <1>2, <2>1, <2>2, <2>3, <3>3, <4>3 DEF Kept, MaxSyncId
        <3> QED
            BY <2>1, <3>3, <3>4 DEF Kept
    <2> QED
        BY <2>4, <2>5 DEF Kept
<1> QED
    BY <1>3, <1>4, <1>5, JournalSteps

\* A collection at work on what belongs to this generation has heard of every recovery.
LEMMA StepBySignal ==
    ASSUME Base, CoverageInv, OnLog, NEW c \in Collections,
           sub[c].pc \in {"list", "land", "ack"}, sub[c].sig.gen = generation
    PROVE  InTune(c) /\ InStep(c)
<1>1. Serving(c) /\ ~Lagging(c)
    BY BaseTypes DEF Serving, Lagging
<1>2. InTune(c)
    BY <1>1 DEF CoverageInv, Serves
<1>3. ~\E j \in Queued(c) : CalledAt(c, j)
    BY BaseTypes DEF CalledAt
<1> QED
    BY <1>2, <1>3 DEF InTune

\* A collection that starts on its mount plan in the current generation is in step with the broker.
LEMMA StepByPlan ==
    ASSUME Base, CoverageInv, OnLog, NEW c \in Collections,
           sub[c].pc = "idle", sub[c].snap # None \/ sub[c].replay # {}, sub[c].gen = generation
    PROVE  InTune(c) /\ InStep(c)
<1>1. Serving(c) /\ ~Lagging(c)
    BY BaseTypes DEF Serving, Lagging
<1>2. InTune(c)
    BY <1>1 DEF CoverageInv, Serves
<1>3. ~\E j \in Queued(c) : CalledAt(c, j)
    BY BaseTypes DEF CalledAt
<1> QED
    BY <1>2, <1>3 DEF InTune

\* So is one that takes a row of the current generation off its queue.
LEMMA StepByTail ==
    ASSUME Base, CoverageInv, OnLog, NEW c \in Collections,
           sub[c].pc = "idle", Len(sub[c].queue) > 0, sub[c].queue[1].gen = generation, sub[c].queue[1].kind = "Event"
    PROVE  InTune(c) /\ InStep(c)
<1>1. 1 \in Queued(c) /\ Serving(c) /\ generation \in Nat /\ \A j \in Queued(c) : j = 1 \/ 1 \in 1 .. j - 1
    BY SMTT(40), BaseTypes, SubscriberTypes DEF Serving, Queued
<1>2. ~Lagging(c)
    BY <1>1 DEF Lagging
<1>3. InTune(c)
    BY <1>1, <1>2 DEF CoverageInv, Serves
<1>4. ~\E j \in Queued(c) : CalledAt(c, j)
    <2>1. SUFFICES ASSUME NEW j \in Queued(c), CalledAt(c, j) PROVE FALSE
        OBVIOUS
    <2>2. CASE j = 1
        BY <2>1, <2>2 DEF CalledAt
    <2>3. CASE 1 \in 1 .. j - 1
        BY <1>1, <2>1, <2>3 DEF CalledAt
    <2> QED
        BY <1>1, <2>2, <2>3
<1> QED
    BY <1>3, <1>4 DEF InTune

\* What a collection in step will apply: the slice, the row it is about to land, the tail.
LEMMA HandedInStep ==
    ASSUME Base, NEW c \in Collections, InStep(c)
    PROVE  LET s == sub[c]
               live == {k \in Queued(c) :
                          /\ \A j \in 1 .. k - 1 : s.queue[j].row.id < s.queue[k].row.id
                          /\ s.guard < s.queue[k].row.id}
           IN  /\ Controls(c) = {}
               /\ Handed(c) = {s.queue[k].row : k \in live} \cup s.replay \cup (IF Landing(c) THEN {s.sig.row} ELSE {})
<1> DEFINE s == sub[c]
           live == {k \in Queued(c) :
                          /\ \A j \in 1 .. k - 1 : s.queue[j].row.id < s.queue[k].row.id
                          /\ s.guard < s.queue[k].row.id}
<1>1. Controls(c) = {}
    BY DEF InStep, Controls
<1>2. \A k \in Queued(c) : s.queue[k].gen = generation /\ s.queue[k].kind = "Event"
    BY DEF InStep
<1>3. \A k \in Queued(c) : \A j \in 1 .. k - 1 : j \in Queued(c)
    BY SubscriberTypes DEF Queued
<1>4. Live(c) = live
    BY <1>1, <1>2, <1>3 DEF Live
<1> QED
    BY <1>1, <1>4 DEF Handed

\* What an acknowledged signal has left in the table is current through its position.
LEMMA AckTells ==
    ASSUME Base, CoverageInv, OnLog, NEW c \in Collections, sub[c].pc = "ack", sub[c].sig.gen = generation
    PROVE  Backed(sub[c].sig.row.id) /\ Covering(c, store[c], sub[c].sig.row.id)
<1> DEFINE s == sub[c]
           k == CollModel[c]
<1> PICK i : i = s.sig.row.id
    OBVIOUS
<1>1. Truths /\ LogTags /\ LogOK /\ Here \in Nat /\ Len(log) \in Nat /\ \A x \in journal.log : x.id \in Nat
    BY BaseLog DEF CoverageInv, Truths
<1>2. InTune(c) /\ InStep(c)
    BY StepBySignal
<1>3. i \in Nat /\ s.guard \in Nat /\ (\A r \in s.replay : r.id \in Nat) /\ \A j \in Queued(c) : s.queue[j].row.id \in Nat
    BY SubscriberTypes DEF Queued
<1>4. /\ Backed(s.guard) /\ i <= s.guard /\ s.snap = None /\ \A r \in s.replay : r.id > i
    BY <1>2 DEF InStep
<1>5. Backed(i)
    BY <1>1, <1>3, <1>4 DEF Backed
<1>6. Controls(c) = {} /\ \A r \in Handed(c) : r.id > i
    <2>1. ~Landing(c)
        BY DEF Landing
    <2>2. /\ Controls(c) = {}
          /\ Handed(c) \subseteq {s.queue[j].row : j \in {n \in Queued(c) : s.guard < s.queue[n].row.id}} \cup s.replay
        BY <1>2, <2>1, HandedInStep
    <2> QED
        BY <1>3, <1>4, <2>2
<1>7. ~Unlisted(c) /\ Table(c) = store[c]
    BY <1>4, <1>6 DEF Unlisted, Table, Listing
<1>8. SUFFICES ASSUME journal.floor[k] <= i, NEW e \in Mine(c), \A r \in journal.log : r.e = e => r.id <= i
               PROVE  Shows(c, e, store[c][e], MaxSyncId(i, Here))
    <2>1. k \in Models /\ journal.floor[k] \in Nat \cup {None} /\ None = -1
        BY BaseTypes
    <2> QED
        BY <1>1, <1>3, <1>5, <1>8, <2>1 DEF Covering
<1>9. \A r \in Handed(c) : r.e # e
    <2>1. SUFFICES ASSUME NEW r \in Handed(c), r.e = e PROVE FALSE
        OBVIOUS
    <2>2. Kept(c, r) /\ RowTells(r) /\ r.id > i
        BY <1>2, <1>6 DEF InTune
    <2>3. r.id \in Nat
        BY <2>2 DEF RowTells, Placed
    <2>4. journal.floor[k] \in Nat \cup {None} /\ None = -1
        BY BaseTypes
    <2> QED
        BY <1>1, <1>3, <1>8, <2>1, <2>2, <2>3, <2>4 DEF Kept
<1>10. \A m : Covers(c, e, m) => Shows(c, e, store[c][e], m)
    BY <1>7, <1>9 DEF Covers, Covered
<1>11. Shows(c, e, store[c][e], Here)
    BY <1>2, <1>10 DEF InTune
<1>12. CASE i <= Here
    BY <1>1, <1>3, <1>11, <1>12 DEF MaxSyncId
<1>13. CASE i > Here
    <2>1. PICK x \in journal.log : x.id >= i
        BY <1>1, <1>3, <1>5, <1>13 DEF Backed
    <2>2. Told(x.id)
        BY <1>1, <1>3, <1>13, <2>1 DEF Truths, JournalTells
    <2>3. PICK h \in x.id .. Len(log) : Accounted(journal.log, h)
        BY <2>2 DEF Told
    <2>4. h \in Here .. Len(log) /\ i \in Here .. h /\ i \in Here .. Len(log) /\ h \in i .. Len(log) /\ Plain(Here, h)
        BY <1>1, <1>3, <1>13, <2>1, <2>3 DEF Accounted
    <2>5. Here \in Here .. Len(log) /\ i \in Here .. Len(log)
        BY <1>1, <2>4
    <2>6. CASE Untouched(e, Here, h)
        <3>1. Untouched(e, Here, i)
            BY <1>1, <2>4, <2>6 DEF Untouched
        <3> QED
            BY <1>1, <1>3, <1>11, <1>13, <2>4, <2>5, <3>1, ShowsOn DEF MaxSyncId
    <2>7. CASE \E y \in journal.log : y.e = e /\ y.id \in Here + 1 .. h /\ Untouched(e, y.id, h)
        <3>1. PICK y \in journal.log : y.e = e /\ y.id \in Here + 1 .. h /\ Untouched(e, y.id, h)
            BY <2>7
        <3>2. y.id <= i /\ y.id \in Nat
            BY <1>1, <1>8, <3>1
        <3>3. Reached(c, y.id) /\ y.id > Here
            BY <1>1, <1>3, <1>4, <1>6, <3>1, <3>2 DEF Reached
        <3>4. ~\E z \in journal.log : z.e = e /\ z.id > y.id
            <4>1. SUFFICES ASSUME NEW z \in journal.log, z.e = e, z.id > y.id PROVE FALSE
                OBVIOUS
            <4>2. z.id <= i /\ z.id \in Nat /\ Placed(z)
                BY <1>1, <1>8, <4>1 DEF Truths, JournalTells, RowTells
            <4>3. z.id \in y.id + 1 .. h
                BY <1>3, <2>4, <3>2, <4>1, <4>2
            <4> QED
                BY <3>1, <4>1, <4>2, <4>3 DEF Placed, Untouched
        <3>5. Covers(c, e, y.id)
            BY <1>2, <3>1, <3>3, <3>4 DEF InTune
        <3>6. Shows(c, e, store[c][e], y.id)
            BY <1>10, <3>5
        <3>7. y.id \in Here .. Len(log) /\ i \in y.id .. Len(log) /\ Untouched(e, y.id, i)
            BY <1>1, <1>3, <2>4, <3>1, <3>2 DEF Untouched
        <3> QED
            BY <1>1, <1>3, <1>13, <3>6, <3>7, ShowsOn DEF MaxSyncId
    <2>8. CASE GoneAt(e, Here) /\ GoneAt(e, h)
        <3>1. Shows(c, e, store[c][e], i)
            BY <1>1, <1>11, <2>4, <2>5, <2>8, ShowsOnGone
        <3> QED
            BY <1>1, <1>3, <1>13, <3>1 DEF MaxSyncId
    <2>9. e \in Entities
        BY DEF Mine
    <2> QED
        BY <2>3, <2>6, <2>7, <2>8, <2>9 DEF Accounted
<1> QED
    BY <1>1, <1>3, <1>12, <1>13

\* A listing that is about to replace the table was so before, or is the server's truth.
LEMMA ListingSteps ==
    ASSUME Base, [Next]_vars, NEW c \in Collections, Listing(c)'
    PROVE  \/ ListServer(c)
           \/ Listing(c) /\ sub'[c].listing = sub[c].listing /\ ~Land(c) /\ ~Ack(c)
<1> DEFINE s == sub[c]
           t == sub'[c]
<1>1. t.pc = "land" /\ t.sig.kind # "Event"
    BY DEF Listing
<1>2. CASE t = s
    <2>1. ~Land(c) /\ ~Ack(c)
        BY <1>1, <1>2, LandStep, AckStep
    <2> QED
        BY <1>1, <1>2, <2>1 DEF Listing
<1>3. CASE PublishRow \/ TellRecovery
    <2>1. PICK kind, row : Offered(kind, row)
        BY <1>3, PublishStep, TellStep
    <2>2. t.pc = s.pc /\ t.sig = s.sig /\ t.listing = s.listing
        BY <2>1, PublishedItems
    <2>3. ~Land(c) /\ ~Ack(c)
        BY <1>1, <2>2, LandStep, AckStep
    <2> QED
        BY <1>1, <2>2, <2>3 DEF Listing
<1>4. ~Crash /\ ~Unmount(c) /\ ~Mount(c)
    BY <1>1, CrashStep, UnmountStep, MountStep DEF Detached
<1>5. ~Attach(c)
    BY <1>1, ReadMarkStep, ReadFloorStep, ReadJournalStep DEF Attach
<1>6. ~TakeReplay(c)
    BY <1>1, TakeReplayStep
<1>7. ~TakeTail(c)
    BY <1>1, TakeTailStep
<1>8. ~Land(c) /\ ~Ack(c)
    BY <1>1, LandStep, AckStep
<1> QED
    BY <1>2, <1>3, <1>4, <1>5, <1>6, <1>7, <1>8, SubscriberSteps DEF Drain

\* A row that is about to land was so before, or is one that was handed over.
LEMMA LandingSteps ==
    ASSUME Base, CoverageInv, [Next]_vars, OnLog, NEW c \in Collections, Landing(c)'
    PROVE  /\ ~Land(c) /\ ~Ack(c)
           /\ \/ Landing(c) /\ sub'[c].sig = sub[c].sig
              \/ sub'[c].sig.row \in Handed(c) /\ InTune(c) /\ Rest
<1> DEFINE s == sub[c]
           t == sub'[c]
<1>1. t.pc = "land" /\ t.sig.kind = "Event"
    BY DEF Landing
<1>2. ~Land(c) /\ ~Ack(c)
    BY <1>1, LandStep, AckStep
<1>3. CASE t = s
    BY <1>1, <1>2, <1>3 DEF Landing
<1>4. CASE PublishRow \/ TellRecovery
    <2>1. PICK kind, row : Offered(kind, row)
        BY <1>4, PublishStep, TellStep
    <2>2. t.pc = s.pc /\ t.sig = s.sig
        BY <2>1, PublishedItems
    <2> QED
        BY <1>1, <1>2, <2>2 DEF Landing
<1>5. ~Crash /\ ~Unmount(c) /\ ~Mount(c)
    BY <1>1, CrashStep, UnmountStep, MountStep DEF Detached
<1>6. ~Attach(c)
    BY <1>1, ReadMarkStep, ReadFloorStep, ReadJournalStep DEF Attach
<1>7. CASE TakeReplay(c)
    <2>1. s.pc = "idle" /\ Rest
        BY <1>7, TakeReplayStep
    <2>2. s.gen = generation /\ t.sig.row \in s.replay
        BY <1>1, <1>7, TakeReplayStep
    <2>3. InTune(c) /\ InStep(c)
        BY <2>1, <2>2, StepByPlan
    <2>4. s.replay \subseteq Handed(c)
        BY <2>3, HandedInStep
    <2> QED
        BY <1>2, <2>1, <2>2, <2>3, <2>4
<1>8. CASE TakeTail(c)
    <2>1. /\ s.pc = "idle" /\ Rest /\ Len(s.queue) \in Nat /\ Len(s.queue) > 0
          /\ ~(IsStale(s.guard, s.queue[1].kind, s.queue[1].row.id) \/ s.queue[1].gen # generation)
          /\ t.sig = s.queue[1]
        BY <1>1, <1>8, TakeTailStep
    <2>2. InTune(c) /\ InStep(c)
        BY <1>1, <2>1, StepByTail
    <2>3. 1 \in Queued(c) /\ s.guard < s.queue[1].row.id
        BY <1>1, <2>1, SubscriberTypes DEF IsStale, Queued
    <2>4. s.queue[1].row \in Handed(c)
        BY <2>2, <2>3, HandedInStep
    <2> QED
        BY <1>2, <2>1, <2>2, <2>4
<1>9. ~ListServer(c)
    <2>1. ListServer(c) => s.sig = t.sig /\ s.pc = "list"
        BY ListStep
    <2> QED
        BY <1>1, <2>1 DEF CoverageInv, Lists
<1> QED
    BY <1>2, <1>3, <1>4, <1>5, <1>6, <1>7, <1>8, <1>9, SubscriberSteps DEF Drain

\* The steps of a collection leave what its tables are compared with alone.
LEMMA RestCovering ==
    ASSUME Rest, NEW c, NEW table, NEW m
    PROVE  Covering(c, table, m)' = Covering(c, table, m)
<1>1. log' = log /\ journal' = journal /\ Here' = Here
    BY DEF Rest, Here
<1> PICK M : M = MaxSyncId(m, Here)
    OBVIOUS
<1>2. \A e : Shows(c, e, table[e], M)' = Shows(c, e, table[e], M)
    BY <1>1, SameCursor
<1>3. \A e : Shows(c, e, table[e], MaxSyncId(m, Here))' = Shows(c, e, table[e], MaxSyncId(m, Here))
    <2>1. \A e : Shows(c, e, table[e], MaxSyncId(m, Here))' = Shows(c, e, table[e], M)'
        BY <1>1 DEF Shows
    <2> QED
        BY <1>2, <2>1
<1> QED
    BY <1>1, <1>3 DEF Covering, Mine

\* Landing a signal leaves a table as good as the marks say.
LEMMA LandTells ==
    ASSUME Base, CoverageInv, OnLog, NEW c \in Collections, Land(c), NEW m \in {journal.marks[c], Current(c)}
    PROVE  Covering(c, store'[c], m)
<1> DEFINE s == sub[c]
           r == s.sig.row
           k == CollModel[c]
<1>1. /\ s.pc = "land" /\ (s.sig.kind # "Event" => store'[c] = s.listing)
      /\ s.sig.kind = "Event" => \A e \in Entities : store'[c][e] = IF e = r.e THEN LandedRow(c, r) ELSE store[c][e]
    BY LandStep
<1>2. MarkTells(c) /\ Covering(c, store[c], m)
    BY DEF CoverageInv, MarksTell, MarkTells
<1>3. CASE s.sig.kind # "Event"
    BY <1>1, <1>2, <1>3 DEF MarkTells, Listing
<1>4. CASE s.sig.kind = "Event"
    <2>1. SUFFICES ASSUME m # None, journal.floor[k] <= m, NEW e \in Mine(c)
                   PROVE  \/ \E y \in journal.log : y.e = e /\ y.id > m
                          \/ Shows(c, e, store'[c][e], MaxSyncId(m, Here))
        BY DEF Covering
    <2>2. e \in Entities
        BY DEF Mine
    <2>3. CASE e # r.e
        BY <1>1, <1>2, <1>4, <2>1, <2>2, <2>3 DEF Covering
    <2>4. CASE e = r.e
        <3>1. /\ journal.marks[c] \in Nat \cup {None} /\ pending[c] \in Nat \cup {None} /\ None = -1
              /\ journal.floor[k] \in Nat \cup {None} /\ r.id \in Nat
            BY BaseTypes, SubscriberTypes
        <3>2. Current(c) # None /\ m <= Current(c) /\ Current(c) \in Nat
            BY <2>1, <3>1 DEF Current, MaxSyncId
        <3>3. r.id > Current(c) /\ Kept(c, r)
            BY <1>1, <1>2, <1>4, <3>2 DEF MarkTells, Landing
        <3>4. ~(journal.floor[k] >= r.id) /\ m \in Nat
            BY <2>1, <3>1, <3>2, <3>3
        <3>5. PICK x \in journal.log : x.e = r.e /\ x.id >= r.id
            BY <3>3, <3>4 DEF Kept
        <3>6. x.id \in Nat
            BY BaseLog DEF CoverageInv
        <3> QED
            BY <2>4, <3>1, <3>2, <3>3, <3>4, <3>5, <3>6
    <2> QED
        BY <2>3, <2>4
<1> QED
    BY <1>3, <1>4

\* Every mark tells the truth after the step, too.
LEMMA MarksTellNext ==
    ASSUME Base, CoverageInv, [Next]_vars
    PROVE  MarksTell'
<1>1. SUFFICES ASSUME OnLog', NEW c \in Collections PROVE MarkTells(c)'
    BY DEF MarksTell
<1> DEFINE s == sub[c]
           t == sub'[c]
           marks == {journal.marks[c], Current(c)}
           Marks == {journal'.marks[c], Current(c)'}
<1>2. Truths /\ LogTags
    BY DEF CoverageInv, Truths
<1>3. /\ journal.marks[c] \in Nat \cup {None} /\ pending[c] \in Nat \cup {None} /\ Current(c) \in Nat \cup {None} /\ None = -1
    BY BaseTypes, SubscriberTypes
<1>4. CASE WipeJournal
    <2>1. /\ ingest.pc = "wipe" /\ journal'.marks = NoMarks /\ pending' = pending /\ Here' = ingest.work.last
          /\ ingest.work.last \in Nat
        BY <1>2, <1>4, WipedJournal, BaseTypes
    <2>2. pending = NoMarks
        BY <2>1 DEF Base, NoMarkAcrossRecovery
    <2>3. journal'.marks[c] = None /\ Current(c)' = None
        BY <1>3, <2>1, <2>2 DEF NoMarks, Current, MaxSyncId
    <2>4. Backed(None)'
        BY <1>3, <2>1 DEF Backed
    <2>5. Backed(Current(c))'
        BY <2>3, <2>4 DEF Backed
    <2>6. \A table : Covering(c, table, None)'
        BY DEF Covering
    <2>7. \A m \in Marks : m = None
        BY <2>3
    <2>8. \A m \in Marks : Covering(c, store[c], m)' /\ (Listing(c)' => Covering(c, sub[c].listing, m)')
        BY <2>7 DEF Covering
    <2> QED
        BY <2>3, <2>5, <2>8 DEF MarkTells
<1>5. CASE ~WipeJournal
    <2>1. OnLog
        BY <1>1, <1>2, <1>5, OnLogSteps
    <2>2. MarkTells(c)
        BY <2>1 DEF CoverageInv, MarksTell
    <2>3. (\A i \in Nat : Backed(i) => Backed(i)') /\ Here' \in Nat /\ Here \in Nat
        BY <1>1, <2>1, Backing
    <2>4. /\ journal'.marks[c] \in marks
          /\ Current(c)' \in marks \/ (Ack(c) /\ s.pc = "ack" /\ s.sig.gen = generation /\ Current(c)' = s.sig.row.id)
        <3>1. CASE Ack(c)
            <4>1. /\ s.pc = "ack" /\ Rest
                  /\ s.sig.gen # generation => Current(c)' = Current(c)
                  /\ s.sig.gen = generation => Current(c)' = MaxSyncId(Current(c), s.sig.row.id)
                BY <3>1, AckStep
            <4> QED
                BY <3>1, <4>1 DEF Rest, MaxSyncId
        <3>2. CASE ~Ack(c)
            BY <1>5, <3>2, MarkSteps
        <3> QED
            BY <3>1, <3>2
    <2>5. \A m \in marks : m = None \/ (m \in Nat /\ Backed(m))
        <3>1. Backed(Current(c)) /\ journal.marks[c] <= Current(c)
            BY <1>3, <2>2 DEF MarkTells, Current, MaxSyncId
        <3>2. \A x \in journal.log : x.id \in Nat
            BY <1>2, BaseLog
        <3> QED
            BY <1>3, <2>3, <3>1, <3>2 DEF Backed
    <2>6. Ack(c) /\ s.pc = "ack" /\ s.sig.gen = generation =>
             s.sig.row.id \in Nat /\ Backed(s.sig.row.id) /\ Covering(c, store[c], s.sig.row.id)
        BY <2>1, AckTells, SubscriberTypes
    <2> PICK cur : cur = Current(c)'
        OBVIOUS
    <2> PICK T : T = store'[c]
        OBVIOUS
    <2> PICK L : L = sub'[c].listing
        OBVIOUS
    <2>7. Backed(Current(c))'
        <3>1. cur = None \/ (cur \in Nat /\ Backed(cur))
            BY <2>4, <2>5, <2>6
        <3>2. Backed(cur)'
            BY <1>3, <2>3, <3>1 DEF Backed
        <3> QED
            BY <3>2 DEF Backed
    <2>8. ASSUME NEW m \in marks PROVE Covering(c, T, m)'
        <3>1. CASE Land(c)
            <4>1. Covering(c, T, m) /\ Rest
                BY <2>1, <2>8, <3>1, LandTells, LandStep
            <4> QED
                BY <4>1, RestCovering
        <3>2. CASE T = store[c]
            <4>1. Covering(c, T, m)
                BY <2>2, <2>8, <3>2 DEF MarkTells
            <4> QED
                BY <1>1, <1>5, <2>1, <2>8, <3>2, <4>1, CoveringStands
        <3> QED
            BY <3>1, <3>2, StoreSteps
    <2>9. ASSUME NEW m \in Marks PROVE Covering(c, T, m)'
        <3>1. CASE m \in marks
            BY <2>8, <3>1
        <3>2. CASE m = s.sig.row.id /\ Ack(c) /\ s.pc = "ack" /\ s.sig.gen = generation
            <4>1. Covering(c, T, m) /\ Rest
                BY <2>6, <3>2, AckStep
            <4> QED
                BY <4>1, RestCovering
        <3> QED
            BY <2>4, <2>9, <3>1, <3>2
    <2>10. ASSUME Listing(c)', NEW m \in Marks PROVE Covering(c, L, m)'
        <3>1. CASE Listing(c) /\ L = s.listing /\ ~Land(c) /\ ~Ack(c)
            <4>1. m \in marks
                BY <2>4, <2>10, <3>1
            <4>2. Covering(c, L, m)
                BY <2>2, <3>1, <4>1 DEF MarkTells
            <4> QED
                BY <1>1, <1>5, <2>1, <3>1, <4>1, <4>2, CoveringStands
        <3>2. CASE ListServer(c)
            <4>1. Rest /\ L = Truth(c) /\ pending' = pending
                BY <3>2, ListStep
            <4>2. m \in marks
                BY <2>10, <4>1 DEF Rest, Current
            <4>3. Len(log) \in Nat /\ (m = None \/ (m \in Nat /\ m <= Len(log))) /\ Here <= Len(log)
                BY <1>2, <2>1, <2>5, <4>2, BackedOnLog, BaseLog DEF Truths, JournalTells, Behind
            <4>4. Len(log) \in MaxSyncId(m, Here) .. Len(log)
                BY <1>3, <2>3, <4>3 DEF MaxSyncId
            <4>5. ASSUME NEW e \in Mine(c) PROVE Shows(c, e, L[e], MaxSyncId(m, Here))
                <5>1. L[e] = RowAt(c, e, Len(log))
                    BY <4>1 DEF Truth, Mine
                <5>2. \A i : Safe(e, i, Len(log))
                    BY <4>3 DEF Safe
                <5> QED
                    BY <4>4, <5>1, <5>2 DEF Shows
            <4>6. Covering(c, L, m)
                BY <4>5 DEF Covering
            <4> QED
                BY <4>1, <4>6, RestCovering
        <3> QED
            BY <2>10, <3>1, <3>2, ListingSteps
    <2>11. ASSUME Landing(c)', cur # None PROVE sub'[c].sig.row.id > cur /\ Kept(c, sub[c].sig.row)'
        <3> PICK r : r = sub'[c].sig.row
            OBVIOUS
        <3>1. ~Land(c) /\ ~Ack(c) /\ cur \in marks
            BY <2>1, <2>4, <2>11, LandingSteps
        <3>2. Current(c) # None /\ cur <= Current(c) /\ cur \in Nat /\ Current(c) \in Nat
            BY <1>3, <2>11, <3>1 DEF Current, MaxSyncId
        <3>3. r.id > Current(c) /\ Kept(c, r) /\ r.e \in Mine(c) /\ r.id \in Nat
            <4>1. CASE Landing(c) /\ sub'[c].sig = s.sig
                BY <2>2, <3>2, <4>1, SubscriberTypes DEF MarkTells, CoverageInv, OtherModels
            <4>2. CASE r \in Handed(c) /\ InTune(c)
                BY <4>2 DEF InTune, RowTells, Placed
            <4> QED
                BY <2>1, <2>11, <4>1, <4>2, LandingSteps
        <3>4. Kept(c, r)'
            BY <1>1, <1>5, <2>1, <3>2, <3>3, KeptStands
        <3>5. Kept(c, sub[c].sig.row)'
            BY <3>4 DEF Kept
        <3>6. sub'[c].sig.row.id > cur
            BY <1>3, <3>2, <3>3
        <3> QED
            BY <3>5, <3>6
    <2>12. \A m \in Marks : Covering(c, store[c], m)' /\ (Listing(c)' => Covering(c, sub[c].listing, m)')
        BY <2>9, <2>10 DEF Covering
    <2>13. Landing(c)' /\ Current(c)' # None => (sub[c].sig.row.id)' > Current(c)' /\ Kept(c, sub[c].sig.row)'
        BY <2>11
    <2> QED
        BY <2>7, <2>12, <2>13 DEF MarkTells
<1> QED
    BY <1>4, <1>5
==============================================================================
