------------------------------ MODULE Coverage ------------------------------
(* What is true of every row, mark and delivery between the server's log and  *)
(* the collections of one client: the inductive invariant behind              *)
(* CoverageSound, RemountSound and DeliverySound, in parts.  Nothing here     *)
(* models code: every part is a claim about the steps of SyncBroker.          *)
EXTENDS SyncBroker

-----------------------------------------------------------------------------
(* Positions of the log *)

OnLog == journal.epoch \in {None, epoch}
Here == OrZero(journal.cursor)
Current(c) == MaxSyncId(journal.marks[c], pending[c])
Mine(c) == {e \in Entities : EntityModel[e] = CollModel[c]}

GoneAt(e, t) == EntryAt(e, t).home = Gone
Untouched(e, i, k) == \A n \in i + 1 .. k : log[n].e # e
Quiet(e, i, k) == Untouched(e, i, k) \/ (GoneAt(e, i) /\ GoneAt(e, k))
Plain(i, k) == \A n \in i + 1 .. k : log[n].tag # "Resync"
Is(n, e, tag) == log[n].e = e /\ log[n].tag = tag

\* The tag of an event says what it did.
LogTags ==
    \A n \in 1 .. Len(log) :
        LET x == log[n]
            was == GoneAt(x.e, n - 1)
        IN  x.tag # "Resync" =>
                /\ x.tag = IF x.home = Gone THEN "Delete" ELSE IF was THEN "Insert" ELSE "Update"
                /\ x.home = Gone => ~was

\* No batch read from i will cancel out a deletion of the e that t shows.
Safe(e, i, t) ==
    GoneAt(e, i) =>
        \A n \in i + 1 .. t, d \in t + 1 .. Len(log) : ~(Is(n, e, "Insert") /\ Is(d, e, "Delete"))

\* v is e's row of some position at or after m, and c will hear of its end.
Shows(c, e, v, m) ==
    \E t \in m .. Len(log) :
        /\ v = RowAt(c, e, t)
        /\ v = Absent \/ (Safe(e, Here, t) /\ Safe(e, m, t))

-----------------------------------------------------------------------------
(* Rows on their way *)

Placed(r) ==
    /\ r.id \in 1 .. Len(log) /\ log[r.id].e = r.e
    /\ GoneAt(r.e, r.id) => r.tag = "Delete"

\* r tells the state of its entity at position h.
TellsAt(r, h) ==
    IF r.tag = "Delete" THEN GoneAt(r.e, h)
    ELSE ~GoneAt(r.e, h) /\ r.home = EntryAt(r.e, h).home /\ r.w = EntryAt(r.e, h).w

RowTells(r) == Placed(r) /\ \E h \in r.id .. Len(log) : TellsAt(r, h)

\* The rows say what happened to every entity up to h.
Accounted(rows, h) ==
    /\ h \in Here .. Len(log) /\ Plain(Here, h)
    /\ \A e \in Entities :
        \/ Untouched(e, Here, h)
        \/ \E r \in rows : r.e = e /\ r.id \in Here + 1 .. h /\ Untouched(e, r.id, h)
        \/ (GoneAt(e, Here) /\ GoneAt(e, h))

OneRowEach(rows) == \A x, y \in rows : x.id = y.id => x = y

BatchRows(rows, h) ==
    /\ Accounted(rows, h) /\ OneRowEach(rows)
    /\ \A r \in rows :
        /\ r.e \in Entities
        /\ Placed(r) /\ r.id \in Here + 1 .. h /\ Untouched(r.e, r.id, h) /\ Safe(r.e, Here, r.id)
        /\ ~(GoneAt(r.e, Here) /\ GoneAt(r.e, h))

\* The next batch will be a resync.
ResyncAhead == Here < retained \/ \E n \in Here + 1 .. Len(log) : log[n].tag = "Resync"

OnWire == wire.stage # "none" /\ wire.epoch = epoch

WireTells ==
    /\ wire.stage # "none" => ingest.pc \in {"catchup", "stream"} /\ wire.epoch \in 0 .. epoch
    /\ OnWire => wire.last <= Len(log)
    /\ OnWire /\ wire.resync => wire.events = {} /\ (OnLog => ResyncAhead)
    /\ OnWire /\ ~wire.resync /\ OnLog =>
        /\ BatchRows(wire.events, wire.last)
        /\ wire.stage = "listed" => \A r \in wire.events : r.tag = "Delete" <=> GoneAt(r.e, r.id)
        /\ wire.stage = "sent" => \A r \in wire.events : RowTells(r)

InHand == ingest.pc \in {"append", "publish", "recover", "wipe", "tell"}

WorkTells ==
    /\ InHand => ingest.work.epoch \in 0 .. epoch
    /\ InHand /\ ingest.work.epoch = epoch => ingest.work.last <= Len(log)
    /\ ingest.pc \in {"append", "publish"} => ingest.work.epoch = journal.epoch
    /\ ingest.pc \in {"recover", "wipe", "tell"} => ingest.state = "Recovering"
    /\ ingest.pc \in {"recover", "wipe"} /\ OnLog =>
            ingest.work.kind = "Resync" /\ ResyncAhead /\ ingest.work.epoch = epoch
    /\ ingest.pc = "tell" => ingest.work.last = Here
    /\ ingest.pc = "append" /\ OnLog =>
        /\ BatchRows(ingest.work.rows, ingest.work.last)
        /\ \A r \in ingest.work.rows : RowTells(r)
    /\ ingest.pc = "publish" /\ OnLog =>
        /\ Accounted(journal.log, ingest.work.last)
        /\ ingest.work.rows \subseteq journal.log
        /\ \A r \in ingest.work.rows : r.id > Here /\ Untouched(r.e, r.id, ingest.work.last)

Epochs ==
    /\ journal.epoch <= epoch
    /\ journal.epoch = None => epoch = 0
    /\ wire.stage # "none" => journal.epoch <= wire.epoch
    /\ InHand => journal.epoch <= ingest.work.epoch /\ journal.epoch # None

-----------------------------------------------------------------------------
(* The journal *)

\* h is not ahead of a batch that is on its way or in hand.
Behind(h) ==
    /\ h <= Len(log)
    /\ OnWire => h <= wire.last
    /\ InHand /\ ingest.work.epoch = epoch => h <= ingest.work.last

\* The journal accounts for everything up to a position at or after i.
Told(i) == \E h \in i .. Len(log) : Behind(h) /\ Accounted(journal.log, h)

JournalTells ==
    OnLog =>
        /\ Behind(Here) /\ journal.resync <= Here
        /\ \A m \in Models : journal.floor[m] <= Here
        /\ OneRowEach(journal.log)
        /\ \A x \in journal.log :
            /\ RowTells(x) /\ x.e \in Entities
            /\ x.id > Here => Safe(x.e, Here, x.id) /\ Told(x.id)
            /\ x.id <= Here =>
                \/ Quiet(x.e, x.id, Here)
                \/ \E y \in journal.log : y.e = x.e /\ y.id > x.id

\* The client has been told of position i, or of a later one.
Backed(i) == i <= Here \/ \E x \in journal.log : x.id >= i

-----------------------------------------------------------------------------
(* Marks *)

Covering(c, table, m) ==
    m # None /\ journal.floor[CollModel[c]] <= m =>
        \A e \in Mine(c) :
            \/ \E r \in journal.log : r.e = e /\ r.id > m
            \/ Shows(c, e, table[e], MaxSyncId(m, Here))

Listing(c) == sub[c].pc = "land" /\ sub[c].sig.kind # "Event"
Landing(c) == sub[c].pc = "land" /\ sub[c].sig.kind = "Event"

\* A row handed to c is in the journal, or newer ones are, or it was pruned.
Kept(c, r) ==
    \/ journal.floor[CollModel[c]] >= r.id
    \/ \E x \in journal.log : x.e = r.e /\ x.id >= r.id

MarkTells(c) ==
    /\ Backed(Current(c))
    /\ \A m \in {journal.marks[c], Current(c)} :
        /\ Covering(c, store[c], m)
        /\ Listing(c) => Covering(c, sub[c].listing, m)
    /\ Landing(c) /\ Current(c) # None => sub[c].sig.row.id > Current(c) /\ Kept(c, sub[c].sig.row)

MarksTell == OnLog => \A c \in Collections : MarkTells(c)

\* Rows are about entities, and a collection only ever sees its model's.
RealRows == \A r \in wire.events \cup ingest.work.rows \cup journal.log : r.e \in Entities

Lists == \A c \in Collections : sub[c].pc = "list" => sub[c].sig.kind # "Event"

OtherModels ==
    \A c \in Collections :
        /\ \A e \in Entities \ Mine(c) : store[c][e] = Absent /\ sub[c].listing[e] = Absent
        /\ Landing(c) => sub[c].sig.row.e \in Mine(c)
        /\ \A r \in sub[c].replay : r.e \in Mine(c)
        /\ \A k \in 1 .. Len(sub[c].queue) :
              sub[c].queue[k].kind = "Event" => sub[c].queue[k].row.e \in Mine(c)

\* The mark that c will take next says it is beyond every row of the journal.
Fresh(c) ==
    /\ sub[c].queue = <<>>
    /\ \/ sub[c].snap >= Here
       \/ /\ sub[c].snap = None /\ sub[c].pc \in {"list", "land", "ack"}
          /\ sub[c].sig.kind # "Event" /\ sub[c].sig.row.id >= Here

\* A planned prune deletes what was superseded or read, or raises the floor.
Dispensable(c, m, r) ==
    m # None /\ r.e \in Mine(c) =>
        \/ r.id <= m
        \/ \E y \in journal.log : y.e = r.e /\ y.id > r.id
        \/ ingest.plan.floor[CollModel[c]] >= r.id

Pruning ==
    /\ ingest.pc \in {"flush", "prune", "commit"} /\ OnLog => \A x \in journal.log : x.id <= Here
    /\ ingest.pc = "commit" /\ OnLog =>
        /\ ingest.plan.rows \subseteq journal.log
        /\ \A m \in Models : ingest.plan.floor[m] <= Here
        /\ \A x, y \in journal.log : x.e = y.e /\ x.id < y.id => x \in ingest.plan.rows
        /\ \A c \in Collections :
            /\ \A m \in {journal.marks[c], Current(c)} : \A r \in ingest.plan.rows : Dispensable(c, m, r)
            /\ Current(c) = None => sub[c].pc \in {"off", "attach", "floor", "read"} \/ Fresh(c)

-----------------------------------------------------------------------------
(* Deliveries *)

Serving(c) == sub[c].pc \in {"idle", "list", "land", "ack"}
Queued(c) == 1 .. Len(sub[c].queue)
Controls(c) == {j \in Queued(c) : sub[c].queue[j].gen = generation /\ sub[c].queue[j].kind # "Event"}

\* The queued rows that c will apply.
Live(c) ==
    LET s == sub[c]
    IN  {k \in Queued(c) :
            /\ s.queue[k].gen = generation /\ s.queue[k].kind = "Event"
            /\ \A j \in 1 .. k - 1 : s.queue[j].gen = generation => s.queue[j].row.id < s.queue[k].row.id
            /\ Controls(c) # {} \/ s.guard < s.queue[k].row.id}

\* The rows that c will apply once it has listed what it has to.
Handed(c) ==
    LET s == sub[c]
    IN  {s.queue[k].row : k \in Live(c)}
        \cup (IF Controls(c) # {} THEN {}
              ELSE s.replay \cup (IF Landing(c) THEN {s.sig.row} ELSE {}))

Unlisted(c) == Controls(c) # {} \/ sub[c].snap # None \/ sub[c].pc = "list"
Table(c) == IF Listing(c) THEN sub[c].listing ELSE store[c]

Newest(rows, r) == r \in rows /\ \A x \in rows : x.e = r.e => x.id <= r.id

\* After the rows, over the table (or a listing to come), e is current through m.
Covered(c, e, rows, unlisted, table, m) ==
    /\ \A r \in rows : r.e = e /\ Newest(rows, r) => r.id >= m \/ Quiet(e, r.id, m)
    /\ (\A r \in rows : r.e # e) => unlisted \/ Shows(c, e, table[e], m)

Covers(c, e, m) == Covered(c, e, Handed(c), Unlisted(c), Table(c), m)

\* c has been handed position i, or a later one.
Reached(c, i) ==
    \/ Controls(c) = {} /\ i <= sub[c].guard
    \/ \E k \in Queued(c) : sub[c].queue[k].gen = generation /\ i <= sub[c].queue[k].row.id

\* Items up to j were queued at or before position at, those of earlier timelines apart.
GuardBy(c, j, at) ==
    LET s == sub[c]
        Rebased(i) == \E k \in i + 1 .. j - 1 : s.queue[k].kind = "EpochReset"
    IN  /\ Rebased(0) \/ s.guard <= at
        /\ \A i \in 1 .. j - 1 : Rebased(i) \/ s.queue[i].row.id <= at

\* c has nothing of an earlier generation left.
InStep(c) ==
    LET s == sub[c]
    IN  /\ \A k \in Queued(c) : s.queue[k].gen = generation /\ s.queue[k].kind = "Event"
        /\ s.pc # "idle" => s.sig.gen = generation
        /\ s.snap # None \/ s.replay # {} => s.gen = generation
        /\ Backed(s.guard) /\ Current(c) <= s.guard /\ s.snap <= s.guard
        /\ \A r \in s.replay : r.id <= s.guard /\ r.id > s.snap
        /\ s.pc # "idle" => s.sig.row.id <= s.guard /\ \A r \in s.replay : r.id > s.sig.row.id
        /\ s.pc # "idle" => s.snap = None

\* c is about to hear, at item j of its queue, of the latest recovery.
CalledAt(c, j) ==
    LET s == sub[c]
    IN  /\ s.queue[j].gen = generation /\ s.queue[j].kind \in {"Resync", "EpochReset"}
        /\ s.queue[j].row.id <= Here
        /\ \A k \in 1 .. j - 1 : s.queue[k].gen < generation
        /\ \A k \in j + 1 .. Len(s.queue) :
            /\ s.queue[k].gen = generation /\ s.queue[k].kind = "Event"
            /\ s.queue[k].row.id > s.queue[j].row.id
        /\ s.pc # "idle" => s.sig.gen < generation
        /\ s.snap # None \/ s.replay # {} => s.gen < generation
        /\ s.queue[j].kind = "Resync" => GuardBy(c, j, s.queue[j].row.id)
        /\ Current(c) = None

InTune(c) ==
    /\ InStep(c) \/ \E j \in Queued(c) : CalledAt(c, j)
    /\ \A k \in Queued(c) : sub[c].queue[k].gen = generation => Backed(sub[c].queue[k].row.id)
    /\ OneRowEach(Handed(c))
    /\ \A r \in Handed(c) :
        /\ RowTells(r) /\ r.e \in Mine(c) /\ r.id > Current(c) /\ Kept(c, r)
        /\ r.id > Here => \E x \in journal.log : x.id = r.id
    /\ \A e \in Mine(c) : Covers(c, e, Here)
    /\ \A x \in journal.log : x.id > Here /\ x.e \in Mine(c) /\ Reached(c, x.id) =>
        Covers(c, x.e, x.id) \/ \E y \in journal.log : y.e = x.e /\ y.id > x.id
    /\ ingest.pc = "publish" =>
        \A e \in Mine(c) : Covers(c, e, ingest.work.last) \/ \E r \in ingest.work.rows : r.e = e

\* A recovery that was interrupted will be met again.
Owed ==
    /\ ingest.state = "Recovering" /\ ResyncAhead
    /\ \/ ingest.pc = "stopped"
       \/ ingest.pc = "catchup" /\ (OnWire => wire.resync)
       \/ ingest.pc = "recover"

\* c has heard nothing since the generation changed.
Lagging(c) ==
    LET s == sub[c]
    IN  /\ s.gen < generation /\ (s.pc \in {"list", "land", "ack"} => s.sig.gen < generation)
        /\ \A k \in Queued(c) : s.queue[k].gen < generation

Gens ==
    \A c \in Collections :
        LET s == sub[c]
        IN  /\ s.gen <= generation /\ s.sig.gen <= generation
            /\ \A k \in Queued(c) : s.queue[k].gen <= generation
            /\ ingest.pc \in {"wipe", "tell"} /\ s.pc # "off" => Lagging(c)

\* Ids known to c, those of earlier timelines apart.
Topped(c) ==
    LET s == sub[c]
        Rebased(i) == \E k \in i + 1 .. Len(s.queue) : s.queue[k].kind = "EpochReset"
    IN  /\ Rebased(0) \/ Backed(s.guard)
        /\ \A i \in Queued(c) : Rebased(i) \/ Backed(s.queue[i].row.id)

Tops ==
    OnLog /\ ~(ingest.pc = "tell" /\ ingest.work.kind = "EpochReset") =>
        \A c \in Collections : sub[c].pc # "off" => Topped(c)

Serves ==
    OnLog => \A c \in Collections : Serving(c) =>
        InTune(c) \/ (Lagging(c) /\ (ingest.pc \in {"wipe", "tell"} \/ Owed))

Mounting(c) == sub[c].pc \in {"attach", "floor", "read"}

\* A mount under way.
MountTells(c) ==
    LET s == sub[c]
    IN  /\ s.gen = generation
        /\ \A k \in Queued(c) :
            /\ s.queue[k].gen = generation /\ s.queue[k].kind = "Event"
            /\ \E x \in journal.log : x.id = s.queue[k].row.id /\ x.e = s.queue[k].row.e
        /\ ingest.pc \in {"prune", "commit"} => s.queue = <<>>
        /\ s.snap = None /\ s.replay = {}
        /\ s.pc \in {"floor", "read"} =>
            /\ s.mark = Current(c) /\ s.cursor <= journal.cursor
            /\ journal.floor[CollModel[c]] <= OrZero(s.cursor)
            /\ ingest.pc \in {"prune", "commit"} => s.cursor = journal.cursor
        /\ s.pc = "read" => s.floor = journal.floor[CollModel[c]]

Mounts == OnLog => \A c \in Collections : Mounting(c) => MountTells(c)

CoverageInv ==
    /\ LogTags /\ WireTells /\ WorkTells /\ Epochs /\ JournalTells
    /\ RealRows /\ Lists /\ OtherModels /\ MarksTell /\ Pruning /\ Gens /\ Tops /\ Serves /\ Mounts
=============================================================================
