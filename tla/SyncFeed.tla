------------------------------ MODULE SyncFeed ------------------------------
(* The server kernel and one subscriber: the event log of sync-event-store.ts, *)
(* the write side of sync-dispatcher.ts, the stream of sync-feed.ts with the   *)
(* hydration of hydrator.ts, read by read.  Sync groups decide what the        *)
(* subscriber may see, and rows change groups.  The subscriber stands for the  *)
(* client in its barest form: it applies a frame, keeps its cursor, and after  *)
(* a Resync or on another timeline lists everything again.                     *)
EXTENDS Squash, Integers

CONSTANTS
    Entities, EntityModel,
    Known,              \* the models of the registry
    Groups, Mine,       \* all sync groups; those the subscriber's session holds
    Homes,              \* the sets of groups a row may belong to
    Targets,            \* what a Resync the application logs may be about
    MaxEvents, MaxFaults,           \* bounds: events ever logged, faults
    OpenFeedWindows     \* the race windows of the client that are left open

\* A row shown ahead of the cursor is deleted before the cursor reaches its insert: the
\* squasher cancels the pair.  A row whose delete is ahead of the cursor is made again out
\* of sight and then moved into it: the squasher keeps the delete.  The log starts over
\* before the client has seen an epoch.
FeedWindows == {"observed-pair", "moved-in", "first-epoch"}

ASSUME FeedConstants ==
    /\ EntityModel \in [Entities -> STRING] /\ Known \subseteq STRING
    /\ "none" \notin Entities \cup Known \cup Groups
    /\ Groups # {} /\ Mine \subseteq Groups /\ Homes \subseteq (SUBSET Groups) \ {{}}
    /\ Targets \subseteq {"All"} \cup Groups \cup Known
    /\ MaxEvents \in Nat /\ MaxFaults \in Nat
    /\ OpenFeedWindows \subseteq FeedWindows

VARIABLES
    rows,       \* the application's tables: the groups and the version of each row
    log,        \* the events since the store was built; a position is a SyncId
    epoch,
    retained,   \* events up to here are gone (a durable store's own retention)
    stream,     \* the connection: its state, cursor and epoch
    read,       \* the catchup the stream is running
    frame,      \* the frame on its way to the subscriber
    client,     \* the subscriber: cursor, epoch, what it shows, whether it must list
    written,    \* the events ever logged: the version of the next row
    faults

tables == <<rows, log, epoch, retained, written>>
fvars == <<rows, log, epoch, retained, stream, read, frame, client, written, faults>>

NoEpoch == 0
Absent == [groups |-> {}, version |-> 0]
NoData == [e \in Entities |-> 0]
Event == [at : Nat \ {0}, tag : {"Insert", "Update", "Delete", "Resync"},
          entity : Entities \cup {"none"},
          model : {EntityModel[e] : e \in Entities} \cup {"none"},
          target : {"none", "All"} \cup Groups \cup Known,
          groups : (SUBSET Groups) \ {{}}]
Idle == [pc |-> "idle", epoch |-> NoEpoch, last |-> 0, events |-> {},
         todo |-> {}, data |-> NoData]
NoFrame == [sent |-> FALSE, epoch |-> NoEpoch, last |-> 0, events |-> {}, data |-> NoData]
Closed == [state |-> "closed", cursor |-> 0, epoch |-> NoEpoch]

FInit ==
    /\ rows = [e \in Entities |-> Absent]
    /\ log = <<>> /\ epoch = 1 /\ retained = 0 /\ written = 0 /\ faults = 0
    /\ stream = Closed /\ read = Idle /\ frame = NoFrame
    /\ client = [cursor |-> 0, epoch |-> NoEpoch, view |-> NoData, list |-> TRUE]

-----------------------------------------------------------------------------
(* The write side *)

Intersects(a, b) == a \cap b # {}

\* appendEvent gives the event the next id; publishing it may fail and no read of
\* the feed waits for it.
Dispatch(event) ==
    /\ written < MaxEvents
    /\ written' = written + 1
    /\ log' = Append(log, [event EXCEPT !.at = Len(log) + 1])
    /\ UNCHANGED <<epoch, retained, stream, read, frame, client, faults>>

EntityEvent(tag, e, groups) ==
    [at |-> 0, tag |-> tag, entity |-> e, model |-> EntityModel[e], target |-> "none",
     groups |-> groups]

\* Where the subscriber is on this timeline: at its start, when it comes from another.
Place == IF client.epoch \in {NoEpoch, epoch} THEN client.cursor ELSE 0

\* The last event of e past that place that was meant for the subscriber is its delete.
DeletedInSight(e) ==
    \E n \in Place + 1 .. Len(log) :
        /\ log[n].entity = e /\ log[n].tag = "Delete" /\ Intersects(log[n].groups, Mine)
        /\ \A k \in n + 1 .. Len(log) : log[k].entity = e => ~Intersects(log[k].groups, Mine)

\* The application writes a row and records it, to the groups that see it and those
\* that no longer do: a loss of access reaches its subscribers as a Delete.
Upsert(e, groups) ==
    /\ \/ "moved-in" \in OpenFeedWindows \/ rows[e] = Absent \/ ~DeletedInSight(e)
       \/ ~Intersects(groups \cup rows[e].groups, Mine)
    /\ rows' = [rows EXCEPT ![e] = [groups |-> groups, version |-> written + 1]]
    /\ Dispatch(EntityEvent(IF rows[e] = Absent THEN "Insert" ELSE "Update", e,
                            groups \cup rows[e].groups))

\* The subscriber was listed, or is being sent, a row whose insert is ahead of its place.
ShownEarly(e) ==
    /\ client.view[e] # 0 \/ read.data[e] # 0 \/ frame.data[e] # 0
    /\ \E n \in Place + 1 .. Len(log) : log[n].entity = e /\ log[n].tag = "Insert"

RemoveRow(e) ==
    /\ rows[e] # Absent
    /\ "observed-pair" \in OpenFeedWindows \/ ~ShownEarly(e)
    /\ rows' = [rows EXCEPT ![e] = Absent]
    /\ Dispatch(EntityEvent("Delete", e, rows[e].groups))

\* A permission change or a bulk correction, announced to the groups it is about.
Announce(target) ==
    /\ Dispatch([at |-> 0, tag |-> "Resync", entity |-> "none", model |-> "none", target |-> target,
                 groups |-> IF target \in Groups THEN {target} ELSE Groups])
    /\ UNCHANGED rows

\* A memory store starts an empty log, and with it a new timeline, at every boot.
Boot ==
    /\ faults < MaxFaults /\ log # <<>>
    /\ "first-epoch" \in OpenFeedWindows \/ client.epoch # NoEpoch
    /\ faults' = faults + 1
    /\ log' = <<>> /\ retained' = 0 /\ epoch' = epoch + 1
    /\ UNCHANGED <<rows, stream, read, frame, client, written>>

\* A durable store deletes its oldest events.
Prune ==
    /\ faults < MaxFaults
    /\ faults' = faults + 1
    /\ \E n \in retained + 1 .. Len(log) : retained' = n
    /\ UNCHANGED <<rows, log, epoch, stream, read, frame, client, written>>

-----------------------------------------------------------------------------
(* The stream *)

Connect ==
    /\ stream.state = "closed" /\ ~frame.sent
    /\ stream' = [state |-> "reading", cursor |-> client.cursor, epoch |-> client.epoch]
    /\ UNCHANGED <<tables, read, frame, client, faults>>

\* The connection is lost with whatever was on it.
Lose ==
    /\ faults < MaxFaults
    /\ stream.state = "reading" \/ frame.sent
    /\ faults' = faults + 1
    /\ stream' = Closed /\ read' = Idle /\ frame' = NoFrame
    /\ UNCHANGED <<tables, client>>

\* A tick of the poll.
ReadEpoch ==
    /\ stream.state = "reading" /\ read.pc = "idle" /\ ~frame.sent
    /\ read' = [Idle EXCEPT !.pc = "head", !.epoch = epoch]
    /\ UNCHANGED <<tables, stream, frame, client, faults>>

ReadHead ==
    /\ read.pc = "head"
    /\ read' = [read EXCEPT !.pc = "list", !.last = Len(log)]
    /\ UNCHANGED <<tables, stream, frame, client, faults>>

\* CursorOutOfRetention becomes a Resync(All) of no log, and nothing for a caller
\* without groups.
Synthetic(last) ==
    IF Mine = {} THEN {}
    ELSE {[at |-> last, tag |-> "Resync", entity |-> "none", model |-> "none",
           target |-> "All", groups |-> Mine]}

\* The events past the cursor, up to the head read, that are meant for the caller.
Visible(last) ==
    {n \in DOMAIN log : n > stream.cursor /\ n <= last /\ Intersects(log[n].groups, Mine)}

\* The entities of known models whose rows the events need.
Wanted(events) ==
    {r.entity : r \in {x \in events : x.tag \in {"Insert", "Update"} /\ x.model \in Known}}

List ==
    /\ read.pc = "list"
    /\ LET events == IF stream.cursor < retained THEN Synthetic(read.last)
                     ELSE Squashed(log, Visible(read.last))
       IN  read' = [read EXCEPT !.pc = "hydrate", !.events = events, !.todo = Wanted(events)]
    /\ UNCHANGED <<tables, stream, frame, client, faults>>

\* The row as the caller may see it now; 0 is hydrate's none.
Seen(e) == IF Intersects(rows[e].groups, Mine) THEN rows[e].version ELSE 0

\* One model's rows in one call, or one row per call where there is no hydrateMany.
Hydrate ==
    /\ read.pc = "hydrate"
    /\ \E batch \in {{e} : e \in read.todo} \cup
                    {{e \in read.todo : EntityModel[e] = m} : m \in {EntityModel[e] : e \in read.todo}} :
        read' = [read EXCEPT !.todo = @ \ batch,
                             !.data = [e \in Entities |-> IF e \in batch THEN Seen(e) ELSE @[e]]]
    /\ UNCHANGED <<tables, stream, frame, client, faults>>

\* hydrateEvents' output: events of unknown models go, an upsert without a row is a Delete.
Envelopes(events, data) ==
    {IF r.tag \in {"Insert", "Update"} /\ data[r.entity] = 0 THEN [r EXCEPT !.tag = "Delete"] ELSE r :
        r \in {x \in events : x.tag = "Resync" \/ x.model \in Known}}

HasResync(events) == \E r \in events : r.tag = "Resync"

\* Mutant: whatever was read is sent, under the epoch of now.
Void_Keeps ==
    /\ read.pc = "hydrate" /\ read.todo = {} /\ read.epoch # epoch
    /\ read' = [read EXCEPT !.epoch = epoch]
    /\ UNCHANGED <<tables, stream, frame, client, faults>>

\* Another timeline by now: every coordinate read is void, read again.
Void ==
    /\ read.pc = "hydrate" /\ read.todo = {} /\ read.epoch # epoch
    /\ read' = [Idle EXCEPT !.pc = "head", !.epoch = epoch]
    /\ UNCHANGED <<tables, stream, frame, client, faults>>

\* Mutant: the cursor is the last event's id, not the head.
Emit_LastEvent ==
    /\ read.pc = "hydrate" /\ read.todo = {} /\ read.epoch = epoch
    /\ LET events == Envelopes(read.events, read.data)
           last == Max({stream.cursor} \cup {r.at : r \in events})
           changed == stream.epoch # NoEpoch /\ stream.epoch # read.epoch
       IN  /\ frame' = [sent |-> TRUE, epoch |-> read.epoch, last |-> last,
                        events |-> events, data |-> read.data]
           /\ stream' = IF changed \/ HasResync(events) THEN Closed
                        ELSE [state |-> "reading", cursor |-> last, epoch |-> read.epoch]
    /\ read' = Idle
    /\ UNCHANGED <<tables, client, faults>>

\* The frame; a Resync or a changed epoch makes it the last of its stream.
Emit ==
    /\ read.pc = "hydrate" /\ read.todo = {} /\ read.epoch = epoch
    /\ LET events == Envelopes(read.events, read.data)
           changed == stream.epoch # NoEpoch /\ stream.epoch # read.epoch
       IN  /\ frame' = [sent |-> TRUE, epoch |-> read.epoch, last |-> read.last,
                        events |-> events, data |-> read.data]
           /\ stream' = IF changed \/ HasResync(events) THEN Closed
                        ELSE [state |-> "reading", cursor |-> read.last, epoch |-> read.epoch]
    /\ read' = Idle
    /\ UNCHANGED <<tables, client, faults>>

-----------------------------------------------------------------------------
(* The subscriber *)

Receive ==
    /\ frame.sent
    /\ LET over == HasResync(frame.events) \/ (client.epoch # NoEpoch /\ client.epoch # frame.epoch)
       IN  client' =
            [cursor |-> frame.last, epoch |-> frame.epoch, list |-> client.list \/ over,
             view |-> IF over \/ client.list THEN NoData
                      ELSE [e \in Entities |->
                               IF \A r \in frame.events : r.entity # e THEN client.view[e]
                               ELSE IF \E r \in frame.events : r.entity = e /\ r.tag = "Delete" THEN 0
                               ELSE frame.data[e]]]
    /\ frame' = NoFrame
    /\ UNCHANGED <<tables, stream, read, faults>>

\* List afresh (the application's listFn).
ListAll ==
    /\ client.list
    /\ client' = [client EXCEPT !.list = FALSE,
                    !.view = [e \in Entities |-> IF EntityModel[e] \in Known THEN Seen(e) ELSE 0]]
    /\ UNCHANGED <<tables, stream, read, frame, faults>>

Application ==
    \/ \E e \in Entities, groups \in Homes : Upsert(e, groups)
    \/ \E e \in Entities : RemoveRow(e)
    \/ \E target \in Targets : Announce(target)

Feed == ReadEpoch \/ ReadHead \/ List \/ Hydrate \/ Void \/ Emit
Subscriber == Connect \/ Receive \/ ListAll

FNext == Application \/ Boot \/ Prune \/ Lose \/ Feed \/ Subscriber
FSpec == FInit /\ [][FNext]_fvars /\ WF_fvars(Feed) /\ WF_fvars(Connect)
         /\ WF_fvars(Receive) /\ WF_fvars(ListAll)

-----------------------------------------------------------------------------
(* What the feed promises *)

\* The variables keep their shapes, and no reader's place is ahead of a log it was
\* read from: within one timeline every cursor is a position of it (backend.md:12,
\* "a committed prefix head read before listing").
FeedTypeOK ==
    /\ log \in Seq(Event) /\ \A i \in DOMAIN log : log[i].at = i
    /\ retained <= Len(log)
    /\ client.view \in [Entities -> 0 .. written]
    /\ stream.epoch = epoch /\ stream.state = "reading" => stream.cursor <= Len(log)
    /\ client.epoch = epoch => client.cursor <= Len(log)
    /\ frame.sent /\ frame.epoch = epoch => frame.last <= Len(log)

\* A subscriber that has read the whole log shows exactly the rows it may see, each in
\* its current version, whatever was committed, regrouped, pruned, announced, restarted
\* or lost between the reads of the batches it was given (sync-feed.ts:84-125).
CaughtUpShowsTheTruth ==
    ~client.list /\ client.epoch = epoch /\ client.cursor = Len(log) /\ ~frame.sent =>
        \A e \in Entities : EntityModel[e] \in Known => client.view[e] = Seen(e)

\* The entities present after events, given those before them: the newest event that is
\* about an entity or a Resync says, and after a Resync there are none until the slice is
\* fetched.
Presence(before, events) ==
    {e \in Entities :
        LET about == {r \in events : r.entity = e \/ r.tag = "Resync"}
        IN  \/ about = {} /\ e \in before
            \/ \E r \in about : /\ r.tag \in {"Insert", "Update"}
                                /\ \A other \in about : other.at <= r.at}

\* From any cursor a squashed log means what the log means, to a subscriber that is
\* where the log up to its cursor leads (squash.ts:39, "the smallest equivalent list").
SquashIsEquivalent ==
    \A from \in 0 .. Len(log) :
        LET before == Presence({}, {log[n] : n \in 1 .. from})
            run == from + 1 .. Len(log)
        IN  Presence(before, Squashed(log, run)) = Presence(before, {log[n] : n \in run})

\* Commits reach the subscriber: once the writing stops, it is caught up for good,
\* though nothing of its own is visible among the last events and nothing was ever
\* published (sync-feed.ts:52, "polling recovers commits even if publication failed").
CommitsReachTheSubscriber ==
    <>[](~client.list /\ client.epoch = epoch /\ client.cursor = Len(log))
=============================================================================
