# live-collection: a TLA+ verification development

This directory models `live-collection`: how the events of a server's log reach a client's
journal and its mounted collections, what the durable bookkeeping (cursor, last-applied marks,
prune floors, last resync, epoch) may claim at any moment, how a partial collection loads subset
by subset on top of that, how optimistic writes meet it, and the machinery around it: the server's
feed, the batch loader, the collection registry, the React hook and the demo's backend. It covers
interruptions, crashes, reconnects, lost answers, resyncs and restores of the server's log. TLC
checks small instances; TLAPS proves the results listed under "What is proved" for every value of
the constants.

Paths below are relative to `src/packages/`, or to `src/` when they begin with `docs` or
`examples`; `L` stands for `live-collection/src`.

## The system

    server:   application write -> SyncDispatcher -> SyncEventStore (log)
                                                        |
              SyncFeed.catchup: list -> squash -> hydrate|      (also polled by streamEvents)
                                                        v
    client:   INGEST (one fiber)  --append-->  JOURNAL (IndexedDB)
                 |    |                          ^   |
                 |    +--prune, reset------------+   | marks, cursor, floor, resync, rows
                 v fanout (PubSub)                   v
              SERVE (one stream per mounted collection) --> DRAIN --> persisted rows
                                                              |            ^
                                     ACK: last-applied tracker <+          | slices, confirmed rows
                                                                  ENSURE --+-- BRIDGE
                                                                    ^             ^
              usePartialLoad (React) -- loadBy* --------------------+   insert / update / delete

INGEST, SERVE and ACK touch each other through the journal, the fanout and the tracker
(`L/client/sync-broker.ts`), and through one semaphore, the recovery gate: recoveries, mounts,
acks and flushes hold it; append, fanout, prune and the application of a signal do not. Ensures of
all collections share one batch loader; the bridge of a mutation shares nothing with the drain but
the synced rows.

### Inventory

| Component | State | Operations | What is hard | What makes it correct |
|---|---|---|---|---|
| ids, `protocol/src/ids.ts` | - | compare, max, advance | absent vs zero | monotonic advance |
| mount plan, `L/client/mount-plan.ts` | tail guard | `planMount`, `dropStale` | boundaries, guard across an epoch reset | no gap between replay and tail |
| prune plan, `L/client/prune-plan.ts` | - | `prunePlan` | stages that move the floor and stages that must not | what is deleted is dead, superseded or remembered |
| journal, `L/client/sync-journal.ts`, `journal-store.ts` | log rows, cursor, epoch, resync, floors, marks | append, read, prune, advance, resets | which facts land in one commit | every commit leaves a truthful journal |
| ingest, `L/client/ingest.ts` | loop state, events since trim | catchup, stream, apply, recover, trim | interruption between two commits, reconnect in every state | cursor never ahead of the rows; recovery complete |
| serve, `L/client/subscribe.ts` | fanout queue, guard | mount stream | five reads in five awaits against a running ingest | every event once, none missed |
| ack, `L/client/last-applied-tracker.ts` | pending marks | mark, current, clear, flush | pending and durable halves of one mark | a mark never claims what the rows do not show |
| broker, `L/client/sync-broker.ts` | generation, gate | attach, ensureSubset | work of an old generation | nothing of an old generation is applied or marked after a recovery |
| full drain, `L/collection-drain.ts` | - | Snapshot, Upsert, Delete | listing is an await; rows that change scope | rows converge to the listing |
| partial collections, `L/partial-coverage.ts`, `ensureSubset`, `hydrateBatch` | coverage map, running ensures | mount seed, slice, live event, replay, mark | slices and events of different ages; planning reads that nothing guards | a subset that was loaded stays current, a subset mark tells the truth |
| batch loader, `L/client/batch-loader.ts` | current window, wake tokens | load, flush | joining a window that is being sent | one answer per caller, failures stay in their round trip |
| React, `react/src/index.ts` | status, attempt | effect, cleanup, retry | late answers to an earlier value or attempt | Ready is about what is on screen; no eternal spinner |
| write path, `L/define-collection.ts` | optimistic mutations | handler, reconcile | answers outside the drain, in any order | synced rows are server truth, marks hold |
| registry, `L/registry/collection-registry.ts` | entries | getOrCreate, four teardowns | remounts and second teardowns while a finalizer runs | one live instance per key, none cleaned up under its drain |
| runtime, `L/runtime/live-runtime.ts` | sync fiber | forkSync, forkDrain, dispose | a new ingest fiber after an interrupted one | one ingest at a time |
| feed, `server/src/sync-feed.ts`, `hydrator.ts` | per-connection cursor | catchup, stream, hydrateBatch | head, list, hydration at different moments; visibility | a caught-up subscriber shows what it may see |
| squash, `protocol/src/squash.ts` | - | tag fold, resync supersession | moving a change forward in the log | same final state from every cursor |
| event store, `server/src/sync-event-store.ts` | log, epoch | append, list | retention, restart | positions never move within an epoch |
| demo backend, `examples/pi-demo/server` | two tables | five handlers | cascade, ownership | the log is well formed and tells the tables |
| demo front end, `examples/pi-demo/web` | - | todo writes, project ensures | first writes of a session | (drives `WritePath` and `PartialLoads`) |
| transport, clients, persisted schema, wire schemas | - | I/O, encoding | - | not modelled (see the end) |

## Modules

| Module | Models | Notes |
|---|---|---|
| `SyncIds` | `protocol/src/ids.ts` | positions are naturals, an absent one is `None` = -1 |
| `MountPlan` | `L/client/mount-plan.ts` | the verdict and one step of the tail guard, as operators |
| `PrunePlan` | `L/client/prune-plan.ts` | the three stages, as set comprehensions |
| `Squash` | `protocol/src/squash.ts` | the tag table folded over a run, supersession by `All`, `Group` and `Model` |
| `SyncJournal` | `L/client/sync-journal.ts` | the journal as a value; one operator per atomic commit |
| `SyncBroker` | `sync-broker.ts`, `ingest.ts`, `subscribe.ts`, `last-applied-tracker.ts`, `collection-drain.ts`, and the server behind them | the state machine of the core |
| `PartialCollection` | `partial-coverage.ts`, `drainPartialCollection`, `ensureSubset`, `hydrateBatch` | EXTENDS `SyncBroker`; the drain's full-collection steps are replaced by the applier's |
| `SyncFeed` | `sync-feed.ts`, `hydrator.ts`, `sync-event-store.ts`, `sync-dispatcher.ts`, `squash.ts` | EXTENDS `Squash`; the server read by read, one bare subscriber |
| `BatchService` | what `batch-loader.ts` promises | abstract specification |
| `BatchLoader` | `batch-loader.ts` | implements `BatchService` (`Service == INSTANCE BatchService WITH ...`) |
| `PartialLoads` | `react/src/index.ts`, `loadFor`, `ensureSubset` | EXTENDS `BatchLoader`: hooks, promises and ensures over the loader |
| `CollectionRegistry` | `collection-registry.ts`, `makeFor`'s finalizer, `forkDrain` | the lifetimes of instances |
| `DemoServer` | `examples/pi-demo/server/src/http/api-live.ts`, `repo/` | tables and the events dispatched |
| `WritePath` | `bridge` of `define-collection.ts`, `partial-coverage.ts`, the demo's writes | EXTENDS `DemoServer`; one device against the server |
| `MC*` | - | the small instances |
| `Coverage` | - | EXTENDS `SyncBroker`: the inductive invariant behind its three data properties, in named parts |
| `SyncBrokerProofs` | - | theorems about the planning and retention operators, and the types and the gate of the broker and of `PartialCollection` |
| `CoverageProofs`, `CoverageTheorems` | - | `Coverage`'s invariant is inductive, and what follows; the second EXTENDS the first |
| `SyncFeedProofs` | - | theorems about `Squash` and `SyncFeed` |
| `PartialLoadsProofs` | - | theorems about `BatchLoader` and `PartialLoads` |
| `CollectionRegistryProofs` | - | theorems about `CollectionRegistry` |
| `WritePathProofs` | - | theorems about `DemoServer` and `WritePath` |
| `PositionProofs` | - | lemmas about positions: least and greatest elements, maxima, induction up to a position |

`SyncBroker` keeps one entity type of server (one log, all groups) so that the client can be
modelled in full; `SyncFeed` keeps the client bare so that groups, hydration and retention can be.
The two agree on what passes between them: a batch of squashed events with the rows of a later
moment, a head and an epoch.

### How `SyncBroker` corresponds to the code

A step is a maximal synchronous run between two awaits. Durable state (`journal`, and the rows
SQLite holds, `disk`) survives `Crash`; everything else of the client is memory, the rows a
collection shows (`store`) included, which a crash resets to `disk`.

* Server. `log` is the event log: entry *n* has SyncId *n* and carries the entity, its tag, its
  home (the scope it lives under, or `Gone`) and the number `w` of the write, which identifies a
  row version across timelines. `Write` and `BulkChange` are dispatches (a bulk change is one
  that deltas do not express and a `Resync` announces), `Expire` is the store's retention,
  `Restore` replaces the log by a prefix under a new epoch. `wire` is a batch on its way:
  `ServeList` reads epoch, head and log and squashes, `ServeHydrate` adds data *of that later
  moment*, and starts over if the epoch changed in between, as `catchup` does.
* Ingest. `ingest.pc` is where the fiber waits: `catchup` or `stream` (for a batch), `append`,
  `publish`, `flush`, `prune`, `commit`, or the recovery's `recover`, `wipe`, `tell`.
  `ingest.state` and `ingest.since` are the closure's variables, which outlive an interruption
  (`Stop`, `Start`, which may follow at once: `forkSync`). `Fail` is a lost connection, a refused
  batch or a keep-alive timeout.
* Serve and drain. `sub[c].pc` runs through `attach`, `floor`, `read` (the reads of
  `subscribe.ts`, under the gate), then `idle` between signals, `list` (waiting for `listFn`),
  `land` (writing) and `ack` (waiting for the gate). `queue` is the fanout subscription, `snap`
  and `replay` the head of the stream, `guard` the accumulator of `dropStale`.
* Rows. `Commit` is one synced-write transaction (`live-collection-options.ts:54-77`). TanStack
  shows the rows at once and writes them to SQLite in its own time; the drain does not wait for that
  before it acks. With the window `unawaited-commit` open, `Commit` leaves `disk` behind or not;
  with it closed, `disk` follows at once, and what the passing runs say of crashes is said under
  that assumption (`Durable`, "every synced write is in SQLite").
* Ack. `pending` holds unflushed marks; `TimedFlush` and `FlushBeforePrune` write them.
* Journal. `journal` is the value `SyncJournal`'s operators transform.

Abstractions. Payloads are row versions. A collection's rows are, per entity, the version shown
or `Absent`. Only one batch is in flight: the next is listed after the previous one was
accepted, so the server's per-connection cursor equals the client's durable one. Empty batches
(heartbeats) on an open stream are left out. One flush writes all marks in one step, except that
a crash may cut it anywhere. A schema version never changes, and a batch always has an epoch.

### How `PartialCollection` corresponds to the code

One instance of a partial collection, the constant `Partial`, and its subsets: every other element
of `Collections` names a subset, so that the journal's and the tracker's marks of a subset are
simply `journal.marks[s]` and `pending[s]`, as in the code, where a subset is a longer collection
key. `SubsetHomes[s]` are the homes whose rows the subset's index key selects; two subsets may
overlap, as subsets of two indexes do.

* `versions[w]` is the home of row version *w*: what an extractor reads off a row. The store keeps
  only the version, and `HomeOf` stands for the extractors.
* `coverage` is the `CoverageState` of `partial-coverage.ts`; `Advanced`, `MergeCoverage`,
  `CoveringMarks`, `AppliedRow`, `KeptCoverage` and `SliceRow` are its functions, per row.
* The drain keeps the broker's mount and stream steps. `RestoreSubsets` is the read of the mark
  with the coverage seeded from the durable subset marks; `ApplySignal` and `ApplySnapshot` are the
  applier's branches; `AckSubsets` marks the collection and what the application reported covered.
* `load[s]` is one run of `ensureSubset`: `cursor`, `floor`, `plan` are its reads; `ask`, `fetch`,
  `answer` the request and `SyncFeed.hydrateBatch`; `land` the check of the generation and
  `replaceSlice`; `replay`, `read`, `apply` the replay of the journal and the mark.
* `loaded` is what the caller was told: the subsets whose last ensure of this generation resolved.

What makes a step atomic. `makePartialFor` passes every application through one semaphore of one
permit, and a taken signal is applied before anything else of the client can touch the rows, so
taking and applying a signal is one synchronous run (`Applying` blocks every other step between the
two). The recovery gate is granted in the order it was asked for, and the drain, forked with the
instance, asks first: a load lands or replays only once the drain has attached.

Abstractions. The batch loader's window is left out: a load asks, is answered or fails
(`PartialLoads` has the window). Each subset has at most one ensure at a time (`inFlight`), and
`Dispose` waits for the running ones; the code does not interrupt them, but the instance they would
write to is gone. The persisted rows are there at the mount, as after TanStack's hydration. A row
that does not decode is left out.

### How `SyncFeed` corresponds to the code

* `rows` are the application's tables: the groups and the version of each row. `Upsert`,
  `RemoveRow` and `Announce` are the application's writes with their dispatch; a row that changes
  groups is announced to the old and the new ones, which is what makes a loss of access reach its
  subscribers (docs/backend.md:49). The publication on the bus may fail and nothing in the feed
  reads the bus, so it is left out.
* `stream` is the closure of `streamEvents`, `read` the `catchup` it runs: `ReadEpoch`, `ReadHead`,
  `List` (filter, squash, or the synthetic `Resync` of `Synthetic`), `Hydrate` (one model in one
  call, or one row per call where the model has no `hydrateMany`, each seeing the row of its own
  moment), then `Void` (the epoch has changed: read again) or `Emit`.
* `Boot` is a memory store's restart (an empty log under a new epoch, the tables stay), `Prune` a
  durable store's retention, `Lose` a lost connection.
* `client` is a subscriber in its barest form: it applies a frame, keeps the cursor and the epoch,
  and after a `Resync` or on another timeline lists everything anew.

### How `BatchLoader` and `PartialLoads` correspond to the code

* `pending` is the `Ref` (per request, the callers sharing its deferred), `wake` the queue's
  tokens, `fiber` where the background fiber waits, `flight` the window `getAndSet` took out,
  `answer` the settled deferreds. `Wake` is the take, `Flush` what follows `yieldNow` up to the
  request, `FetchFails` and `FetchAnswers` the two ends of the round trip.
* A *target* is an instance and one of its subsets: the key of `inFlight`. Two targets of one
  request are two instances that load the same subset, which the loader merges. `ensure[t]` is the
  promise and the fiber behind it; `SettlePromise` is the settling with its `finally`, `told` the
  reactions the promise has queued.
* `hook[h]` is one `usePartialLoad`: the rendered target, whether its effect is still `due`, the
  number of the last effect, and the status. An effect's `cancelled` flag is set exactly when a
  later effect has run, so `React` compares numbers. `Navigate` and `Retry` are the component's.
* `proven` stands for everything `PartialCollection` says about a subset: its rows are in the
  table, marked and covered. `Recovery` empties it.

### How `CollectionRegistry` corresponds to the code

`entries` is the map; `instances[i]` an instance with its child scope, its drain's fiber and its
collection; `call[c]` one teardown. JavaScript runs one thing at a time: a teardown that waits for
nobody `HasThread`, and everything else is `Quiet` until it awaits a finalizer or returns.
`disposeScope` lists its entries when it is *called* (`collection-registry.ts:65-68`), the others
when they run, so only it has the state `made`. `Evict` deletes the key and closes the scope of the
listed instance; a scope that is closed already is closed at once (`Closed`), without waiting.
`DrainEnds` and `Cleanup` are the two halves of the finalizer of `makeFor`.

### How `DemoServer` and `WritePath` correspond to the code

* The repositories of the demo are in memory, so a handler runs without a pause and is one step:
  tables and events change together. `events[n]` has SyncId *n*; `row` is what the table held once
  the event was dispatched (the wire carries none, and the properties read it). A project's removal
  removes its todos and announces each, in any order. One session is modelled.
* `mutations` are the device's unsettled optimistic mutations. `Insert`, `Update`, `Delete` are the
  todo list's and the sidebar's; `Confirm` is the handler accepting the request, in any order;
  `Fails` a refusal, or a loss of the request or of its answer; `Settle` is the bridge: reconcile,
  then drop the mutation.
* `synced`, `coverage`, `journal`, `applied` are the device of `PartialCollection`, cut down:
  events arrive in order, resolved when they arrive, one signal at a time. `Land` is the applier on
  one event and, through `Shown`, reads old rows as the code does: as the device *shows* them.
  `LandSlice` is `replaceSlice` with the replay after it, as one step; `Replayed` runs the replay
  over the journal as a recursive function.
* `Elsewhere` is another device's request. It may `Update` a todo that was deleted in the meantime:
  the handler's upsert then creates it anew, under an `Insert`.
* A synced write lands at once. When TanStack DB commits a sync transaction that meets a mutation
  being persisted is its own matter, outside the repository.

### Race windows

Thirteen interleavings and sequences the code leaves open break a promise its documentation makes, or
are what its documentation disclaims (`unawaited-commit`). Each is named
in a module and a constant says which are open: with all of them open the modules are the code. A
window that is not open is closed by a guard on the one step that enters it, so that the passing
runs can ask whether anything *else* is wrong. The proofs hold for every choice of open windows,
except where the next section says otherwise.

| Window | Module, step guarded | What happens | Opened alone in | TLC finds violated |
|---|---|---|---|---|
| `observed-pair` | `SyncBroker`, `Write` | an insert and delete the client was already shown fold to nothing | `MCobservedPair.cfg` | `Converges` |
| `interrupted-recovery` | `SyncBroker`, `Stop` | the ingest fiber dies between the journal's reset and the fanout, and mounted collections are never told | `MCfaults.cfg` | `DeliverySound`; with `"resync"` disturbing too, `CoverageSound` |
| `unrecorded-mount` | `SyncBroker`, `PruneRead` | dead weight is decided while a collection has no mark on record | `MCretention.cfg` | `RemountSound` |
| `prune-during-mount` | `SyncBroker`, `PruneCommit` | a prune whose cap cuts into the slice commits between a mount's reads of the floor (`subscribe.ts:56`) and of the journal (`:59`): the slice has a hole | `MCretention.cfg` | `DeliverySound` |
| `unawaited-commit` | `SyncBroker`, `Commit` | the rows of a signal are handed to TanStack and not awaited; the signal is acked, its mark flushed, and a crash finds the mark on disk and the rows not | `MCfaults.cfg` | `RemountSound`, `CoverageSound` |
| `unflushed-remount` | `PartialCollection`, `Dispose` | coverage is restored from durable marks, the plan also trusts pending ones | `MCpartial.cfg` | `SubsetMarksSound`, `LoadedStaysCurrent` |
| `dropped-coverage` | `PartialCollection`, `ApplySnapshot` | a mount's Snapshot is applied between a load's slice and its replay: the slice is dropped (`partial-coverage.ts:94-101`), the replay advances the subset all the same, the ensure resolves | `MCpartial.cfg` | `SubsetMarksSound`, `LoadedStaysCurrent` |
| `plan-during-recovery` | `PartialCollection`, `EnsureSubset` | a load that starts between a recovery's new generation and the journal's reset notes the new generation and the old mark, and skips | `MCpartial.cfg` with `Disturbances = {"resync"}` | `LoadedStaysCurrent` |
| `prune-during-load` | `PartialCollection`, `BrokerStep` | a subset that is being loaded for the first time has no mark, and dead weight may delete the rows it is about to replay | `MCpartial.cfg` with `TrimEvery = 1`, `MaxWrites = 3`, `Disturbances = {}` | `LoadedStaysCurrent` |
| `first-epoch` | `SyncFeed`, `Boot` | the server restarts before the client has ever seen an epoch: what it holds is stamped with the new one (`ingest.ts:106`) | `MCfeed.cfg` | `CaughtUpShowsTheTruth` |
| `observed-pair` | `SyncFeed`, `RemoveRow` | as above, seen from the feed | `MCfeed.cfg` | `CaughtUpShowsTheTruth` |
| `moved-in` | `SyncFeed`, `Upsert` | a row is deleted, made again in groups the subscriber does not hold, and moved into those it does: its events are a Delete and then an Update, and the fold keeps the Delete | `MCmovedIn.cfg` | `CaughtUpShowsTheTruth` |
| `late-evict` | `CollectionRegistry`, `GetOrCreate` | of two overlapping teardowns the first has listed a key, the second evicts it, the app mounts it again, and the first deletes the *new* instance's entry: that instance is open, drains, and can be neither found nor closed | `MClifetimes.cfg` | `OneInstancePerKey` |

To reproduce one, put its name into the constant `Windows`, `LoadWindows` or `OpenFeedWindows` of
the configuration named; TLC needs seconds to a minute and a half. `observed_pair` and `moved_in`
are runs of the project and have findings in `PROJECT.json`. A property of a passing run says
nothing about an interleaving whose window is closed in it.

`moved-in` was found by the proof of `CaughtUpShowsTheTruth`, not by a run: the step in which a row
is written could not be shown to keep the claim that a Delete in sight of a batch is the last word
on its row. It takes four events of one row, and the configurations checked until then had three.

### Races of the write path

`WritePath` has no windows: its actions have the guards of the code and no other. Three races leave
a synced row behind the mark of its project, and all three happen in the run `write` and under its
theorems. The history variable `raced` notes, per row, which races the row has lost since it was
last written; no guard reads it.

| Race | Where it is lost | What happens |
|---|---|---|
| `late-answer` | `Settle` | the answer to a write is reconciled after the event of a later write of the row has been applied or fetched (`define-collection.ts:373`): the older row is written back |
| `hidden-row` | `ApplyEvent`, `LandSlice` | the applier looks an old row up among the rows *shown* (`partial-coverage.ts:87`, `:161`); a pending delete hides it, its removal is skipped, the mark advances, and when the delete fails the row is back |
| `kept-row` | `ApplySnapshot` | a recovery that keeps a covered subset writes down what the device shows of it (`partial-coverage.ts:101`), pending and possibly refused versions included |

`MarksHoldUnderWrites` says of every row that has lost none of them that it is what the server held
at the mark or later. `RowsReflectTheServer` says it of every row, as the documentation does, and
is false: `late_answer` is that run, without a recovery, so that what it finds is a late answer.
The other two are reproduced by checking `RowsReflectTheServer` in `MCwrite.cfg` (`kept-row`), and
`MarksHoldUnderWrites` there with `"hidden-row"` allowed to no row, that is with
`raced[t] \ {"hidden-row"} = {}` for its hypothesis (nine states).

## What the runs check

Properties of `SyncBroker`:

* `TypeOK`.
* `CoverageSound`: a mark tells the truth. If the durable-or-pending mark of a collection is *m*
  and nothing above *m* was pruned, every row shows its entity as of some position at or after
  *m*, or the journal still holds a newer row of the entity. The second case is real: squashing
  moves an entity's change forward past other events, so in the middle of a batch a mark covers
  positions whose change is yet to be replayed.
* `RemountSound`: a crash now loses nothing, provided every synced write is durable in SQLite
  before its mark is. A collection whose next mount would trust its table becomes, after replaying
  its journal slice over the rows on disk, current through the cursor. docs/persistence.md:87-88
  says that a synced write "is **not** an awaitable durability acknowledgement", and with the window
  `unawaited-commit` open, or under the mutant `Commit_Unawaited`, the property fails: the flushed
  mark is past an event whose row is gone, and the mount trusts it. `CoverageSound` and
  `DeliverySound` rest on the same proviso where the client crashes.
* `DeliverySound`: the live side of it. A serving collection with no Snapshot to come is, once
  the signals it was already handed are applied, current through the cursor.
* `GateHeld`, `NoMarkAcrossRecovery`, `MountAtomic`: what the recovery gate excludes, and what a
  recovery and a mount rely on.
* `Converges`: once the environment stops disturbing the client, a collection that stays mounted
  shows the server's truth for good.

Properties of `PartialCollection`:

* `PartialTypeOK`, which also says that the gate is held by a subset exactly while it replays.
* `SubsetMarksSound`: every mark of a subset, the tracker's and the coverage map's, tells the
  truth. The subset's rows show the server as of some position at or after the mark, unless the
  journal holds a newer row of the entity or remembers that it pruned one.
* `NoLoadAcrossRecovery`: an ensure replays over its slice in the generation it began in, and no
  mark of the collection or a subset is pending or on record while a recovery wipes the journal.
* `LoadedStaysCurrent`: `loadBy*` resolves when the subset is current, and from then on, with the
  signals already handed over applied, the subset shows the server through the cursor.

`SubsetMarksSound` and `LoadedStaysCurrent` excuse one state, `TakenAhead`: a slice of one subset
may take away a row that has moved into another subset, loaded before, and that subset lacks the row
until the event of the move arrives. So `overlap` does not show that a loaded subset is complete at
every moment, as docs/partial-indexes.md:57-58 promises; it shows that nothing else goes wrong
between two subsets (see "Divergences between text and code"). Crashes keep synced rows here too.

Properties of `SyncFeed`:

* `FeedTypeOK`, which also says that within one timeline no cursor is ahead of its log.
* `CaughtUpShowsTheTruth`: a subscriber whose cursor is the head shows exactly the rows it may
  see, in their current versions, whatever was committed, regrouped, pruned, announced or
  restarted between the reads of the batches it was given.
* `SquashIsEquivalent`: from every cursor a squashed log leaves the same entities present as the
  log itself, resyncs of every target included.
* `CommitsReachTheSubscriber`: once the writing stops, the subscriber catches up for good, also if
  nothing of its own is visible in what is left.

Properties of the loads:

* `PLTypeOK`; `NoLostWake`: an open window always has a token or an awake fiber ahead of it.
* `Serves`: the loader implements `BatchService`. A caller is answered once, by a round trip that
  left after it asked; equal requests of a round trip get equal answers; a failed round trip fails
  its riders and nobody else.
* `ReadyIsEarned`: a hook that says Ready says it of the subset now on screen, and that subset is
  proven, unless the client has recovered since.
* `AnswersAreNew`: a hook that retries is not told the outcome it was told before.
* `LoadingEnds`: no eternal spinner.

Properties of the registry: `RTypeOK`; `OneInstancePerKey` (what is open is what the registry hands
out); `DrainsEndFirst` (no collection is cleaned up under its drain, and at most one drain per key
writes); `TeardownIsDone` (a teardown that goes on has nothing listed still draining, and whatever
is not yet clean has another teardown waiting for it); `TeardownEnds`.

Properties of the write path: `WriteTypeOK`; `TodosHaveTheirProject` and `LogTellsTables` (the log
is the well-formed stream `squash`'s fold table assumes, and what it leaves alive is what the
tables hold); `MarksHoldUnderWrites` (a synced row is behind the mark of its project only after it
has lost one of the three races, and no longer than to the next event, slice or answer that writes
it); `SyncedIsServerTruth` (a refused or unanswered mutation is never left in the rows that survive
it, except by a recovery that keeps what the device shows); and `RowsReflectTheServer`, the
documentation's claim, which the code does not keep.

| Run | Instance | Question |
|---|---|---|
| `faults` | 1 entity, 2 writes, 1 restore; crash, unmount, drop, stop | synced writes being durable, do crashes between any two commits of the journal keep marks, rows and journal consistent; does anything old survive a recovery; is the gate exclusive, and does it protect the reads and the wipe |
| `retention` | 3 entities of 2 models, one scope of two, 3 writes, per-model and global cap of one row, trim after each event | does pruning ever break a replay silently, does one model's traffic mislead the other's mounts, and do rows that leave the scope go |
| `convergence` | 1 entity, 2 writes; resync, restore, retention loss, crash | eventual convergence through recoveries, faults and crashes, synced writes being durable, with marks true and no event dropped on the way |
| `partial` | 1 subset, 2 writes, 1 restore; unmount, crash; from a mounted instance with an unflushed mark | skip, replay and fetch of a subset while events stream, across remounts, crashes and a recovery at any point of a load; does a slice, a replay, coverage or a mark of the old timeline survive, or a load cross the recovery |
| `overlap` | 2 overlapping subsets, rows that move between them, from a mounted instance | do slices, replays and live events of different ages respect what a newer mark has proved; excused is the row a slice takes from the other subset ahead of the event of its move |
| `feed` | 3 entities of 2 models (one unknown to the registry), 2 groups, resyncs of all, of the other group and of a model; 3 events, 1 fault | is what a batch claims true whatever happens between its reads, and does every commit arrive |
| `loads` | 2 hooks, 3 targets of 2 requests, 2 and 1 attempts, 1 recovery | does the loader implement its specification; are hooks told the truth, and told something |
| `lifetimes` | a global and two scoped keys, 3 instances, 2 teardowns at a time | overlapping teardowns and remounts |
| `write` | 1 project, 2 todos, 2 writes here or elsewhere, 1 recovery | answers in any order, cascades, events, slices and recoveries: is a row behind its mark only after a race it has lost, and is what was refused gone |
| `late_answer` | 1 project, 2 todos, 2 writes, no recovery | the counterexample of the finding: a confirmed row is deleted elsewhere, the deletion fetched, and the late answer writes the row back for good |
| `observed_pair` | 1 entity, 2 writes, no disturbance, the window open | the counterexample of the finding |
| `moved_in` | 1 entity, 2 groups, no resyncs, 4 events and no fault, the window open | the counterexample of the finding |

Every property of a passing run has a mutant in `PROJECT.json`: a definition of the model replaced
by the form a plausible bug would give it (`<Definition>_<Bug>`, beside the original), under which
the run reports the property violated.

Bounds. `MaxWrites` bounds the log: two writes are enough for an insert and delete, a row that
moves, and a batch with two rows; three (`retention`) add a change after a squashed pair. `MaxEpoch` allows one
restore. `MaxGeneration` bounds the interruptions of the ingest fiber (`Stop` is disabled at the
bound, recoveries never are), `MaxQueue` bounds the queue in the same guard; neither limits a
passing run otherwise. `MaxEventsPerModel`, `MaxEventsTotal` and `TrimEvery` are the code's own
options, small where pruning is the question and out of reach where it is not. Loading multiplies
the states, so its runs have one entity: freshness is decided per row, and what two entities could
do to each other goes through marks and coverage, which one entity already moves. `overlap` starts
in `Serving`, a state the whole system reaches (TLC finds it from `PInit`): mounted and streaming,
the wider subset loaded, one event on its way and one write left. `partial` starts in `Settled`,
which TLC reaches from `Serving` with one subset that is not loaded: the event is journaled,
applied and acked, its mark is not flushed yet, one write is left. From there it goes through
unmounts, crashes and a recovery; only the first mount, on an empty client, and the arrival of the
first event are left to `faults` and `overlap`.

In `feed`, three events are an insert, a change of groups and a removal, or a pair with a resync
between; the fault is one restart, one retention or one lost connection, anywhere. A row that is
made, removed, made again out of sight and moved in takes the four events of `moved_in`; longer
logs, with the window closed, are the theorem's. In `loads`, three
targets are the least that give a merged request and a second one in a window; the second attempt
of the first hook is its navigation or its retry; `MaxWake` (two tokens) delays a third first
caller until the fiber has taken one. In `lifetimes`, three instances are a key mounted three
times, or twice with another beside it, under two teardowns. In `write`, two writes of one row
give an answer and a later event, and two todos a cascade with an order. `MaxAttempts`,
`MaxGeneration`, `MaxWake`, `MaxInstances`, `MaxRecoveries` and `MaxFaults` stop the environment,
never the code's own steps, `MaxWake` excepted.

Symmetry. Only `retention` is reduced, by the permutations of the two entities of one model; it
checks invariants only.

Deadlock. Most systems here may stop for good: the writes are used up, everything is applied and
the connection waits. Those configurations say `CHECK_DEADLOCK FALSE`; `faults` and `retention`,
where an unmount or a crash is always possible, check it.

### Fairness

* `FairSpec` (`SyncBroker`): weak fairness of the server answering a request (`Serve`), of the
  ingest fiber (`Start`, `Run`) and of each collection's fiber (`Attach(c) \/ Drain(c)`): Effect's
  scheduler runs every fiber that can step, semaphores are released by whoever holds them, and the
  loop of `ingest.ts` retries forever. Nothing is assumed of mounts, writes, flush timers or
  disturbances. `Converges` assumes of the environment that it stops disturbing (`<>[][~Disturb]`)
  and that the collection stays mounted; a server that keeps failing converges to nothing.
* `PLSpec` (`PartialLoads`): weak fairness of `Runs`, all that the event loop does of itself, and
  the end of a round trip, answered or failed. The loader has no timeout of its own, so the last
  part is an assumption on the HTTP client. Nobody has to navigate, retry or recover.
* `RSpec` (`CollectionRegistry`): a teardown that has the thread goes on (weak); what waits for the
  thread gets it, however often others get it first (strong: the event loop's queue is in order).
  A `disposeScope` effect that was made need not be run.
* `FSpec` (`SyncFeed`): weak fairness of the server's poll (`Stream.tick`), of the reconnect, of
  receiving a frame and of the listing. Nothing is assumed of the application or the faults.

## What is proved

With the assumptions the modules name (`ConstantsOK`, `LoaderConstants`, `PartialLoadsConstants`,
`RegistryConstants`, `FeedConstants`, `ServerConstants`, `WriteConstants`: finite sets, sane scopes and bounds), for every set of disturbances and every
choice of open windows unless stated:

| Theorem | Statement |
|---|---|
| `TypeCorrect` | `Spec => []TypeOK` of `SyncBroker` |
| `GateExclusive` | `Spec => []GateHeld` |
| `MarksDieInRecovery` | `Spec => []NoMarkAcrossRecovery` |
| `MountSeesOneState` | `Spec => MountAtomic` |
| `PartialTypes` | `PartialOK => (PSpec => []PartialTypeOK)` of `PartialCollection` |
| `NoLoadCrossesRecovery` | `PartialOK => (PSpec => []NoLoadAcrossRecovery)` |
| `MarksNeverOverclaim` | `Windows \subseteq {"unawaited-commit"} => (Spec /\ []Durable => []CoverageSound)` |
| `DurableRowsSurviveACrash` | `Windows \subseteq {"unawaited-commit"} => (Spec /\ []Durable => []RemountSound)` |
| `NoEventIsDropped` | `Windows \subseteq {"unawaited-commit"} => (Spec /\ []Durable => []DeliverySound)` |
| `MountPlanLeavesNoGap` | for every input of `planMount`: where replay starts, and what the guard covers |
| `PruneLosesNothingSilently` | for every journal and caps: the newest row of an entity above the minimum mark stays, or the floor rises to it |
| `NoLoadLeftBehind` | `LoaderSpec => []NoLostWake` |
| `LoaderServes` | `LoaderSpec => Serves`: the batch loader implements `BatchService` |
| `PartialLoadsTyped` | `PLSpec => []PLTypeOK` |
| `ReadyIsTheSubsetOnScreen` | `PLSpec => []ReadyIsEarned` |
| `RetriesAskAgain` | `PLSpec => AnswersAreNew` |
| `ClientUsesTheLoader` | `PLSpec => []NoLostWake /\ Serves`: hooks and ensures keep to the loader's interface |
| `RegistryTypes` | `RSafe => []RTypeOK` |
| `TeardownsLeaveNothingRunning` | `RSafe => []TeardownIsDone` |
| `RegistryIsCanonical` | `"late-evict" \notin Windows => (RSafe => []OneInstancePerKey)` |
| `DrainsEndBeforeCleanup` | `"late-evict" \notin Windows => (RSafe => []DrainsEndFirst)` |
| `FeedTypes` | `FSpec => []FeedTypeOK` |
| `SquashReturns` | for every log and every run of it without an Update right after a Delete of the same entity: what `squash` returns |
| `SquashKeepsTheMeaning` | `FSpec => []SquashIsEquivalent` |
| `CaughtUpIsTrue` | `OpenFeedWindows = {} => (FSpec => []CaughtUpShowsTheTruth)` |
| `TodosKeepTheirProject` | `ServerSpec => []TodosHaveTheirProject` |
| `LogIsWellFormed` | `ServerSpec => []LogTellsTables` |
| `WritesAreTyped` | `WSpec => []WriteTypeOK` |
| `WritesAreRequests` | `WSpec => ServerSpec /\ [](TodosHaveTheirProject /\ LogTellsTables)` |
| `MarksTellTheTruth` | `WSpec => []MarksHoldUnderWrites` |
| `SyncedRowsAreTheServers` | `WSpec => []SyncedIsServerTruth` |

The broker. `TypeOK` alone is not inductive. A batch's greatest position is taken with `Max`,
which needs the sets of rows to be finite (`Finite`), and what a recovery publishes must be a
Resync or an EpochReset, which holds because only `accept` starts one (`RecoveryWork`). `IInv`
conjoins the three. `GateHeld` is then inductive relative to `IInv`: one lemma for the ingest
fiber, one for a collection. `NoMarkAcrossRecovery` and `MountAtomic` follow from `GateHeld`:
whoever is inside a gated section holds the only permit, so acks, flushes, recoveries and other
mounts are disabled.

What a partial collection asks of its constants, `PartialOK`, is a hypothesis of its own theorems
and not of the broker's, which share the module; its small instances assume it. It has more holders
of the gate, so `GateHeld` is not its invariant. `PartialInv` conjoins the broker's `IInv`,
`PartialTypeOK` (which says when an ensure holds the gate) and `PartialGate`: when the ingest fiber
and the collection's attachment do, and that a subset has no drain. The broker's lemmas about its
own holders (`IngestGate`, `CollectionGate`) are stated for any others, and an ensure's steps either
leave the gate alone or take or return it (`LoadMoves`). `NoLoadAcrossRecovery` follows as above: an
ensure that replays holds the permit a recovery waits for. So the second `checkGeneration` of
`ensureSubset`, before the mark, never fails, and the model's `FinishLoad` rightly has no such
branch.

Coverage. `CoverageSound`, `RemountSound` and `DeliverySound` speak of three moments of one
journey, that of a change from the server's log over the wire, the journal and a queue into a
table, and none of them is inductive: a mark is true after an ack only because the row was true
when it was queued, because the journal still held it or a newer one when it was pruned, and
because no recovery came in between. `CoverageInv` (module `Coverage`) follows that journey:

| Part | What it carries | Why it is needed |
|---|---|---|
| `LogTags` | an event's tag says what it did | the fold table of `squash` is right only on such a log |
| `WireTells`, `WorkTells` | a batch accounts for every entity from the cursor to its last position, by a row that tells the state of some position at or after its own, or because the entity came and went | hydration reads later than the listing, so a row may be newer than its position |
| `Epochs` | what is on the way is of the journal's epoch or a later one | a batch of the old timeline meets a client of the new one |
| `JournalTells` | the same of the journal between a partial append and the cursor; below it, an old row that says less than the cursor has a newer one | a crash between the append and the advance; an append repeated |
| `MarksTell` | every entity above a mark is in the journal or shown, by the table and by a listing about to land | acks, flushes, prunes and listings move these at different times |
| `Pruning` | a planned prune deletes what was superseded, was read by everyone or raises the floor | marks are read one step before rows are deleted |
| `Gens`, `Tops` | nothing handed over is of a later generation, or of a position the client has not been told of | an ack moves the mark to the position handed over |
| `Serves` | a serving collection is `InTune`: what it was handed, taken over its table or over the listing to come, covers every entity through the cursor; or it lags behind a recovery that is under way or will be met again | items are dropped by position and by generation, and an item may be older than the row already shown |
| `Mounts` | a mount's separate reads agree, and all it hears meanwhile is in the journal | the subscription comes before the reads |

The argument of the steps is the same everywhere: two positions between which an entity was not
touched show the same (`UntouchedSame`), or the entity is absent at both (`Quiet`), and a table
that shows some position at or after *m* and takes a row that tells a later one still does
(`CoveredOn`). The subtle case is squashing: an insert and a delete of one batch leave nothing, so
a row that shows the entity in between would stay for ever. `Safe` says that no batch still to be
read can cancel out a deletion that a shown row awaits, which is what closing `observed-pair`
buys. The other windows are used once each: `interrupted-recovery` where `Stop` would strand the
collections of a wiped journal, `prune-during-mount` in `Mounts`, `unrecorded-mount` in
`Pruning`. Hence the hypothesis on `Windows`: with any of these open TLC finds one of the three
violated. The fifth, `unawaited-commit`, may be open: what the theorems need is `[]Durable`, an
assumption on TanStack's commit and not on the code here, used where a mount reads its table back
from disk. It can be met: the lemma `AwaitedRowsAreDurable` shows that a drain which waited for the
commit would have it (`"unawaited-commit" \notin Windows => (Spec => []Durable)`). Without it the
three are false, as TLC shows. What
the fold of a batch says of an entity is a recursive function along the log, related to the log's
two ends by a least counterexample (`FoldedIsFolds`). Disturbances, caps, scopes, models and
bounds are unrestricted.

The loader. `LoaderInv` adds to `NoLostWake` that the fiber fetches exactly while it holds a window
and that nobody is in two (`OneWindowEach`), without which a caller could be told twice. Under it
every step of the loader is a step of the service, or leaves `asked`, `riding` and `answer` alone:
joining is `Ask`, closing a window that has somebody in it is `Send`, the two ends of the fetch are
`Fail` and `Respond`, the wake and an empty flush are stutters.

The hooks. `ReadyIsEarned` speaks of a hook, but what a hook shows was found by an ensure and then
waited in a promise reaction. `EnsuresAreEarned` and `AnswersAreEarned` carry "rows are proven, or
the client has recovered since this ensure began" along that way, and with it that an effect which
is still on screen joined the ensure of the subset on screen (`Current`). `AnswersAreNew` needs
that an ensure has one starter who starts no other (`EnsuresAreNew`) and that nobody is told of one
ensure twice (`AnswersComeOnce`). `LoadsWait` ties an ensure in the loader to the loader's windows,
so that the ensures are callers the loader's service allows.

The registry. `Canonical` (entries and open instances point at each other) is inductive only with
`ListedIsCurrent`, what a teardown has listed is still what its key leads to, or the key leads
nowhere; that is exactly what `late-evict` breaks, hence the hypothesis. `DrainWithScope` ties the
drain to the scope and gives `DrainsEndFirst`. `TeardownIsDone` needs neither: a collection whose
scope is closed and that is not clean has a running teardown at it (`Waited`), late evictions or not.

The feed. `SquashReturns` follows the fold along the log, by a least counterexample again, and says
what `squash` keeps of a run (`SquashFacts`): at most one event per entity, which is the entity's last and
is a Delete exactly when that one is; the last Resync; of an entity that ends inserted or updated
after the last Resync, something; and without Resyncs, of every entity whose first event is not an
Insert, an Update or a Delete. The log of one entity alternates as it should (`Lifecycles`: an Insert when
there was no row, an Update or a Delete when there was), so a run of the whole log never has an
Update right after a Delete, and `SquashKeepsTheMeaning` needs no window closed.
`CaughtUpShowsTheTruth` speaks of the end of a journey: an event is committed, listed, squashed,
hydrated at a later moment, carried in a frame, applied. The invariant has three parts.
`FeedShape` conjoins the types with where things are (`TablesOK`, `ReadersOK`), what the stream's,
the read's, the frame's and the client's cursors have to do with each other (`Flow`), and which
timeline each is on (`Places`). `Lifecycles` is above. `Following` is what the batch under way
claims of the rows:

| Part | What it carries | Where a window would break it |
|---|---|---|
| `FirstEpoch` | a client that has seen no epoch is on the first timeline | `Boot`: `first-epoch` |
| `RowsTell`, `DeletesTell` | a row's version tells the event that made it, is newer than every Delete of the row, and was announced to whoever sees the row; when the last event in sight is a Delete, the row is not | - |
| `NoneMovedIn` | in what the subscriber may see past its place, no Update follows a Delete directly | `Upsert`: `moved-in` |
| `Showing` | a version shown, read or in a frame is not of a life that begins and ends past the place it is shown at: the fold would cancel that pair | `RemoveRow`: `observed-pair` |
| `Truth` | every row is shown as it may be seen, or there is news of it past the place, for the client, for a read and for a frame alike | (follows from the others where events are squashed, hydrated and applied) |

The demo's backend. `LogTellsTables` is inductive with the types. The work is in lemmas about what
a log says after more has been written to it, one event at a time and, for a cascade, a run of
Deletes in any order.

The write path. Two invariants, and no hypothesis on answers or recoveries. `WBase`: what the log
says of a todo is its row (`LogRows`), a confirmed mutation is an event of the log
(`MutationsAsked`), the journal's signals ascend, leave out nothing that was ingested and carry
rows of their position or later (`JournalTells`), rows do not change project (`RowsInPlace`), no
mark is behind what the drain has applied (`MarksCoverApplied`) and a slice in flight is the
server's at its position, of a project without a mark (`SliceTells`). `MarksHold` says that the
rows of a covered project that have lost no race are what the server held at its mark or later
(`RowsHold`); it is inductive over `WBase`. What an event does to a row and what it does to the
row's races are told apart by the same three cases (`LandTells`, `RacedTells`): the mark is past the
event and both stay; the event finds nothing where a row is hidden, and the row has lost a race; or
the row is written, and has lost none. An answer that no later event of its todo has overtaken
writes what the server holds, and one that was overtaken marks its row (`SettleKeeps`). The replay
in `LandSlice` is a recursive function; what it keeps true after *n* signals (`ReplayKeeps`) is
carried along it by a least counterexample (`UpTo` in `PositionProofs`), since the library's
induction rules cannot be used here. `SyncedIsServerTruth` needs less: every row written comes from
a confirmed answer, a signal or a slice, all of them the log's (`FromLog`), or was kept.
`WritesAreRequests` reuses the backend's proof: every step of the device is a step of `ServerSpec`
or leaves the server alone.

Only model-checked: `SubsetMarksSound` and `LoadedStaysCurrent`, whose invariant would be `Coverage`'s once
more, for slices besides signals and with marks per subset; and every liveness property
(`Converges`, `CommitsReachTheSubscriber`, `LoadingEnds`, `TeardownEnds`: liveness under fairness
is out of the prover's reach).

## Divergences between text and code

Three have runs, `observed_pair`, `moved_in` and `late_answer`. docs/protocol.md:99 promises of `squash` that "applying
the squashed list from any starting cursor reaches the same state as applying the original events
one by one". That holds of the whole log (`SquashKeepsTheMeaning`), but `protocol/src/squash.ts:21`
relies on a well-formed stream and `server/src/sync-feed.ts:90-95` squashes what is left of the log
after filtering by groups, where an Update may follow a Delete (`moved-in`). docs/partial-indexes.md:176-177
defines a mark by "my rows reflect the server through position N", and `:128-130` calls the echo of a
confirmed write a no-op with one residual, a write that commits during a snapshot fetch, which
"can flicker once and self-heals". In `late_answer` the write commits before the fetch and only its
answer is late: the row it writes back was deleted by an event the mark is already past, so nothing
heals it before the next recovery, fetch or write of that row.

Noted while modelling, the windows first:

* `interrupted-recovery`: `L/client/ingest.ts:44` and `:123-124` and docs/synchronization.md:48
  say that a recovery survives reconnects and that a crash cannot restore obsolete coverage; an
  interruption between its steps leaves mounted collections on the old rows.
* `unrecorded-mount`: `L/client/prune-plan.ts:19` and docs/architecture.md:80 say nothing a
  collection still has to replay is dead weight; a mounted collection without a recorded mark is
  not counted.
* `unawaited-commit`: the documents disagree with each other. docs/persistence.md:40 says "every
  synced write [...] lands in SQLite, so the base is always as fresh as the last event applied", and
  docs/architecture.md:73 "A crash between flushes just replays a few idempotent events on the next
  mount"; docs/persistence.md:87-88 says that a synced write is not an awaitable durability
  acknowledgement, and docs/synchronization.md:58 that SQLite and journal writes are not atomic
  together. The code is with the latter: a flushed mark can outlive its rows.
* `hidden-row` and `kept-row`: as for `late-answer`, a row can be behind its subset's mark.
* `unflushed-remount`: docs/partial-indexes.md:57-58 says `loadBy*` "resolves when the subset's
  local rows are current"; `L/client/sync-broker.ts:250-251` says "Flush first so marks still batched in the tracker
  are visible", in `coveredSubsets`, which nothing calls.
* `late-evict`: `L/registry/collection-registry.ts:5` says the registry returns "one canonical
  instance per key".
* `L/client/catchup-client.ts:6-9` says the broker "tails the live stream anyway" when a catchup
  fails; `L/client/ingest.ts:147-151` fails the cycle and retries the catchup.
* `docs/protocol.md:97` says a `Group` resync drops events "whose groups fall under" the group;
  `protocol/src/squash.ts:94` tests exact membership, of the entity's *last* folded event.
* `server/src/model-registry.ts:32-33` says an encode failure skips the event;
  `server/src/hydrator.ts:72` makes it a defect.
* `TakenAhead`: a slice fetched after a row has moved out of its subset deletes the row, also from
  an overlapping subset the row has moved to, until the move's own event arrives. The row is
  missing meanwhile from a subset whose `loadBy*` resolved.
* docs/partial-indexes.md:127-128 says the echo of a confirmed write is "an idempotent no-op"; for
  a row of a subset that was not ensured the applier finds the confirmed row shown, not covered, and deletes it.
* `react/src/index.ts:66` says of `Ready` that the rows "are current and live". A recovery empties
  the subset under a mounted hook and nothing tells it: `ReadyIsEarned` has to excuse that.
* An `Update` from a device that has not heard of a deletion creates the row anew
  (`examples/pi-demo/server/src/http/api-live.ts:109-133`).
* A new session's first todos are sent with their project (`examples/pi-demo/web/src/routes/App.tsx:127-149`);
  one that arrives first is refused and rolled back.
* docs/adoption.md:13 asks applications to partition both stores by user; the demo opens them under
  constant names (`examples/pi-demo/web/src/live/runtime.ts:19`, `:25`).

## Plan

Done: the modules above. Next, in this order:

1. `LiveCollection`, an abstract specification (each row is a value the server had at or after
   the mark, marks only grow within a generation), and `SyncBroker` shown to refine it.
2. Schema-version bumps in `SyncJournal`; undecodable rows in the drains; a second model under a
   partial collection, so that loading and pruning meet.
3. Proofs: that a landing slice never lowers a row below what covered it, then `SubsetMarksSound`,
   and the refinement's safety part.

## Not modelled, and why

* HTTP, SSE framing, JSON and schema encodings, persisted schemas and key spelling: I/O and
  conversion; a batch arrives whole or not at all.
* TanStack DB's query engine and persistence adapter: external. A synced write shows at once and
  reaches SQLite with it, or with a later write of its collection, or, before a crash, not at all
  (`Commit`); that it reaches SQLite before its mark is flushed is the assumption of every passing
  run with a crash. A batched transaction is refused by the bridge before it has any effect.
* The event bus: a publication may fail and nothing in the feed reads it.
* `runtime.dispose()`, which closes the registry's scope and stops everything, and an ensure that
  is still running when its instance is disposed of: what happens to a write after `cleanup` is
  TanStack's.
* The demo's rendering, routing, sessions and HTTP wiring; its `projects` collection is drained
  like any other (`SyncBroker`). Logging and tracing.
