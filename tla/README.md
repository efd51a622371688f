# MeshBug: TLA+ models, checks and proofs

MeshBug listens to MeshCore observers over MQTT, stores what they report and
derives tables for a dashboard. It is three processes around one Postgres:

    MQTT -> ingest (1+ replicas) -> raw_events -> project (exactly 1) -> derived tables -> web (1+)
                        pg_notify meshbug_raw            pg_notify meshbug_packets ...

This directory models the write side (`ingest`), the log they share
(`raw_events`), the loop that turns the log into tables (`project`) with all
its stages, the way from a commit to an open browser page (`web`), the queries
of the pages that aggregate, and what every process does before it serves:
migrations, schema checks and partitions. All line references are to `src/`.

## 1. Inventory

For each component: its state, its operations, what makes it hard, and what
would make it correct. The status of each is in `PROJECT.json`.

| Component | State | Operations | Hard because | Correct when |
| --- | --- | --- | --- | --- |
| Ingest service (`internal/ingest`, `internal/mqtt`) | MQTT subscription, bounded channel, batch, flush timer, context | callback, take, flush (reserve ids, copy, notify), stop | several replicas, two statements per insert, cancelled context, QoS 0 | every message taken is stored once; a failed batch is given up, not stored twice |
| Raw event log (`store/queries.go`) | `raw_events`, its id sequence | `InsertRawEvents`, `FetchRawEventsAfter`, `MaxRawEventID` | ids are drawn before rows are visible | the reader that asks for `id > cursor` sees every row in the end |
| Notifications (`internal/notify`) | LISTEN session, queued notifications | `Listen`, `listenOnce` | sessions break; what is sent meanwhile is lost | a wake-up leads to all rows committed by then |
| Projector loop (`internal/project/project.go`) | durable cursor, local cursor | `Run`, `catchUp`, `Reset` | crash, failed batch, lost acknowledgement, catch-up before LISTEN | no row skipped, none projected twice, cursor moves forward |
| Pipeline (`project/pipeline`) | transaction, stages, high-water mark | `ProcessBatch`: apply, begin, flush, commit, notify, evict | memory survives a failed batch, tables survive a crash | tables are a function of the log prefix up to the cursor |
| `packet_observations` stage | row buffer, count | Apply, Flush, Notify, Evict | buffer cleared by Evict only | one row per packet logged |
| `packets_unique` stage | per hash: bounds, fields, observers, loaded, dirty | same, with rehydration and upsert | eviction, stragglers, restarts | observer count, bounds and fields as if projected in one go |
| Observer rollups 1m / 1h | per (observer, bucket): counters, hash set, bounds, average, noise floor | same | additive counters, lossy reload | counters, sets, averages, last noise floor as defined over the bucket |
| Neighbor rollup | per (observer, source, bucket) counters | same | as above | as above |
| Nodes stage | last adverts by key, pending count | merge, upsert, history insert | additive `advert_count`, out of order adverts | newest advert wins whatever the batches |
| Observers, observer_status stages | pending upserts | upsert, insert on conflict | foreign key, values Postgres refuses | idempotent under replay |
| Anomaly stage, three detectors | minute cursor, emitted list | tick, upsert, resolve, notify | cursor and list advance before the commit | each minute checked once, announced only if committed |
| Event decoding | none | `Decode`, parsers | refused rows, absent and odd values | a refused row stops nothing, an odd value is the same wherever it is read |
| Partition manager | monthly partitions | `EnsurePartitions` | DEFAULT partition, month arithmetic | current and next month exist |
| Live feed (`internal/sse`, `internal/web`, `cmd/meshbug/web.go`) | subscribers with buffers, position by time | bridge, `Publish`, `Subscribe`, `sseLive` | slow clients, equal timestamps, late rows | a client sees every row once |
| Migrations (`store/migrations.go`, `meshbug migrate`) | version and dirty flag of two schemas | `RunMigrations`, `CheckMigrations` | jobs die half-way, releases overlap, two checks | a running service has its whole schema |
| Page queries (`internal/web/queries.go`) | none of their own | one query or several per page | NULL averages, ties, look-back windows | the page says what the log says |
| Configuration | none after start-up | | | |

### Interactions

* `ingest` and `project` share the table, the sequence and the notification
  channel, nothing else. A notification carries no data that `project` uses.
* `project` and its stages share one goroutine. What interleaves is commits of
  `ingest`, crashes, and failures between the steps of a batch.
* `web` reads the tables that `project` commits, in statements of its own, and
  is told by notifications which pages to refresh. Within `web`, one goroutine
  bridges notifications to the hub, and each open page has a handler with a
  bounded channel.
* A stage's `Flush` reads other stages' tables inside the transaction:
  `packets_unique` and the rollups rehydrate from `packet_observations`, which
  is flushed last but for the anomaly stage, so they see it without the current
  batch; the anomaly stage reads the rollups with it.
* Stage memory is private to the process: a crash empties it and a failed batch
  does not touch it. Tables behave the other way round.

### What is hard to test

`PROJECT.json` lists the hazards, each at its line, with the properties that
would catch it. In short: id order against commit order; a lost or missed
wake-up; a crash or an ambiguous commit between two steps; a failed batch that
leaves traces in memory; state evicted and rebuilt from tables; time stamps out
of id order; the batch with no event in it.

## 2. Modules

| Module | Models | State and actions in terms of the code |
| --- | --- | --- |
| `RawLog` | what ingest and project share | `raw` is `raw_events` by id, `seq` the sequence, `session` and `inbox` the LISTEN connection, `faults` the fault budget |
| `Ingest` | `ingest.Run`, `InsertRawEvents`, MQTT callbacks | `ipc` is the place in the loop: `select`, `reserve` (id statement), `copy` (`CopyFrom`), `publish` (`pg_notify`), `stopped`. One action per `nextval`, because sequences are not transactional; one for the copy, which commits all rows or none |
| `Projector` | `project.Run`, `catchUp`, `Reset`, `notify.Listen` | `cursor` is Run's variable, `dbCursor` the row in `projector_state`; `Fetch` is MAX(id) and the fetch, `Process` all of `ProcessBatch` in one step; `times` counts projections of a row |
| `EventFlow` | both together | `Next` interleaves them over `RawLog` |
| `LogConsumer` | abstract specification | rows are appended in order, a consumer never steps over one, and may be rewound |
| `Events` | decoded events and shared data operations | packet, status, or a row `Decode` drops |
| `Buckets` | bucket arithmetic and stored averages | `BucketOf` is Go's `Truncate`, `StoredAvg` what `numeric(6,2)` keeps of an average, `SumOf` what a reload makes of it |
| `Decoding` | `Decode`, `parseTopicHash`, the flexible JSON types | from a row (topic, JSON fields with their form, what the frame tells) to an event; the events of `tables_crash` are decoded rows |
| `PacketObservations`, `PacketsUnique`, `RollupObserver`, `RollupNeighbor`, `Nodes`, `Observers`, `ObserverStatus` | the stages' Apply, Flush, Notify, Evict as operators on memory and tables | `...FlushMem` is what Flush leaves in memory when the given keys were written, `...Interrupted` what a rehydration that breaks off leaves there, `...FlushTable` the table it leaves in the transaction |
| `Detectors`, `Anomalies` | the three detectors over the rollups; the anomaly stage | its memory is the minute cursor and the rows emitted; a flush runs every minute it crosses |
| `Pipeline` | `ProcessBatch` opened up, with the loop around it | one action per event applied, per stage flushed, for begin, commit and the notify-and-evict tail, and the failure or crash at each of these points |
| `Projections` | what the tables promise | definitions over the projected prefix of the log, free of batches, memory and restarts |
| `Alarms` | what an anomaly means in terms of the log | the three conditions over packets, with no rollup in between |
| `Pages`, `Shown` | the page queries; what the pages owe their reader | operators on the tables; properties in terms of the log |
| `Hub` | `internal/sse/hub.go` | `subs`, `queued` and `open` are the channels; `sending` is a publication under the read lock, one subscriber per step; unsubscribing and closing are two steps |
| `LiveFeed` | the projector's announcements, the web process's session, `bridgeNotification`, `handleSSE`, `sseLive` | `place` is where a page's handler is, `lastTS` its position, `view` and `owed` are the batches its last query saw and its channel was offered |
| `Migrations`, `Partitions` | `RunMigrations`, `checkOne`; `EnsurePartitions` | statement by statement: mark dirty, run, clean; look up, create, record |
| `Startup` | the processes' main functions around both | check, check, ensure, up; the projector's six-hour timer |
| `MCEventFlow`, `MCPipeline`, `MCLiveFeed`, `MCStartup` | instances | event sets, stages, pages, calendars, symmetry |
| `EventFlowProofs` | theorems about `EventFlow`: the cursor, and what ingest stores and loses | |
| `PipelineProofs` | theorems about the loop of `Pipeline`, and what a step of it may be to one stage | |
| `ShareProofs` | theorems about the tables of `observers`, `observer_status`, `nodes` and `packet_observations`, on top of `PipelineProofs` | |
| `UniqueProofs` | theorems about `packets_unique`, on top of `ShareProofs` | |
| `RollupProofs` | theorems about the tables that count, `rollup_observer`, `rollup_neighbor`, the adverts of `nodes` and the rows of `packet_observations`, on top of `ShareProofs` | |
| `ShownProofs` | theorems about the pages over tables at rest and about the anomalies and their announcement, on top of `RollupProofs`, `Shown` and `Alarms` | |
| `StartupProofs` | theorems about `Startup` with `Migrations` and `Partitions` | |
| `LiveFeedProofs` | theorems about `LiveFeed` with `Hub` | |

`Pipeline` refines the single step `Process` of `Projector`: it assumes the log
grows in id order, which is what `EventFlow` establishes for one replica (theorem
`NoSkipHolds`), and leaves wake-ups to `EventFlow`. Both instantiate the same
abstract specification `LogConsumer`.

A definition that begins with the comment "Mutant of X" is an altered form of
`X` that no specification uses; it shows that the properties can fail.

### Abstractions

* Messages are numbers and rows carry the message that was stored, so that a
  message stored twice is visible.
* `CopyFails` decides whether the server committed at the moment the error is
  reported. A commit that becomes visible before ingest learns of the error is
  `Copy` followed by `PublishFails`: ingest gives up the batch either way.
* A notification is a token: the payload is ignored by `project.Run`.
* Ids in `Pipeline` are positions in the log. Gaps play no part there.
* In `packets_unique`, `type` stands for every field that a later value
  replaces and `src` for the one that keeps its first value. In the rollups,
  `direct_pkts` follows `flood_pkts` and the SNR average follows the RSSI
  average. Averages are in hundredths and rounded as `numeric(6,2)` does;
  float64 error is far below that and left out.
* `Blank` is a hash that is present and decodes to no byte. It is a value to the
  database and no hash to the code that tests its length.
* `told` is the number of rows announced on `meshbug_packets`, not their
  observers.
* `Reset` is counted as a fault only to bound it. It runs while the projector is
  down: it is a start-up flag.
* In `LiveFeed` a batch tells one thing and has one time, so that a row and its
  batch are one; a query sees the batches committed before it. In `Startup` a
  month is a number, a day matters only for `AddDate`, and the partitions of
  packets and raw events belong to the service that ensures them.
* A node's name stands for all that an advert describes of it. The neighbor
  rollup's SNR average follows its RSSI average.

## 3. Runs

### Passing

| Run | Question | What it shows |
| --- | --- | --- |
| `flow_single` | one ingest replica and the projector under every fault, lost commit acknowledgements included | `NoSkip`: the cursor never passes an unprojected row. `AtMostOneRow`: a failed or ambiguous insert never stores a message twice. `LossBounded`: a message that was taken is lost only with its own batch or a stopped replica. `CursorAdvances`: although a retry may start from a stale local cursor, the durable one never goes back. `ConsumesLog`: the pair implements `LogConsumer` |
| `flow_wakeup` | liveness, and counting while commits are acknowledged | `WakeupDrains`: once a notification is queued on a live session, all rows committed by then are projected, also when the backlog is longer than a batch and when the projector crashes in between. `ProjectedOnce`: no row is projected twice |
| `tables_crash` | tables and pages under crashes and resets, from undecoded rows on | rows, counters, neighbor rows and advert counts are exact, averages stay within their readings and noise floors in their bucket: memory and tables are in step after a crash at any point of a batch. `NodesPaged`, `NeighborsShown`, `LinksShown`: paging shows each node once, the pages agree with each other and with the log |
| `tables_faults` | tables under failed batches and lost acknowledgements | what survives a retry on dirty memory: no observation is missing, counters never fall short, sets are exact, the freshest advert wins, nothing is announced that is not committed, and the loop implements `LogConsumer` |
| `upserts_faults` | observers, observer_status and packets_unique under all faults | their tables are those of one uninterrupted projection, through eviction, stragglers, retries and restarts; the first status of a time stays; the foreign key between them never refuses a batch (`StatusAccepted`) |
| `alerts` | the anomaly stage behind the rollups it reads | `AlarmsExact`: a flush raises the conditions that hold in the log at the minutes it crosses, and nothing else. `AnnouncedAlarms`: what is announced is in the table |
| `web_feed` | from commit to browser, with full channels, lost notifications and sessions, failing queries and restarts of the web process | `NoSendOnClosed`, `DropsAreHarmless` (a full channel drops events and no page is the worse for it), `FeedOrdered`, `MissedOnlyLateOrCut`, and `ShownInTheEnd`: every page a notification concerns is queried anew in the end |
| `startup` | processes of two releases next to migration jobs that die | `RunsOnFullSchema` although the two schemas are checked one after the other, `RecordedExists` although calls overlap and break off, `RefusedOnlyAfterGap`: Postgres refuses a partition only if the month before had no successful call on a day both months have |

`WakeupDrains` is about notifications the session has already received; that a row is
announced at all is not promised by the code (the notification may fail, and
`Listen` does not catch up when it connects). Without a crash, a session that
breaks in between loses the wake-up, so `flow_wakeup` leaves that fault out;
`flow_single` has it, for the safety properties. `ShownInTheEnd` has the same
form for pages and names its ways out: the page leaves, the session is lost, or
the query fails.

### Violations

These runs end in a counterexample. Each states what the repository says of
itself and shows that the code does something else.

| Run | Property | What happens |
| --- | --- | --- |
| `flow_skip` | `NoSkip` | two replicas reserve ids 1 and 2, the second commits first, the projector's cursor passes 1, which is never projected |
| `flow_startup_gap` | `AllProjected` | a row committed between the initial catch-up and `LISTEN` wakes nobody, without any fault |
| `retry_rows` | `ObservationsExact` | a batch that failed is applied to the buffer it left behind and its rows are written twice |
| `partitions` | `EnsuresNextMonth` | a call on 31 January creates January and March: `AddDate(0, 1, 0)` normalises 31 February |

### Other deviations met while modelling

They are in the models as the code has them, and the properties are stated so
that they hold all the same; none has a run of its own.

* Shutdown: the batch held at SIGTERM is flushed on a context that is already
  cancelled, so nothing of it is stored (`internal/ingest/ingest.go:98`).
  `LossBounded` says that nothing else is lost.
* Retries inside a living process double the rollup counters and `advert_count`
  as `retry_rows` doubles rows, and a rehydration that breaks off after its
  first query adds the stored row twice; `RollupCountsEnough` is what remains.
* Averages drift at each reload: the sum is rebuilt from a truncated average
  and weighed with packets that had no RSSI
  (`stages/rollup_observer.go:388`); `AvgWithinBounds` remains. A noise floor is
  reloaded without its time, so an older status can replace it (`:407`);
  `FloorFromBucket` remains, and only while no batch fails: a flush that breaks
  off has marked the buckets it wrote as clean, their rows are rolled back, and
  when the batch is applied again a status is no later than itself
  (`:131-147`), so a bucket that only has that status is not written again.
* A hash that cannot be decoded is skipped in memory and counted by a reload,
  so `unique_pkts` may be one higher after a restart (`decoder.go:132`).
* A route taken from the frame reads `FLOOD` or `DIRECT`, the rollups count `F`
  and `D`: such packets are in neither counter (`decoder.go:167`).
* `Decode` strips the prefix `meshcore/` whatever prefix ingest subscribed to:
  under another prefix every row is dropped (`decoder.go:34`).
* Anomalies: a failed commit loses the minutes it had checked and announces
  rows that were rolled back, because the cursor and the emitted list move
  before the commit (`stages/anomalies.go:110`); a straggler at the first batch
  after a restart has a minute checked again; deduplication is by subject, so of
  several sources that an observer lost, or several observers at which a source
  got weaker, one is reported; a silent
  observer's baseline averages only the minutes that have a row, so one packet
  long ago makes it regular. The guard interval described in
  `anomaly_observer_silent.go:12-14` does not exist.
* The live feed skips rows with the time of the last one shown, rows committed
  late, and rows beyond its limit, though `README.md:26` has it show "every
  packet as it arrives"; its first event after a page load sends rows again
  that the page already shows; after a failed query the page stays as it is
  until the next event.
* Ingest ensures its partitions when it starts and never again: a process that
  is up for more than two months fills DEFAULT, and its restart is then refused
  (`cmd/meshbug/ingest.go:60`, `Partitions!RefuseCall`). `project -reset` drops
  derived rows only after partitions were ensured.
* Two replicas store each message twice because both subscribe to the same
  topics.
* The page of an observer that was not heard for a day fails on a NULL time
  (`internal/web/queries.go:296`). A node's page looks for packets by the first
  byte of its key, while a directly heard advert has a four-byte prefix
  (`:871`). An edge of the topology whose observer never sent a status is drawn
  from (0, 0), and one without any RSSI is missing (`LinksShown` says exactly
  which). Count and page of the node list are two statements, and the topology
  three: `NodesPaged` and `LinksShown` are about tables that rest meanwhile.

### Bounds, and why they are enough

* `MaxId`, `MaxMsg` 3 to 4, `IngestBatch` 2, `BatchSize` 1 or 2, `ChanCap` 1: a
  full batch and a partial one, two batches of ids in flight, a backlog longer
  than a fetch, and an id gap between two rows. Ids beyond `MaxId` are not
  drawn, messages beyond `MaxMsg` do not arrive.
* `MaxFaults` 1 to 3: in `flow_single` two faults of different kinds and a third
  that hits the recovery, in `tables_crash` and `tables_faults` two, in
  `upserts_faults` and `alerts`, whose logs are richer, one of each kind at any
  step. The order properties are also proved without these bounds.
* `MaxLog` 4 with `BatchSize` 2: two full batches, or up to four short ones,
  since a fetch may happen after every row. That is enough for: build a hash or
  bucket, evict it by a later event, meet a straggler, lose memory, and reload.
* Times 1 to 9, `BucketDur` 2, retentions 0 or 1: one later event evicts what came
  before. Event sets contain what the stages distinguish: hash or none, RSSI
  or none, flood or not, equal and older advert times, a status, and a row that
  `Decode` drops.
* `GrowsBetweenBatches` (`alerts`, `upserts_faults`) lets the log grow only while
  no batch is in hand. A row committed during a batch is not part of it, nothing
  in the batch reads the log, and it can be committed right after instead: the
  tables reached are the same.
* `AlarmEvents` and the rules make each detector fire and each of its
  conditions decide: a lost source with a peer that still hears it, a weaker
  one, a silent observer, a minute with a noise floor alone.
* `web_feed`: one page of the feed and one of an observer, so that a publication
  has a subscriber or none; channels of one event, so that the second is
  dropped; two batches, of equal or falling times, and `Limit` 1, so that a row
  can be late, equal and cut; two faults of different kinds.
* `startup`: three processes of two services, two starts, one death, two
  releases that differ in one schema; the calendar goes from the last day of a
  long month before a short one to the first days of the next two.
* `flow_skip` uses symmetry over the replicas: no property or action names one.
* `CHECK_DEADLOCK FALSE` throughout: with the bounds used up and the log
  drained the system rests, as the real one does between messages.

### Fairness

`FairSpec` assumes weak fairness for each replica's loop step and for the
projector's step. Both are goroutines that the Go scheduler runs again and
again as long as they are not blocked, and the calls they make return or fail.
The projector's step includes `Start`: its deployment restarts it after a crash.
Nothing is assumed of message arrival, faults, cancellation, or the restart of
an ingest replica. The
conjuncts `UNCHANGED` in `Fairness` only name the variables of the other
process. `Pipeline` has no liveness property: it leaves waking up to `EventFlow`.

`LiveFeed!FairSpec` assumes weak fairness for the bridge and for each handler:
both are goroutines whose next step is a channel operation that is possible, a
non-blocking send, or a query that returns or fails. Nothing is assumed of the
projector, of browsers, of `Listen`'s reconnect, or of faults.

## 4. Proofs

The eight modules of theorems are checked by TLAPS down to every leaf.

| Theorem | Assumes | States |
| --- | --- | --- |
| `EventFlowProofs!TypeCorrect` | | types |
| `EventFlowProofs!NoSkipHolds` | one replica | the cursor passes no unprojected row, under every fault |
| `EventFlowProofs!ProjectedOnceHolds` | commits are acknowledged | no row is projected twice, for any number of replicas |
| `EventFlowProofs!CursorAdvancesHolds` | one replica | the durable cursor goes back only by a reset |
| `EventFlowProofs!ConsumesLogHolds` | one replica | ingest and projector implement `LogConsumer` |
| `EventFlowProofs!AtMostOneRowHolds` | one replica | no message is stored in two rows, failed and ambiguous inserts included |
| `EventFlowProofs!LossBoundedHolds` | one replica | each fault costs at most one batch and one channel of messages |
| `PipelineProofs!ConsumesLogHolds` | | the batch loop, step by step, implements `LogConsumer` |
| `PipelineProofs!AnnouncedHolds` | | no more rows are announced than `packet_observations` has |
| `ShareProofs!ObserversExactHolds` | the stage is there | `observers` is the table of one uninterrupted projection |
| `ShareProofs!StatusFirstWinsHolds` | the stage is there | `observer_status` has the status logged first of each observer and time, and no other row |
| `ShareProofs!StatusAcceptedHolds` | | the foreign key refuses no row of a status |
| `ShareProofs!FreshestAdvertWinsHolds` | the stage is there | a node is described by its latest advert, the first logged of several |
| `ShareProofs!ObservationsCompleteHolds` | | no observation is missing |
| `UniqueProofs!ObserverCountExactHolds` | the stage is there | `observer_count` is exact |
| `UniqueProofs!SeenBoundsExactHolds` | the stage is there | `first_seen` and `last_seen` are exact |
| `UniqueProofs!FieldsExactHolds` | the stage is there | overwritten fields carry the last value, kept fields the first |
| `RollupProofs!RollupSetsExactHolds` | the stage is there | `unique_pkts`, `min_rssi`, `max_rssi` are exact |
| `RollupProofs!RollupCountsEnoughHolds` | the stage is there | `packets` and `flood_pkts` never fall short |
| `RollupProofs!RollupCountsExactHolds` | the stage is there, every batch is committed and acknowledged | `packets` and `flood_pkts` are exact |
| `RollupProofs!AvgWithinBoundsHolds` | the stage is there | `avg_rssi` lies between `min_rssi` and `max_rssi` |
| `RollupProofs!FloorFromBucketHolds` | the stage is there, no batch fails | `noise_floor` is one reported in the bucket, as soon as there is one |
| `RollupProofs!AdvertsCountedHolds` | the stage is there, every batch is committed and acknowledged | `advert_count`, `first_seen` and `last_seen` of a node are exact |
| `RollupProofs!NeighborsExactHolds` | the stage is there, every batch is committed and acknowledged | `packets` and the RSSI bounds of a neighbor are exact |
| `RollupProofs!ObservationsExactHolds` | every batch is committed and acknowledged | `packet_observations` is the packets of the log, in its order |
| `ShownProofs!NodesPagedHolds` | the stage is there | the pages of nodes show each node once, latest first |
| `ShownProofs!NeighborsShownHolds` | the stage is there, every batch is committed and acknowledged | the neighbors page shows what the log says of each pair |
| `ShownProofs!LinksShownHolds` | both stages are there, every batch is committed and acknowledged | the links page agrees with the log and with the observers' counters |
| `ShownProofs!AnnouncedAlarmsHolds` | the stage is there, no batch fails | an anomaly that is announced is in the table |
| `ShownProofs!AlarmsFromRollupsHolds` | the stage is there | a flush writes conditions that hold in the rollups at the minutes it crosses, and each of them unless one like it is recent |
| `ShownProofs!CountedAlarmsExactHolds` | the stage is there, every batch is committed and acknowledged, the rules' windows are whole buckets | the silences and lost receptions that a flush raises are those that hold in the log at the minutes it crosses |
| `StartupProofs!RunsOnFullSchemaHolds` | | a running service has its whole schema, whatever migration jobs do meanwhile |
| `StartupProofs!RecordedExistsHolds` | | a recorded month has its partition |
| `StartupProofs!RefusedOnlyAfterGapHolds` | | a month is refused only after no call of the month before succeeded on a day both months have |
| `LiveFeedProofs!FeedTyped` | | types, those of the rows shown included |
| `LiveFeedProofs!FeedOrderedHolds` | | in one connection rows come in the order of their times, and none twice |
| `LiveFeedProofs!MissedOnlyLateOrCutHolds` | | a row the feed has passed over was late, or cut off by a full page of rows at least as new |
| `LiveFeedProofs!NoSendOnClosedHolds` | | the hub sends on no closed channel |
| `LiveFeedProofs!DropsAreHarmlessHolds` | | an open page that is behind has an event waiting, or about to be offered |

`SingleReplica` cannot be dropped: `flow_skip` is the counterexample with two
replicas. The Helm chart's default (one ingest replica) meets it outside of a
rolling update, during which two pods overlap.

The argument for `EventFlow`. `Typed` adds to the types that ids are drawn only
for messages of the batch, without which the row written by `Copy` would have no
type. `InOrder` has three parts: `ReservedAhead`, ids reserved and not yet
written lie above every row; `CursorsCommitted`, both cursors are 0 or the id of
a committed row; `NoGap`, rows up to the cursor were projected. `NoSkip` alone
is not inductive: a copy could insert a row behind the cursor, which
`ReservedAhead` excludes, since with one replica reserving and writing cannot
overlap. `Fresh` says that the local cursor has caught up with the durable one
and nothing above it was projected, which carries `ProjectedOnce`. `Lag` bounds
how far the local cursor falls behind after a lost acknowledgement: no more
than one batch of rows. A fetch of `BatchSize` rows therefore always reaches
the durable cursor again, which is what `CursorAdvances` and the refinement
rest on. The counting uses the library's facts on cardinality.

The argument for what ingest keeps. `OnePlace`: a message that was heard is in
the channel, in the batch or in a row, and in no two of them but while a batch
that is written waits for its notification. A copy writes the batch to rows that
were not there (`RowsWritten`, from `ReservedAhead` and `Drawn`), and whatever its
outcome is, the batch is emptied before the next message is taken: that is
`AtMostOneRow`. For `LossBounded`, `Paid` charges each fault with a full batch and
a full channel; after a SIGTERM what is still held must be paid for as well,
because every flush on the cancelled context fails and costs no further fault.

The argument for `Pipeline`. `Loop` is `Lag` for positions: the durable cursor is
ahead by at most a batch, and a batch in hand ends at or behind it. `Announced`
says that the count kept by the packets stage is covered by its buffer at all
times, and by the rows the transaction adds once the stage has flushed
(`Copied`). The count outlives a failed batch, so the property is inductive only
because the buffer outlives it as well: the double rows of `retry_rows` and the
truth of `AnnouncedAreCommitted` have the same cause.

The argument for the derived tables. `StageSteps` (in `PipelineProofs`) reduces
the thirteen actions of the loop to what a step may be to one stage: nothing,
an event applied, its own flush done or broken off, a commit, a settle, or a
restart. `Reached(r)` names the position r up to which the stage's memory was
given events: at most a batch beyond the local cursor, and beyond what the
present attempt has applied (`Pass`) when an earlier attempt failed. For the
four stages whose memory is the batch's share of the rows, `MemorySays` relates
memory to the stretch of the log from the cursor to r, and `TableSays` the
table to the log up to the durable cursor. The operations keep both: applying
a position for the first time or once more, joining the two in a flush
(also when the stretches overlap, after a lost acknowledgement), starting over,
and evicting. Values that must not depend on the order of application carry the
reason in the definition: `LastNamed` says that a value given last in the
present attempt wins, and one left over from an earlier attempt only as long as
the present one has not met any. `ObservationsComplete` is an injection of
positions into rows (`Covers`), since rows may be there twice. `StatusAccepted`
follows from the order of the stages: the observers stage has written what it
shares with the buffer before the rows that refer to it.

The argument for `packets_unique`, whose memory outlives the batch. A hash in
memory goes back to a position f of its own, at which it came into memory
(`UniqueEntry`): its bounds and fields are those of the sightings since f, its
observers at least those since f and at most those of the whole log, and all of
them once it is loaded. `Touched` says that what a batch meets is marked until
the stage writes. A flush reads back what a marked and unloaded hash lacks, and
`packet_observations` still has exactly the projected packets at that moment
(`ObservationsLater`, from the order of the stages, and `Copies`). A flush that
breaks off half-way leaves some of it read and nothing marked as loaded, which
the definition allows: reading it again adds nothing.

The argument for `rollup_observer`. A bucket goes back to a position of its own
as well (`BucketEntry`), but its counters add up, so what is known of them depends
on the faults: at least the packets since f always, and exactly those as long as
every batch is committed and acknowledged, when the local cursor stays with the
durable one (`InStep`) and each position is applied once (`Once`). An average is
carried as `Averages`, 100 times the least and the greatest RSSI on either side,
a sum in memory as `Weighs`, n times each of them. Rounding a quotient and
truncating a product both keep an integer bound, which takes some lemmas about
products, since the weight read back (all packets of the bucket) is not the
weight the average was formed with (those with an RSSI). A floor in memory is in
a row or belongs to a bucket still to be written (`Noticed`). A failed batch
breaks that: its flush marks the bucket as clean before the rollback, and the
status that is applied again, no newer than itself, does not mark it. Hence the
assumption of `FloorFromBucket`. A failed batch also leaves its packets in the
counters and the retry adds them again, for which `RollupCountsEnough` states
what is left; sets, bounds and averages take the same packet twice without harm.

The argument for `AdvertsCounted` and `NeighborsExact`, whose counters add up too
and which are stated under the same assumption as `RollupCountsExact`. What the
table has counted are the positions up to the durable cursor, what memory has
counted those behind the local one (`AdvertRows`); the two stretches are disjoint
when the upsert adds them, because the cursors agree then. A crash forgets memory
and moves the local cursor back to the durable one, a reset empties both. A
neighbor in memory is either loaded, and then complete, or new in this batch, and
then it has the packets of this batch only and is dirty (`NeighborEntry`); a flush
reads the latter back and leaves all of memory loaded (`NeighborFlushed`), so that
what eviction takes away is in the row and what it leaves needs no reading.
`OnceKept` says for every stage that the steps of the loop give memory each
position once. `ObservationsExact` gives the row of a packet the packet's rank as
its number, which says the same as a filtered log without a definition by
recursion; the table holds the ranks up to the durable cursor and the buffer
those behind it (`Ranked`), and appending the one to the other keeps each rank
because cardinalities of disjoint stretches add up (`RankedJoin`).

The argument for `Startup`. `AppliedInOrder`: all migrations below a schema's
version are applied, and the one of that version too unless it is dirty; a job
that died leaves the schema dirty, which every later check refuses. A service
therefore knows at its second check what `RunsOnFullSchema` says, and since
migrations are only added and there is no way down, it stays true. For the
partitions, the months that a call has taken off its list have their partition,
and partitions only get more, so a call that returns nil leaves both its months
with one. A month that was refused has rows in DEFAULT, which stay there, so its
partition never comes: no call can have completed that covers it, which is
`RefusedOnlyAfterGap`.

The argument for `LiveFeed`. `Subscribed`: a client in the hub's map, or one that
the running publication has still to serve, has a handler, and a handler's
channel is open. It is kept because unsubscribing takes the write lock, that is,
while no publication runs. `Served`: what a client is owed is a batch the
database has, it is nothing before the stream opens, and a page that is behind
has an event queued or is about to be served. A full channel drops an event only
when others are queued; taking one leads to a query, which sees every batch
there is. `ServerTyped`, the types of the notifications, says that what is
published is a committed batch.

`Fed` says of each open feed that its position is the time of the last row sent,
that the rows sent are in order, and that a row which its queries could see and
have not sent is late or cut. It is kept because a query finds rows newer than the
position only, sees every batch committed by then, leaves out no row but those
not newer than each of a full page (`Found`), and sends what it finds oldest first.

The argument for the pages. The order of a page ends in a key that no two rows
share, so it is total, and two executions of the query agree on every position;
the pages then divide the positions among them. Where a page sums over rows, the
sum is a fold, and two folds over the same rows agree because a set at which
they differ would have a smaller one. The packets behind the rows of one pair
are disjoint sets, as each is counted in the bucket of its time, so the sum of
the rows is the count of the packets in the window.

The argument for the anomalies. A flush runs a minute after the other, each on
the rows the former has left. `Found` says of such a run that every row added
comes from a condition of one of its minutes and that every condition has a row
of its kind and subject in the window of repetition; it is carried minute by
minute, as the latest minute is folded last. `AlarmsTyped`, for every fault, types
the minutes and the list of rows emitted. `ListedAlarms` says that what is on the
list is in the table or in the transaction, and needs that no batch fails: a
failed flush leaves rows on the list that were rolled back with it, and the next
success would announce them.

`CountedAlarmsExact` goes on to the log, for the two conditions that count. A window
of whole buckets holds a packet just when it holds the bucket (`WindowHolds`), so
what the detectors add up over rows is the number of packets in the window, and
the number of rows is the number of minutes (`KeysAdd`, `RollupWindow`,
`NeighborWindow`). For that each row of `rollup_observer` must have a packet or a
noise floor of its bucket, which is an invariant of its own (`FilledInv`, under every
fault). The detectors see the rollups with the batch, as their stages come
earlier in the list (`RollupsRead`).

Only model-checked: liveness (`WakeupDrains`, `AllProjected`, `ShownInTheEnd`)
and whatever rests on ENABLED, which are out of the prover's reach; and
`AlarmsExact` for the third condition, the RSSI drop. There it cannot hold of
every value: the stored average is rounded and rebuilt from the rounded value,
so it may leave the average of the packets by some hundredths, which the
instance's readings do not do. What is proved of a drop is `AlarmsFromRollups`.

The proofs about derived tables assume of the events what `Decode` ensures
(`EventsAssumption` in `Pipeline`): an event has one of three kinds, its time and
the time of its advert are numbers after Go's zero time, and the RSSI of a packet
is a number or absent. What is absent is no number (`NoneAssumption` in
`Events`), which TLC's model values satisfy.

## 5. Not modelled

The status and reason for each part are in `PROJECT.json`.

* Configuration, connection pools and subcommand dispatch: read once, without
  state after start-up.
* The overview, the anomaly list and the pages of one node or one packet: each
  is a query of plain rows and its markup. Templates, icons, layout and the
  client-side script likewise.
* The bytes of MeshCore frames, hex strings and radio settings: the library that
  parses frames is outside the repository. `Decoding` takes what it finds.
* Backoff times and the MQTT client's reconnects appear as sessions that may
  stay down, and messages that do not come, for as long as they like. A callback
  that still runs when ingest closes its channel (`internal/mqtt/mqtt.go:173`)
  depends on that library's threads.
* Details and severity of an anomaly, `direct_pkts`, and the SNR columns, which
  repeat the rules of columns that are modelled.
* Concurrent statements of one page: `Shown` judges pages over tables at rest.

## 6. Plan

1. That a batch of `Pipeline` is one `Process` of `Projector`. A fetch of
   `Pipeline` is several steps of `Projector`, and wake-ups are left out of it, so the
   mapping needs auxiliary variables; so far both implement `LogConsumer`.
2. By how much the RSSI drop on the rollups may differ from that in the log: a
   bound on what rebuilding an average loses, per eviction.
