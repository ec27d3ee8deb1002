# A TLA+ model of rustnet

rustnet captures packets, folds them into a table of connections, attributes
and enriches them, shows them, and logs connection events.  This fork can also
store the events in a local SQLite database and upload them to an ingest
server.  This directory holds TLA+ modules translated from the source, TLC
configurations that check them on small instances, and proofs checked by TLAPS.
`PROJECT.json` maps every definition to the lines it stands for.

## Reading order

| Module | Models | Source |
|---|---|---|
| `ConnectionStates` | TCP and QUIC state transitions, terminal and closing states, timeouts (pure operators) | core `merge.rs`, `types.rs` |
| `ConnectionTracker` | the live table: packet workers, cleanup, clear, generation split | core `tracker.rs` |
| `RetainedTable` | what the tracker promises: active generations and a bounded archive (abstract) | - |
| `EventStore` | the client's event database: channel, write thread, retention, durability | `telemetry/db.rs` |
| `IngestServer` | the server's event table: idempotent ingest, purge by rows and by partitions | server `db/write.rs`, `db/retention.rs`, `db/partition.rs` |
| `EventUpload` | the upload thread and the two stores with an unreliable exchange between them | `telemetry/upload.rs` |
| `Outbox` | what event delivery promises: rows leave in id order, each after the server took it (abstract) | - |
| `PcapngExport` | the annotated packet export: processors, channel, retry queue, stop path | `app.rs` |
| `RecordQueue` | what the export promises: one bounded first-in first-out queue (abstract) | - |
| `EventLog` | which connection events are logged and in which order, on top of `RetainedTable` | `app.rs` |
| `SocketTracker` | the eBPF programs: the key each stores, the map they fill | host `linux/ebpf/programs/*` |
| `ProcessAttribution` | how a row gets its process: sockets, programs, `/proc` table, cache, sweep, enrichment thread | host `linux/enhanced.rs`, `linux/process.rs`, `linux/ebpf/*.rs`, `app.rs` |
| `ConnectionTrackerProofs`, `EventLogProofs`, `ProcessAttributionProofs`, `EventUploadProofs`, `PcapngExportProofs` | theorems about the module each is named after | - |
| `RetentionProofs`, `SideTableProofs` | theorems about the tracker's archive, and about its id map and tombstones | - |
| `OrderLemmas` | sets of natural numbers have least and greatest elements | - |
| `MC*` | instances for TLC | - |

## Inventory

**Connection tracker** (`crates/rustnet-core/src/network/tracker.rs`).
State: the live map, the historic map, the atomic `active_count`, the QUIC id
map, the `recently_closed` tombstones, the RTT tracker, the `lifecycle` lock.
Operations: `ingest_at` (by every packet processor), `cleanup` (every ten
seconds or so), `clear` (UI), retained-source reads (snapshot).  Hard: all of
these run concurrently; packets carry capture time and are processed late and
out of order; rows are archived, tuples are reused.  Correct when generations of
a tuple are kept apart, retirement is not postponed by stragglers, the counter
and the side maps agree with the table, and the archive is bounded and
immutable.

**Protocol state machines** (`merge.rs`, `types.rs`).  Pure functions on a row.

**Capture pipeline** (`app.rs`, `rustnet-capture`).  A capture thread batches
packets into a bounded channel, dropping batches when it is full; several
processors parse and ingest.  Hard: drop counters written from two places, panic
guards, shutdown.

**PCAPNG export** (`app.rs`, `export/pcapng.rs`).  Processors queue a record per
packet; one thread writes them in arrival order, holding each back until its
connection is attributed, with limits on records, bytes and time.

**Event log** (`app.rs`).  `new_connection` and `connection_closed` events, from
the processors and the cleanup thread, to a JSONL file, a PCAP sidecar and the
event database.  Hard: each thread logs after the table's lock is released, about
rows another thread may have retired or replaced.

**Process attribution** (`rustnet-host`, `process_activity.rs`).  eBPF programs
record the process of a socket call in `socket_map`; the enrichment thread looks
rows up there, in a scan of `/proc` and in a cache.  State: the map, the scanned
table, the cache and their times.  Hard: two independent pieces of code must
build the same key from a socket and from a packet, records outlive their
sockets, old ones are swept only inside lookups, and the map can fill up.

**DNS, GeoIP, OUI, Kubernetes** enrichment: caches and lookups that fill in fields
of rows.

**Event database** (`telemetry/db.rs`).  Channel of 10 000 events, batches of
100, WAL, aggregation each minute, retention cleanup each six hours, the upload
cursor.  Hard: a crash between any two steps, ids against a cursor that another
thread moves, cleanup against upload.

**Upload thread** (`telemetry/upload.rs`).  Reads the rows past the cursor,
posts them, moves the cursor when answered, backs off when not.

**Ingest server** (`crates/rustnet-server`).  Stores events once per
`(user_id, local_event_id)`, purges by retention, answers queries.  One writer
connection behind a mutex.

**Configuration and HTTP API** (`config.rs`, `telemetry/http.rs`).  A persistent
file, a `RuntimeConfig` shared behind a lock, hot-update and restart items.

**Identity, local queries, reachability probes, UI, tray, CLI, platform code**:
listed in `PROJECT.json` with the reason they are not modelled.

The hazards of each part, at their lines, are the `hazards` of `PROJECT.json`;
the properties below were chosen for them.

## The connection tracker

### State and steps

A worker (packet processor) runs `ingest_at` on one packet.  In the source it
holds the `lifecycle` *read* guard from the routing of the packet to its last
access, so other workers interleave with it while `cleanup`, `clear` and the
split, which hold the *write* guard, do not.  `pc[w]` says where the worker
stands; one step is one access to shared state:

| `pc` | step | source |
|---|---|---|
| `idle` | `BeginIngest`: take a packet, take the read guard | `ingest_at` |
| `resolve` | `ResolveConnectionKey`: follow or create the QUIC id's mapping | `resolve_connection_key` |
| `classify` | `IgnoreLate`, `RequestSplit`, `PassToActive` | `ingest_at`, the tombstone check and the generation check |
| `cap` | `DropAtCap`, `PassCap`: the limit check | `ingest_into_active` |
| `entry` | `MergeEntry`, `InsertEntry`: the map entry | `ingest_into_active`, `merge_packet_into_connection`, `create_connection_from_packet` |
| `count` | `CountCreated`: `active_count.fetch_add` | `ingest_into_active` |
| `split` | `IngestNewGeneration`: needs the write guard | `ingest_new_generation` |

`Cleanup` and `Clear` are one step each, enabled when no worker is under the
read guard.  The worker's two looks at the table in `classify` (`contains_key`
and `get`) are one step: no row is removed under the read guard
(`RowHeldByReader`), and a row created in between has the same effect as one
created before, or after, both.

A row keeps its state, creation stamp (time and the split's extra nanoseconds),
last activity, terminal time and QUIC id.  Times are ticks of `TickSeconds`;
comparisons are made in seconds with the source's constants.  A packet may be
up to `MaxLag` ticks old when it is folded in.  Iteration order of hash maps
(which of several equally old rows is evicted) is a nondeterministic choice.
`connection_close` of a QUIC row is folded into its state, since merging a close
frame always sets Draining or Closed and nothing leaves them otherwise.

Not in the model: the RTT tracker (its two side tables touch no other state),
the data fields a merge updates, and timeouts that depend on them (a TCP row
with application data, an advertised QUIC idle timeout).

### Abstract specification

`RetainedTable` states the promise: generations are opened, retired into the
archive in one step (possibly with a successor of the same key), trimmed by the
limit, or all dropped by a clear; a new generation is never one of the archived.
`KeepsRetainedTable` is the refinement, with a generation abstracted to its
`HistoricKey`.

### Runs

| Run | Instance | Shows |
|---|---|---|
| `generations` | 2 workers, one TCP tuple with SYN, ACK and RST, ticks of 15 s, lag 1 tick, archive of 2 | `GenerationsOrdered`, `HistoricImmutable`, `TerminalClockCoherent`, `TerminalClockNeverRestarts`, `NoPhantomRow`, `RowHeldByReader`, `KeepsRetainedTable`, `TypeOK` |
| `quic` | 2 workers, one connection id seen on two tuples, an id map of 1 | `IdsRouteToRows`, `TerminalClockNeverRestarts` |
| `drain` | 2 workers, 3 tuples of which one is reset and reused, limit 1, no archive; under fairness, capture stops after the second tick | `CountAccounting`, `CapOvershootBounded`, `EveryPacketLeaves`, `TableDrains` |
| `new_session` | as `generations` | **violates** `NewSessionNeverMerged` |

The bounds let the cases happen: six ticks of 15 s contain a whole life of a
tuple (a reset row's 15 s, a tombstone's 30 s, a half-open row's 60 s) and two
splits; an archive of two is filled and trimmed; two workers suffice for every
race between two accesses of one row, and with a limit of one they overshoot it
(three rows would be one too many; the theorems below are about any number of
workers).  Coarser ticks (150-200 s) make every timeout expire in one, where only the order
of events matters.  `MaxBumps` bounds the nanoseconds of rows that still take
packets.

Some properties hold under conditions that the run's constants state:

- `GenerationsOrdered` (and so `HistoricImmutable`, `KeepsRetainedTable`) needs
  packets to be processed no later than the shortest cleanup timeout, 15 s, after
  capture (a later one can open a row stamped before the archived one), and the
  limit out of reach (if the successor of a split is dropped, an older packet may
  open the next row).
- `IdsRouteToRows` needs the connection limit out of reach: a packet dropped at
  the limit has already been mapped.
- `NoPhantomRow` speaks of generations closed within the tombstone time less the
  lag: cleanup dates and expires tombstones on the wall clock, while the split
  dates them, and packets are compared, by capture time.  It needs room for the
  tombstones.
- In `drain`, `MaxLag` equals `MaxClock`, so that the bound on a packet's age
  never blocks the clock.

Rows over the limit stay until they time out; `CapOvershootBounded` bounds how
many there can be.

### Fairness

Threads run: weak fairness for a worker's steps under the guard and for the
clock.  The write guard is free only now and then; `std::sync::RwLock` (futex
implementation) parks new readers behind a waiting writer, which justifies strong
fairness of `IngestNewGeneration` and `Cleanup`.  Workers need not take another
packet, and `Clear` need never happen.

### Finding: a new session merged into a closed connection

The generation check and the merge are separate accesses.  In the trace of
`new_session` there is no row at first.  Worker 1 takes a RST through the check
and the limit; worker 2 takes a SYN through the check, which finds no row either;
worker 1 creates the row, which its RST makes `Closed` at once; worker 2 merges its
SYN into the closed row, where `is_closing_or_terminal` was meant to make it start
a new generation.  A row that was open at the check, and that the other worker's
RST closes before the merge, ends the same way in longer behaviours.

## Event delivery

### State and steps

`EventStore`: `Accept` (try_send, dropped when full), `TakeEvent` (write
thread), `FlushBatch` (one transaction; any subset of the inserts may fail, or
all with the commit, and the batch is cleared regardless), `RunCleanup`,
`AdvanceCursorTo`.  `synced` is the image of the database that survives a power
loss: WAL with `synchronous=NORMAL` does not sync at each commit, while the
upload thread's own connection keeps SQLite's default FULL, so its cursor
update syncs the log.  `Checkpoint` may sync at any time.  `Restore` is a new
process: queue and batch are gone (also after an orderly exit, since nothing
joins the write thread), the configuration is read again.

`IngestServer`: `IngestWrite`, one transaction for a request, rows unique by
local id, first one kept; `PurgeExpired`, which compares as text, or, once the
file has reached `PartitionThreshold`, only drops monthly tables.  The size is
counted in rows and never shrinks (a SQLite file keeps its pages).

`EventUpload`: the upload thread (`PostBatch`, `AdvanceCursor`, `PostFails`) and
the exchange.  A post may be processed and answered (`Ingest`), processed and the
answer lost (`Ingest` then `PostFails`), never arrive, or arrive after its sender
gave up (`IngestLate`).  `Restart` and `PowerLoss` may interrupt anywhere.

Abstracted: back-off times, the fields of an event, the server's host registry
(its counter adds duplicates again), one installation only.  Retention is counted
in days.  `received` is a history variable: rows ever taken by the server, so that
its purge does not count as a loss.

### Abstract specification

`Outbox` states the promise without cursor, batches or a durable image: rows are
written behind those that wait, under ids that nothing on its way and nothing on
the server has; what travels may be lost, repeated or late; rows leave from the
front, each after the server took it (or, once a machine has lost power, a row of
its id), and are given up only while the client does not send.  `KeepsOutbox` is
the refinement: the outbox are the rows past the cursor, what travels is the
request in hand and the abandoned ones.

### Runs

| Run | Shows |
|---|---|
| `upload` | 3 events, channel and batches of 2, 2 restarts of which one may be a power loss, one late request, under fairness: `CursorCoveredUnlessOutage`, `OneEventPerId`, `IdsInOrder`, `NewRowsPending`, `KeptUntilUploaded`, `CursorNeverMovesBack`, `KeepsOutbox`, `UploadCatchesUp`, `TypeOK` |
| `power_loss` | **violates** `CursorCovered` |
| `purge` | **violates** `PurgeKeepsRetained` |
| `partitions` | the threshold at one row, the cleanup task fair: **violates** `ExpiredRowsLeave` |

Three events give two batches to the store and two to the upload; two days make
rows expire at retention 0 and not at the server's 1; one late request is enough
to cross with its own retry and with a later batch.

Fairness: the upload thread runs (weak fairness of `PostBatch`); a post that is
tried over and over succeeds in the end, and so does the cursor update (strong
fairness of `Ingest` and `AdvanceCursor`): the network and the disk are not
broken for ever.  `UploadCatchesUp` only speaks of behaviours in which uploads
stay enabled.

### Findings

- `power_loss`: rows are committed, posted and stored; before anything syncs the
  log the machine loses power; rows and the AUTOINCREMENT mark go back; the next
  event takes an id the server knows, is dropped as a duplicate, and the cursor
  passes it.  Advancing over duplicates is safe only if an id means one event.
- `purge`: `ts` holds milliseconds as text, the cutoff is an RFC 3339 date;
  the purge takes every row.
- `partitions`: from a certain file size on the purge drops monthly tables only,
  but writes never go to one; a row that has expired stays.

## Packet export

### State and steps

`PcapngExport` follows a packet from its processor into the file.  A processor
folds it in (`Ingest`, `IngestKeyless`), looks its row up again for the creation
time (`LookUp`), and offers the record to the bounded channel (`Send`); each is a
step of its own, since the source holds no lock across them.  The export thread
receives a record, queues it, flushes the front of the retry queue while it is
ready, and enforces the limits (`Receive`, `FlushFront`, `FlushEnds`,
`EnforceLimits`), scans every 50 ms (`RetryScan`), and on the stop path drains the
channel and writes the rest (`LeaveLoop`, `DrainEnds`, `Finish`).  `ex_pc` is its
place in the loop; one written record is one step, so the table may change
between two records of one flush.

The connection table is reduced to what the export reads: which generation owns a
tuple, which stands for `created_at`, and whether it is attributed.  Any packet
may open a generation here; `ConnectionTracker` says when one does.  The file is
kept as the sets of record numbers written and failed and the block written last.
Abstracted: the PCAPNG format, comment fields, statistics.

### Abstract specification

`RecordQueue` states the promise without threads: one queue of bounded length, at
whose end a packet is numbered and put; only the front leaves, unchanged, written
or given up, and a comment is about the generation the packet was queued under.
`KeepsRecordQueue` is the refinement: the queue is the retry queue with the
channel behind it, so moving a record from one to the other is no step of it.

### Runs

| Run | Shows |
|---|---|
| `export` | 1 processor, 1 tuple with 2 generations, 3 packets of 1 or 2 bytes, channel of 1, retry queue of 2 records and 3 bytes, under fairness: `ArrivalOrder`, `RetryBounded`, `CommentFromQueueTime`, `KeepsRecordQueue`, `RecordsLeave`, `ExportEnds`, `TypeOK` |
| `export_reuse` | the same with 2 processors: **violates** `CommentFromOwnConnection` |

Three packets overflow the channel and reach each limit separately (three records
of one byte; two of two bytes).  One processor is enough for the properties of
`export`, because records are numbered when they enter the channel and every
generation change a second processor could cause may happen between the first
one's own packets or through `Archive`; the finding needs the second.

`main` calls `App::stop`, which only stores the flag, and returns; no thread is
joined.  `ProcessExits` is that end: it may come at any moment after `Stop`, and
nothing moves afterwards.  `RecordsLeave` and `ExportEnds` except it, since what
the export thread still holds is lost then.  What `ExportEnds` says is that the stop
path itself cannot hang or leave a record behind, with processors still sending and
deadlines far away.

Fairness, as long as the process lives: the export thread runs and time passes.
Nothing is assumed of the processors.  The thread's wait for a link type is assumed to end: packets only
flow once it is set.  Records that reach the channel after the thread's last look
at it are left there; `RecordsLeave` excepts the end of the thread.

### Finding

A processor folds in the last packet of a generation; before it looks the row up
again another processor's packet splits the row; the record carries the new
generation's creation time, and the check that guards annotation accepts it
(`export_reuse`).  The record should take the creation time from the ingest
itself.

## Event log

### State and steps

`EventLog` uses the connection table by its promise: its table is an instance of
`RetainedTable`, which `generations` checks `ConnectionTracker` to implement.  A
packet worker in `update_connection` passes the limit and inserts (`PassCap`,
`Insert`), or splits (`Split`, `SplitDropped`); then, no longer under the
tracker's lock, logs the archived predecessor (`LogSplit`), looks the row up
again by its key (`LookUp`) and logs what it found (`LogNew`).  The cleanup thread
retires rows in one step and logs them one by one (`Sweep`, `LogRemoved`); it
reads `should_stop` only at the top of its loop (`LeaveLoop`).  `Clear` empties
the table and logs nothing.  After `Stop` the process may end at any moment
(`ProcessExits`), with threads still between the table and the log.

`look_up` to `log_new` holds the row's guard (a `DashMap` reference is alive while
the event is written), so steps that remove that row wait (`RowsHeld`).

### Run

`event_log`: 2 workers, 2 keys, a limit of one row, 3 generations (an
open, a split and a reopening), under fairness.  `ClosedComesLast`,
`NoEventForgotten`, `StayingIsAnnounced`, `ClosesLogged`, `TypeOK`.  With one slot for two keys both
workers insert, each key is dropped at the limit, and a split finds the table
overfull.  Fairness: while the process lives, a thread that is about to log is not
suspended for ever (weak fairness of a worker's own steps and of `LogRemoved`); nothing is assumed
about packets, sweeps, clears or the stop.  Deadlock is not checked: the process
may end.  `StayingIsAnnounced` and `ClosesLogged` except that end: a close that the
cleanup thread has yet to write then is lost.

What does not hold, and why the properties do not say it: a generation that
leaves early may never be announced, and its successor then twice, since two
workers look up the same row; closes of successive generations may be logged out
of order by two threads; the predecessor of a split whose successor is dropped at
the limit is archived without an event, since `update_connection` returns on
`dropped` before it looks at `archived`.  The model has that case and sets those
generations apart (`passed_over`); no property covers them.

## Process attribution

### State and steps

`SocketTracker` is the eBPF C code.  An operator per program gives the key it
stores for a socket and a `sendto` destination; `FentryConnectKeys`,
`KprobeConnectKeys`, `AcceptKeys`, `SendKeys`, `PingV4Keys`, `PingV6Keys` list the
programs that run in one kernel call, in order, for each of the two backends.  A
dual-stack socket has the IPv6 family and mapped addresses; the programs decide by
the peer.  `store_connection` overwrites, and is refused when the map is full.

`ProcessAttribution` composes it with the rest.

| Step | Code |
|---|---|
| `Open`, `Close` | a process opens or closes a socket; nothing is traced |
| `Call` | the traced kernel call returns: the attached programs store |
| `Packet`, `RowGone` | a row appears for the flow's tuple, or is retired |
| `StartCleanup`, `DeleteStale` | `maybe_cleanup_ebpf_map` inside a lookup: collect, then delete |
| `Attribute` | `get_process_attribution`: cache, eBPF, `/proc`; the row takes the answer |
| `Refresh`, `RefreshFails` | the enrichment thread's refresh of table and cache |
| `Tick` | time passes |

`try_load` gives the backend and the capabilities from what the environment
allows; each behaviour starts with one.  A row's packet may be seen before the
record is stored (`MayBeSeen`: an fexit program runs when the SYN is out).

Assumed: no two processes share a local port, a lookup is short against a tick,
system calls on the map succeed, and the enrichment thread's `iter_mut` keeps the
row it works on.  Names and credentials of a process are left out: a process is
its id.

### Run

`attribution`: two processes, the nine shapes of flow the code tells apart (IPv6
and dual-stack connects, a dual-stack accept, sends with and without a destination,
both pings, forwarded traffic), three kernels (fentry with pings, kprobe without,
none), a map of two records, intervals of one tick, at most two sockets, on one
tuple, under fairness.  `RecordedFlowsFound`, `AnswersRecent`, `CacheAnswersFresh`,
`StaleRecordsLeave`, `TypeOK`.  A wrong answer needs an earlier use of the *same*
tuple, so sockets of one tuple are the interesting ones (shapes share tuples: an
accept, a connect, a wildcard send); a send of a dual-stack socket stores two
records and fills the map of two.  Flows of different tuples meet only in the
capacity of the map, which the two records of one send reach.

Fairness: the thread passes over the rows every two seconds and time passes (weak
fairness of `Enrich` and `Tick`).  Sweeps happen only inside lookups:
`StaleRecordsLeave` says that as long as some row is without a process the old
records go, and with nobody asking nothing sweeps.

Not promised: an answer may be an earlier user's (nothing is removed at close),
within the age `AnswersRecent` and `CacheAnswersFresh` bound; and a bound socket's
old record, tried first, hides the wildcard record of an unbound socket on the
same tuple (the exception in `RecordedFlowsFound`).

## Proofs

Each proof module holds for every value of the constants that the module's named
assumptions allow.  The pattern is the same in all: one inductive invariant, one
lemma per action (under it one step per conjunct the action can disturb), a
theorem `Inductive`, and the properties as consequences.  In the export and the event
log the invariant is proved for the threads' steps (`Step`); the end of the process
moves none of their variables (`WhileLiving`).

| Module | Theorem | Property |
|---|---|---|
| `ConnectionTrackerProofs` | `TypeCorrect` | `TypeOK` |
| | `CountersAgree` | `CountAccounting` |
| | `OvershootBounded` | `CapOvershootBounded` |
| | `ClockCoherent` | `TerminalClockCoherent` |
| | `ClockNeverRestarts` | `TerminalClockNeverRestarts` |
| | `RowHeld` | `RowHeldByReader` |
| | `OneWorkerNeverMerges` | `NewSessionNeverMerged`, with one worker |
| `RetentionProofs` | `GenerationsInOrder` | `GenerationsOrdered` |
| | `ArchiveImmutable` | `HistoricImmutable` |
| | `ImplementsRetainedTable` | `KeepsRetainedTable` |
| `SideTableProofs` | `IdsLeadToRows` | `IdsRouteToRows` |
| | `NoPhantom` | `NoPhantomRow` |
| `EventUploadProofs` | `TypeCorrect` | `TypeOK` |
| | `IdsFollowEvents` | `IdsInOrder` |
| | `IdsMeanOneEvent` | `OneEventPerId` |
| | `NothingPassedOver` | `CursorCoveredUnlessOutage` |
| | `CursorMonotone` | `CursorNeverMovesBack` |
| | `NewRowsArePending` | `NewRowsPending` |
| | `NothingGivenUp` | `KeptUntilUploaded` |
| | `ImplementsOutbox` | `KeepsOutbox` |
| `PcapngExportProofs` | `TypeCorrect` | `TypeOK` |
| | `InArrivalOrder` | `ArrivalOrder` |
| | `CommentsOfTheirTime` | `CommentFromQueueTime` |
| | `RetryMemoryBounded` | `RetryBounded` |
| | `ImplementsRecordQueue` | `KeepsRecordQueue` |
| | `OneProcessorOwnComments` | `CommentFromOwnConnection`, with one processor |
| `EventLogProofs` | `TypeCorrect` | `TypeOK` |
| | `ClosesLast` | `ClosedComesLast` |
| | `NothingForgotten` | `NoEventForgotten` |
| | `AnnouncesLiveRows` | (a `new_connection` is logged while the row is in the table) |
| | `KeepsItsTable` | (the table under the log behaves as `RetainedTable`) |
| `ProcessAttributionProofs` | `TypeCorrect` | `TypeOK` |
| | `RecordedFound` | `RecordedFlowsFound` |
| | `RecordsRecent` | `AnswersRecent` |
| | `CacheFresh` | `CacheAnswersFresh` |

**Tracker.**  Types are not inductive alone: `active_count - 1` and
`active_count - Cardinality(removed)` stay natural only because the counter
accounts for every row, and the packet and route of a worker are defined only by
where it stands, so `IInv` says what each `pc` knows.  The overshoot bound is not
inductive either: it is strengthened to a *room* statement that counts the workers
past the limit check together with the rows.

**Tracker: archive and refinement.**  Assumed: packets are folded in within 15 s of
capture (`Timely`) and there are no more tuples than `max_connections`
(`RoomForAll`); the run `generations` satisfies both.  The inductive statement is
`Older`: an archived generation was created before the live one of its tuple or,
when there is none, before any packet that may still come.  A row that timed out is
older than that because the shortest timeout exceeds the lag, a split one because
its successor is stamped after it.  Every step then opens, splits, times out or
clears rows, or leaves generations alone (`TableStep`), and each of these is a step
of `RetainedTable`; that trimming keeps the same number follows from archived
generations and their stamps being one to one.

**Tracker: ids and tombstones.**  `IdsLeadToRows` assumes `RoomForAll`.  Only a
worker past the resolution of its id vouches for a mapping without a row (what a
worker read before it waited for the guard may be stale), and every removal takes
the ids that lead to the row with it.  `NoPhantom` assumes room for a tombstone of
each tuple (`TombstonesForAll`): a terminal generation leaves a tombstone no older
than itself when it is archived, and a worker that found neither row nor tombstone
under the guard still holds the guard when it inserts.

**Event delivery.**  What the upload thread has posted stays, as long as its
process lives, a beginning of the rows past the cursor (`Posting`), although the
write thread appends and the cleanup deletes meanwhile; so moving the cursor to
its largest id passes nothing that was not posted.  The durable image always has
the cursor of the live database (`Durable`), hence a power loss takes rows and ids
back but never the cursor.  Ids follow events in the database, the batch and the
queue (`Ordered`, `Numbered`), and without a power loss an id means one event in
all the places a row can be (`Unique`).  That a set of rows has a smallest id comes
from the well-founded order of finite subsets (`OrderLemmas`).

For the refinement of `Outbox` each step is mapped: a flush writes (`Durable` and
`Unique` make its ids new), a post or its failure sends, both ingests deliver, the
cleanup expires or, with uploads on, leaves the rows past the cursor alone, and
moving the cursor confirms: the rows it passes were posted (`Posting`), so the
server has their ids, and while an id means one row (`Unique`) the rows themselves.
A power loss ends the trust in ids, which is all that `Outbox` asks of it.

**Packet export.**  Record numbers form one line through what is out, the retry
queue and the channel (`InLine`).  The byte counter is a sum over the queue, added
to at one end and subtracted from at the other; the invariant says that a list of
partial sums exists whose first entry is the counter (`Weighs`).  That the model's
recursive sum (`BytesOf`) is that list's first entry needs induction over the
queue; the induction theorems of the library are out of reach, so the proof takes
the greatest position at which the two would differ (`OrderLemmas`) and finds that
they agree there.

For the refinement of `RecordQueue` the two queues are joined and time taken out of
the records; a record that passes from the channel to the retry queue leaves the
join alone, and so does the clock.

**One processor.**  `NewSessionNeverMerged` and `CommentFromOwnConnection` are
violated with two processors.  `App` starts as many as the machine has cores, up to
four (`app.rs:1195`); with one both hold, which shows that the second
processor is the whole cause.  What the worker found at the check stays true up to
the merge (`StillSameSession`), and the row looked up for the export is the one
folded into (`OwnGeneration`).

**Event log.**  A generation passes from the table to the thread that retired it,
and from there into the log.  The invariant says that these are different places
(`Apart`), that a new generation has been in none of them (`Fresh`), and that a
worker past the limit check will find a number for its generation (`Room`).
`NoEventForgotten` needs one fact more, that a key has one row (`OneRow`): a worker
that looks a row up by its key then finds the one it owes an event, or one that a
later worker opened in its place.
`KeepsItsTable` closes the circle with the tracker: what the threads do to the
table between them are steps of `RetainedTable`, because a successor's number is
above those of all live rows (`Fresh`).

**Process attribution.**  `KeysAgree` is a fact about two translations: for every
family, call and backend the key that the program stores is one that the lookup
with the tuple of the packets tries.  The invariant adds that the record there is
still its owner's, since every key carries the local port (`KeysCarryPort`) and no
two processes share one (`PortsOwned`).  Assumed of the kernel: a flow's socket
and packets agree (`FlowsAssumption`).  For the ages: a sweep leaves nothing older
than the threshold, so a record exceeds it by at most the time since the last
(`RecordAges`), and a cached answer is no older than the last refresh
(`CacheAges`).

**Types of attribution.**  `socket_map` stays within its capacity because what the
programs store are keys of the map's type (`KeysTyped`) and the map is finite; the
thread holds a row exactly while it is in a lookup.

**Model-checked only.**  Liveness, which is out of the prover's reach:
`EveryPacketLeaves`, `TableDrains`, `UploadCatchesUp`, `RecordsLeave`, `ExportEnds`,
`StaleRecordsLeave`, `StayingIsAnnounced` and `ClosesLogged`.  `NoEventForgotten` is
the safety half of the last two: what they add is that a thread that is about to
log does so.  Every other property of a passing run is a theorem.  The properties
that the runs find violated are not theorems, but for the two above.

## Not modelled

- The handwritten eBPF C is mapped to the last program.  The other C files,
  `resources/ebpf/vmlinux/*/vmlinux.h`, are kernel type dumps generated by bpftool
  (150 000 lines of declarations and no code); the model takes from them the few
  `struct sock` fields the programs read.
- Attribution outside the eBPF and `/proc` lookups: names, executables and
  credentials (a cached name of a reused pid, `linux/process.rs:129`), the
  Kubernetes walker, the activity window, and the macOS, Windows and FreeBSD
  lookups, which answer from one system call or table each.
- The RTT tracker, TCP analytics, rates, QUIC CRYPTO reassembly: algorithms on the
  data of one row, which no property of the table depends on.
- The packet channel and drop statistics, the snapshot's merge, aggregation, the
  schema, the configuration and its copies: state of their own; see the plan.
- Parsers, queries, probes, UI, command line, platform glue: no state that
  interacts, or pure input and output.

## Plan

1. Done: tracker and state machines, event delivery, packet export, event log,
   process attribution, server partitions, findings; three abstract
   specifications with their refinements; every safety and action property of
   the passing runs as a theorem.
2. Left to prove: what `Outbox` and `RecordQueue` imply on their own (order of
   delivery, no second write), so that a reader may reason from them alone.
3. The packet channel and its drop counter, the snapshot's two maps; `PUT /config`
   and the copies of `RuntimeConfig`; aggregation.
4. Algorithms against reference definitions: RTT tracker, QUIC CRYPTO
   reassembly, TCP analytics, rate tracker.
