# Verification of Mensura

TLA+ models of Mensura's own logic, TLC runs that check them on small
instances, and TLAPS proofs of the results that matter most. Line numbers are
those of the sources under `src/`; `PROJECT.json` maps each definition to them.

## 1. The system

Mensura stores log-derived samples. Ingest processes turn log lines into
samples and push them over HTTP to a store built on an embedded key-value
engine; Grafana and the command line query it.

| Part | State it keeps | Operations | Talks to |
|---|---|---|---|
| Local follow (`internal/ingest/follow.go`) | one tailer per path: read offset, published offset, in-flight snapshot, acknowledged offset, frozen and rewind flags, fingerprint | sweep, read, rotate, retire, idle flush, shutdown, recovery | sink (`Add`, `Flush`), delivery callbacks, checkpoint files |
| Checkpoint store (`checkpoint.go`) | one resume record per path | atomic `Save`, `Load` | follow, remote follow |
| Sink (`sink.go`) | buffers per set, counters, hold, body budget, declarations | `Add`, `Flush`, `Close` | wire client; observers |
| Wire client (`pkg/wire`) | none between calls | one write with bounded retries | store HTTP API |
| Extraction (`pkg/extract`) | open windows and their holds on the read offset | process a record, expire, flush | follow, remote, receivers |
| Receivers (`receive.go`) | one stream per sender, a datagram queue | accept, extract, evict, tick, drain at shutdown | extraction, sink |
| Remote follow (`remote.go`) | sessions over SSH, offsets | reconnect, resume | sink, checkpoint files |
| Store (`internal/store`) | catalogue and its version, label dictionaries, idempotency keys, retention and shard settings | write, query, retain, reclaim, save, close | engine |
| Store HTTP API (`store/http.go`) | body budget, write slots | admit, write, drop, catalogue with ETag | store |
| Engine (`internal/engine`) | set records in memory and on disk, next id, rows under an id | put batch, drop set, expire, scan, flush, open | the Pebble key-value library |
| Query (`store/query.go`, `pkg/mql`, `pkg/render`) | none | parse, scan, bucket, render | store, engine |
| Grafana plugin, commands | configuration | request mapping, wiring | store |

Hard behaviours, each listed with its line under `hazards` in `PROJECT.json`:

* A flush runs beside the goroutine that reads a file, and may run inside its
  `Add`. A sample can be queued, sent and stored - or lost - before the offset
  it came from is published.
* An outcome applies to what was snapshotted when the batch was taken, and
  arrives after the offsets have moved on.
* A record inside an extraction window has no sample yet.
* Files are renamed, removed, truncated and rewritten between two sweeps.
* The process stops or crashes at any step; saves are rate limited and may fail.
  After a cancellation a full sink turns samples away.
* The cap of the sink is checked in one critical section and used in another.
* A request may be committed and its answer lost; a retry sends it again.
* The engine resolves the id of a set, records its schema and applies the rows
  in three steps; drops, expiry, scans and a crash fall between them.
* A write interns its labels and puts its rows later; retention scans the rows
  and blanks the labels it did not see.
* A write declares, checks, puts, describes and remembers its key under
  different locks; drops, sweeps, saves, retries and the stop fall between.
* A query plans on the shards and labels of one moment and reads shard after
  shard while rows arrive, the shard width changes and retention drops shards.
* The position a stream may acknowledge depends on joined records and windows
  that open and close out of order.
* A receiver evicts a sender that still holds records, and at shutdown has to
  wait for connections, requests, a queue and a ticker, in order.

What makes each part correct: *follow* - a resume record never covers a record
the store lacks, and every record is stored in the end, both but for the
exceptions named in section 3; *sink* - nothing
handed over is lost or doubled silently, an acknowledgement covers the whole
backlog up to the mark, memory stays bounded, nobody waits for ever;
*store* - an accepted sample can be queried under the names it was written
with until retention removes it, a retry writes nothing twice, and an answer
has every row that was there all the time; *extraction* - reading again from
the held position leaves nothing out, and gives the same rows where the clock
had no part in them; *receivers* - what was taken is in the sink before its last
flush or refused by name, and shutdown ends; *engine* - no row is left under an id that no
set records, an acknowledged row is found, and a scan sees one set only.

## 2. Modules

| Module | Models |
|---|---|
| `Delivery` | what the sink promises to its feeders: an abstract specification |
| `Follow` | local follow and the checkpoint store, over `Delivery` |
| `Sink` | the sink, step by step; implements `Delivery` |
| `Tables` | what the engine promises to the store: an abstract specification |
| `Engine` | the engine, over a key-value store that fails and crashes; implements `Tables` |
| `Dictionary` | the label dictionaries: interning, reclaiming, loading |
| `Catalogue` | the write path, the catalogue and its saves, drops, sweeps, close and start |
| `Query` | shards, retention and queries of one set |
| `Render` | the downsampling walk, as operators; used by `Query` |
| `Extract` | one extraction stream: joined records, windows, holds |
| `Receive` | the listeners, eviction, tick and shutdown |
| `MC*` | the small instances |
| `FollowProofs` | types, acknowledged offsets, retired files and resume records of `Follow` |
| `SinkProofs`, `EngineProofs` | the invariants of `Sink` and `Engine`, and their two refinements |
| `ReceiveProofs`, `CatalogueProofs`, `DictionaryProofs` | the invariants of these three |
| `QueryProofs` | retention, plans, answers, limits and drawings of `Query` |
| `ExtractProofs` | where lines end in `Extract`, when windows do, and the position that may be acknowledged |

`Follow` runs over `Delivery`, which `Sink` implements; `Engine` implements
`Tables`. `Follow` sees extraction through `Shape`, of which `Extract` is the
detail; `Receive` sees it as what a record does to the stream of its sender.
`Catalogue`, `Dictionary` and `Query` are three views of the store, each with
the locks and the interleavings its properties need; `safe` in each is the
promise of the engine that `Tables` states.

### Delivery

Six variables: what waits (`queue`), the request in progress (`flying`),
whether it took the whole buffer (`whole`, hence was announced by
`BeginFlush`), `hold`, and what the store has (`stored`) or the sink gave up
(`dropped`). A request ends in `Accept`, `Requeue` or `Drop`. `Commit` is the
store's own step and may precede any of the three: a commit whose answer is
lost is followed by `Requeue`.

### Follow

A file is a row of records and offset `n` means "the first `n` records are
consumed". A path goes through contents 1, 2, ...; a fingerprint is the
content it was taken of and its width. A sample is the set of records it was
made from, so a window is one sample of several records. `Shape` says what
extraction makes of a record: a sample of its own, part of the open window,
the end of one window and the start of the next, or nothing.

`tl[p]` is the tailer of `p`: `off`, `pend`, `infl`, `ack`, `holed`, `rewind`
are the fields `offset`, `pending`, `inflight`, `acked`, `holed`, `rewind`;
`fpc`, `fpw` the fingerprint; `win`, `from` the extractor's open window and
the offset it holds; `owed`, `cpack`, `cptail` the save owed and the
checkpoint it would write; `base` the content its offsets count, which
differs from `file`, the content the handle shows, only after a rewrite the
sweep has not noticed yet. `job` is the position of the poll goroutine, and
`disk[p]` the resume record. The steps are those at which another goroutine
or a crash can intervene: `ReadRecord` queues samples, `Publish` moves the
offset, and a flush between them is a separate step.

`stop` says whether the sink gave up or the context was cancelled. `HandOver` is
`Sink.Add` for the samples of a step: once the context is cancelled it may turn
any of them away (`waitRoom` of a full buffer), and the callers - `read`,
`drainExtractor`, `drainFinalRecord`, `flushIdle`, `closeAll` - publish the
offset all the same. `refused` are the records of such samples, `slipped` those
of a batch lost before its feeder was frozen, and the head of a rewritten file
that an owed save of the old offset will skip (`RestartRead`).

| Actions | Code |
|---|---|
| `Ensure`, `Sweep`, `Unmatched`, `Reloaded` | `ensure`, `poll`, `checkRotation`, `noteRotated`, `retireUnmatched`, reload |
| `ReadRecord`, `Publish`, `ReadDone`, `PersistOwed` | `read`, `syncPending`, `atEOF`, `persistOwed` |
| `Drain`, `FlushIdle`, `DrainPublish` | `drainExtractor`, `drainFinalRecord`, `drainOrDiscard`, `flushIdle` |
| `RestartRead`, `CloseKeeping`, `CloseRewinding`, `RetireSave` | the ends of `checkRotation` and `closeTailer` |
| `Cancel`, `Shutdown` ... `ShutdownSave`, `Crash` | the context, `closeAll` on it, final flush on a live one, exit |
| `Start`, `Recover`, `RecoverSave`, `Recovered` | `recoverRotated`, `finishRotated` |
| `FlushTake`, `FlushAccepted`, `FlushRequeued`, `FlushDropped`, `MetaRefused` | `BeginFlush`, `EndFlush` around a request of the sink |
| `Append*`, `Rotate`, `Remove`, `Create`, `Rewrite` | the owners of the files |

### Sink

`buffers`, `pending`, `inflight`, `metaQ`, `hold`, `budget` are the fields of
the same meaning. `snd` is the `Flush` holding `sendMu`, one stage per lock
region or call: take declarations, take samples, request, outcome, release.
`writer[w]` says where a goroutine is inside `Add`: `waitRoom` and the append
are two steps. `mark` and `acked` stand for every observer at once:
`BeginFlush` marks all that was handed over, `EndFlush` acknowledges the mark.
Body sizes are small numbers; a 413 is decided by `StoreLimit`. A request, like
the buffers, is samples by set, so that a requeue puts each run back before
what waits; `TakeLocked` is the longest run over the sets in order that fits
the budget, and at least one sample. `Count` counts what `pending` and
`inflight` should.

### Tables and Engine

`Tables` has three variables: the rows of each set (`table`), what a crash
would leave of them (`kept`), and the call each client is in (`asked`). A call
takes effect at one moment or fails; `Keep` makes the present durable and
`Fall` goes back to `kept`.

In `Engine`, `sets` is `DB.sets` in memory, with the id, the known columns and
whether a record is still to be written; `disk` the key space (set records,
id mark, rows keyed by id) and `safe` the part a crash leaves, a prefix of the
writes in order. `op[c]` is where client `c` is inside a
call, and `acked` the rows a client was told are stored.

| Actions | Code |
|---|---|
| `Lookup` (`CreateSet`, `WidenSet`), `Persist`, `Apply` | `PutBatch`, `setLocked`, `persistSet` |
| `DropSet`, `DropApply` | `DropSet`: out of memory under `mu`, then the batch |
| `Expire`, `ExpireApply` | `DeleteOlderThan`: collect, then delete |
| `Scan`, `Read` | `QueryBuilder.Run`, `Iter` |
| `Flush`, `Close`, `Crash`, `Open` | `Flush`, `Close`, the end of the process, `Open` with `loadMeta` and `loadNextID` |

The three durability profiles decide which writes are durable at once:
set records in all but `batch`, rows in `paranoid` only; a synced write makes
the earlier ones durable too.

### Dictionary

`dict[l]` is the `dictionary` of label `l`: entries, index, alias, free list
(a set, since it is kept ascending and the lowest position is taken first) and
live count. `disk` has its two forms, one record per value and the packed
array of older builds, and the rows; `safe` is what a crash leaves. `req[w]` is
a row that `rowFor` has built and `Write` has not yet put. `sweep` is one run
of `RunRetention`: rows go (`Retain`), the keys and shards are listed
(`ReclaimBegin`), each shard is scanned (`ReclaimScan`), and the unused
positions are blanked under the lock (`ReclaimBlank`). That can fail at the
delete of any record, which leaves the index of that label as it was, or at the
read or the write of the packed array; the labels before the failure are done.

`mark` on a row is bookkeeping of the model, not of the code: the row was put
behind the sweep's back, was on its way when the sweep blanked, or took its
position from an index that a failed reclaim left stale. `RowResolves` and
`RestartResolves` are about all other rows (see Known exceptions).

### Catalogue

`cat`, `over`, `ver` are `Store.catalogue`, `setRetention`, `catVer`; `idem`
and `claims` the two halves of the idempotency cache; `disk` and `safe` the
record and the rows, now and after a crash; `bytes`, `slots`, `held` the limits
of the API. `op[p]` is where a handler, the admin's drop, the sweep or the
ticker is. `copy` is a catalogue some client has fetched. `promised`,
`lasting`, `orphaned` and `unsaved` are bookkeeping: rows answered 200, answered
as durable, rows whose description was forgotten behind a write or lost in a
crash, and sets whose entry an orderly stop did not leave on disk as it was. A
drop is inside the engine (`InEngine`) only while it drops shards: `ForgetSet`
asks nobody, and `Gate` is the refusal of its `SaveCatalogue` once the store
closes. The last save may fail, which is only logged.

| Actions | Code |
|---|---|
| `Arrive`, `Admit`, `Refuse`, `Leave` | `readBody`, `handleWrite` up to the slot, early answers |
| `Claim`, `First`, `Expire`, `Record` | `idempotencyCache` |
| `DeclareFields`, `DeclareRoom`, `DeclareOver`, `DeclareEntry`, `Bump`, `Declared` | `applyFieldMeta`, `applySetMeta`, `SetRetentionFor` and the save they cause |
| `Check`, `RowFor`, `PutBatch`, `PutFails`, `Observe`, `Reply` | `Write` and the answer, with the flush a durable answer needs |
| `Drop`, `Sweep`, `SweepLive`, `Forget`, `Unset`, `Gate` | `handleDropSet`, `RunRetention`, `ForgetSet`, `forgetAgedSet`, the gate of `SaveCatalogue` |
| `SaveSnap`, `SavePut`, `Tick`, `Flush` | `saveCatalogue`, the ticker, `Store.Flush` |
| `Close`, `CloseSave`, `Crash`, `Open` | `Close` with its drains, the end of the process, `loadCatalogue` |

### Query and Render

`shards` and `stored` are the shards of one set and the rows in them, `dict`
the label values interned so far, `width` and `retention` what is declared,
`job` the query with its plan. Times are hours, so that the normalised shard
widths and the boundaries before the epoch are the real ones. `Plan` is
`Store.plan` with `shardsInRange` and `buildExpr` (the predicate is lowered
onto the dictionary of that moment: `LowerMatch` are the values that pass the
scan, `LowerNever` says that nothing can); `Open` begins the scan of a shard and
fixes the rows it will meet, `Visit` takes them one by one; `Deliver` is the answer of `runTimeseries`, `runTabular`, `runHeatmap`
or `queryLabelValues`. `Put`, `Declare`, `Advance` and `Sweep` run in
between. `steady` is bookkeeping: the rows the query should find.
`Series` of `Render` is `render.Series`: the samples are sorted, `Walked` is the
single pass over them, `Outputs` adds the last window and the trailing break,
and breaks are padded. The properties compare it with the samples themselves,
not with another walk.

### Extract

A line is what the specification reads out of it (time, rule it starts, rules it
continues, pattern, aggregation key and value); it continues the first of its
rules, in their order, that has an open record. `st` has the open records by
rule, the open windows, each told apart by its number, the hold list as a set of
spans, `lastTS` and what came out; `events` is what the
stream was given, from which `ReplayExact` builds the second stream: the lines
from the held position on, without the idle ticks, which go by the clock of a
process that is gone. `Read`
is `Process` with `joinContinuation`, `aggregate`, expiry, shedding and
`pruneHolds`; `Idle` is `FlushIdle`. Every row remembers its lines.

### Receive

`job[h]` is where a connection, a request, the consumer of the datagram queue,
the ticker or the main goroutine is: look up the stream, drain what was
evicted, process under the lock of the stream, add to the sink. `tracked` and
`held` are the streams, `fresh` the senders seen within `PeerIdle`. `turned` is
what a full sink turned away because its caller was cancelled, `cut` the
requests that nobody waits for: they outlived `httpDrainGrace`, or `Serve`
failed by itself and `Shutdown` was never called. `failed` are the listeners that
failed; the error of one cancels the others once its listener returns, which
`serveTCP` does only when its connections have ended and `serveUDP` when its
queue is empty. `left` is what the last `Flush` did not deliver.

| Actions | Code |
|---|---|
| `Accept`, `Take`, `CutShort`, `Hangup`, `Unblock` | `serveTCP`, `handleConn` |
| `TakeLine`, `TakeSample` | the two endpoints of `serveHTTP` |
| `Datagram`, `Consume` | `serveUDP` and its consumer |
| `Found`, `NotFound`, `Evict`, `Drain`, `EmitOut`, `Drained` | `streamLocked`, `evictLocked`, `drain`, `emit` |
| `Process`, `Add` | `handleRecordOutcome` |
| `Tick` ... `TickDone` | `flushIdle` |
| `Fails`, `Reports` | a listener's own error, and the cancellation it leads to |
| `Cancel`, `GraceExpires`, `FlushAll`, `LastFlush` | the end of `Receive` |

## 3. Runs

| Run | Question | Result |
|---|---|---|
| `follow_crash` | Can a resume record cover what the store lacks, or move back, with lost batches, failed saves, a cancellation that finds the sink full and a crash? | only what `slipped` and `refused` name; no |
| `follow_two` | Can an outcome of one file's samples acknowledge another's that wait in a window, also when a glob fails once or the configuration is reloaded? | no |
| `follow_files` | With files rotated, removed and rewritten: is one let go with records unread, does an offset on disk survive the content it was counted in? | no; only if its save was owed |
| `follow_live` | Is every record stored in the end? | yes, unless turned away after a cancellation |
| `sink` | Does the sink keep the contract, every sample, each order and exact counters; how far is the cap exceeded; does halving the body converge; does each waiter get through? | yes; one sample per further writer; yes; yes |
| `engine_safe` | With puts, drops, expiry and scans of two clients, a failed write and a crash: are rows orphaned, lost after an answer, or seen in the wrong set; does the engine implement `Tables`? | no; yes |
| `dictionary` | With writers beside a sweep, a failed write and a crash: does a row the sweep could see change its label, is a lookup exact? | no; yes |
| `catalogue` | Is a request written twice, an answered row lost or left undescribed, a stale catalogue taken for current? Is an entry lost in an orderly stop? | no; only one whose drop crosses the stop, or all if the last save fails |
| `query` | Does a complete answer miss a row, a cut one keep the wrong rows, a graph hide an extreme or a gap, retention remove a young row? | no |
| `extract` | Does a replay from the held position lose a reading, or change a row of lines in order with no idle tick between; does that position move back, is a line lost or used twice, a window wrong? | no |
| `receive` | Is what an evicted sender held stranded, a taken record missing from the sink at its last flush, does a silent sender delay the return for ever? | no, unless a request is left running behind the last flush |
| `feeder_frozen` | Does every lost batch freeze the file it came from, as the comment on `markHoled` has it? | no |

`feeder_frozen` is a counterexample: a batch lost between queueing a sample and
publishing its offset leaves the file unfrozen, and the next commit
acknowledges the lost record. `AckedIsStored` and `CheckpointHonest` therefore
forgive the records in `slipped`, and those in `refused` (next section).
Everything else still has to be accounted for.

### Known exceptions

Behaviours met while modelling, which the properties name or leave out:

* A cancellation that finds the sink full: `Add` turns the sample away
  (`sink.go:370`), `read`, the drains and `flushIdle` publish its offset, and the
  last flush, on a live context, acknowledges it; the record is never read again.
  The comment at `follow.go:894` says that the error of `Add` is "never a refusal
  to take the sample". `refused` names these records; the theorem
  `RunningAcksAreExact` says that nothing is in it before a cancellation.
* A rewrite in place with a save owed: `reset` keeps `saveOwed` and the old
  `AckedOffset` (`follow.go:487`), which `persistOwed` then writes beside the new
  fingerprint. `slipped` names the records a restart would skip.
* `--start-at end` is honoured whenever a path is opened without a record on
  disk, so also again after a restart before the first save; the comment at
  `follow.go:735` says once. `skipped` follows the code.
* A row whose label position was interned before a sweep blanked it, and put
  after its shard was scanned, names a blank position and later another value
  (`store.go:1633`; the `mark` of `Dictionary`).
* A commit during the drain of a rotated file rewrites the resume record
  without `PendingTail`; a crash then loses the rest (`follow.go:1326`, against
  `docs/design/02-ingest.md:259`).
* `read` returns at once when a rewind is owed, and `checkRotation` then retires
  the rotated file with records unread (`follow.go:1110`). `follow_files`, which
  checks `DrainComplete`, therefore abandons no batch; what holds with abandoned
  batches is the theorem `RetiredFilesAreInHand`.
* Two saves of the catalogue may reach the disk in the wrong order
  (`store.go:830`). The next save repairs it and an orderly stop ends with one
  (`CleanStop`); a crash before it loses a declaration that was saved, against the
  comment at `write.go:182`, and `Described` promises nothing about older rows.
* An administrator's drop that crosses a stop: the shards are dropped, but
  `ForgetSet` may run after the last save and its own save is refused
  (`http.go:747`, logged), so the entry comes back at the next start. A last save
  that fails is only logged (`store.go:664`). `unsaved` names the sets.
* A set forgotten between the put of a row and its description is described
  again only by the next write (`orphaned`).
* When a continuation line with an earlier time ends a joined record,
  `joinContinuation` deletes the buffer first, so the position held can lie
  inside the span of the record it emits (`stream.go:627`). An idle tick closes a
  window by the clock (`stream.go:783`); the replay has none there and may put
  into one window what was in two. `ReplayExact` promises the same rows only for
  lines in the order of their times, no tick since the held position and nothing
  shed; for all others that every reading is in a row of one process or the other.
* In the receivers too `Add` turns samples away once its caller is cancelled.
  `AllDelivered` excepts `turned`, and a request that drains the streams of
  evicted senders does so under its own context.
* When `Serve` fails by itself, `Shutdown` is not called (`receive.go:1053`):
  requests run on, and kept-alive connections bring more, beside `flushAll` and
  the last `Flush`. `AllDelivered` and `NoneStranded` except `cut`.
* The error of the last `Flush` is ignored (`receive.go:302`): samples it could
  not deliver stay in the sink (`left`), and `Receive` returns no error for them
  unless the sink gave up.
* A failed `Accept` of TCP cancels nothing while a connection lives
  (`receive.go:547`), and nothing closes one that keeps sending; the comment at
  `receive.go:253` has it that one listener dying takes the rest down.
  `EventuallyReturns` is about the other listeners and a cancellation.
* A predicate is lowered onto the label values of the plan, so a row with a
  newer value may be returned although the predicate is false of it
  (`AnswerExact` says so).
* In `emitWindow` the time -1 means "no break", so a break one millisecond
  before the epoch is not drawn.

### Bounds

Two or three records per file are enough for a window to be open, closed by a
roll and reopened, and for a record to lie before, inside and after it; two
contents for one rotation or rewrite; two paths to confuse one file's outcome
with another's; one crash, since a restarted process has no memory of how often
it has restarted; one or two failures, since a failure leaves only a hold, a
requeued buffer or a frozen tailer behind. `MaxRounds` is `maxFlushRounds` cut
to two: the last round and one before it. In the sink two writers with two
samples each that can be queued can pass a cap of two by more than the one
sample allowed; the budget is halved twice before it reaches its floor, and one
failed request comes on top of the refusals the samples cause themselves.

In the engine two clients, two sets, two keys and two ids let a set be
dropped and created again beside a call that still holds the old id; one
failure and one crash meet each profile. `Init` includes a directory whose id
mark is missing, as older builds left it. In the dictionary two values, three
positions and three writes let a position be used, blanked, given out again and
found in the packed array with a value stored twice; a second label is first
used during the sweep, a second shard created during it.

In `catalogue` two handlers serve two requests that disagree on a column, or
one and its retry; one event (drop, sweep, flush, fetch, expiry, failure, crash or
stop) falls between any two steps, a set from an earlier run may be in the way
of `MaxSets`, and the idempotency cache has room for one key. In `query` three
of seven rows are written, on both sides of the epoch and two at one instant;
one declaration changes width or retention, so that shards of two widths
overlap; the fourteen queries cover each format, each kind of filter and the
modifiers, with limits of one or two. In `extract` six lines are enough for a
record to be joined and closed by another, two windows to be open, shed or
expired and an emitted span to cover an open one (the first line opens one). In `receive` two senders
share room for one, so that every record may evict the other's stream, the
queue holds one datagram, and one listener fails, since its error stops the rest.
`follow_files` has no crash: it looks at the record on disk, which is all that a
crash leaves.

Deadlock is checked in `follow_crash`, `follow_two` and `follow_live`. Elsewhere
the system may really stop: no file is left, clients stop calling, `Receive`
has returned, or a bound is used up.

### Fairness

Weak fairness on the steps a goroutine takes once begun. Strong fairness on
what the tickers start again and again (sweep, idle flush, flush), on the
shutdown of the follower, since a `select` picks among its ready cases at random
and the cancellation stays ready, and on
getting `sendMu`, which a Go mutex hands to a starving waiter. A request ends
because the client bounds its retries, and the store answers a request that
does not fail; the number of failures is bounded by `MaxFail`, which is the
assumption that delivery recovers. A hold runs out. In `Receive` handlers, the
consumer and the ticker run on, the watch of a connection unblocks its read,
and `httpDrainGrace` runs out; that `Add` ends is the same assumption that
delivery recovers (`flushAll` works on a context that is never cancelled, and
waits while the store is down and the buffer full). Nothing is assumed of
senders, file owners, crashes or failures themselves.

## 4. Proofs

Every theorem holds for all values of the constants: any number of paths,
writers, clients, labels, rows or senders, any failures and crashes, any bound.
What is assumed of the constants is the named `ASSUME` of each module (types,
limits that the code rejects or defaults when zero, declared cadences that are
not negative (`write.go:838`, `mql/validate.go:267`), and that the parts of a
model have different names) and the hypotheses given below. Each inductive
invariant was first checked by TLC on the instances of section 3, and each
proof has one lemma per action.

### Follow

| Theorem | States | Hypotheses |
|---|---|---|
| `TypeCorrect` | `TypeInv` | |
| `AckInvariant`, `AckedSafe`, `ResumeSkipsNothing` | `AckInv`, `AckedIsStored`, `CheckpointHonest` | no rewrite in place |
| `DrainsAreComplete` | `DrainComplete` | no rewrite in place, no batch abandoned |
| `RetiredFilesAreInHand` | the same, unless a replay is owed | no rewrite in place |
| `RunningAcksAreExact` | until a cancellation, what is acknowledged is stored, or of a batch in `slipped` | no rewrite in place |
| `ResumeOnlyAdvances` | `ResumeNeverRegresses` | no rewrite in place, not `--start-at beginning` |

`TypeOK` alone is not inductive: that a record read is one of the file's, and
that the job's path has a tailer, need `JobOK` and `FileOK`. `AckInv` says
where a record is at each offset, where "done" is stored or named in `slipped` or
`refused`: below `ack` it is done; below `infl` it is
done or in the announced request (`FlightInv`), which is why a commit may
acknowledge it; below `pend` it is queued, in flight or done; below `off` it is
that or inside the open window, which `pend` stays before (`TailerInv`); the
record just queued and not yet published is in hand too (`PublishInv`); a
resume record covers only what is done (`RecordInv`). A tailer that is frozen
or owes a rewind is exempt above `ack`, since it will read those bytes again.

`RetireInv` adds that a retired file can no longer grow, is drained only at its
end, and is in hand when its tailer goes. In the code `read` returns at once
when a rewind is owed, and retiring does not wait for the replay; hence the two
statements, one without abandoned batches and one that excepts owed replays.
`ResumeInv` says that no tailer is behind the record it resumed from and no
record is ahead of its file, so that a file that only grows is never taken for
a rewritten one, which is what would reset its record.

A rewrite in place is excluded because `reset(0)` leaves the save owed, which
then pairs the old offset with the new fingerprint; `--start-at beginning`
because it starts records again by design.

### Sink

`CountersAgree`, `NothingIsLostOrDoubled`, `OrderIsKept`,
`AcknowledgementsCover` and `CapIsSoft` state the five invariants of the run.
The inductive invariant: the buffers and the request each ascend by writer, and
the request is ahead of the buffers (`InOrder`), so that a requeue keeps order
and doubles nothing; the counters are exact; every sample handed over is
somewhere (`NoneLost`); a request that was announced carries all that was marked
and not settled (`AckOK`); and room that was promised counts like room taken
(`CapOK`), which is how far the cap can be passed. `SinkImplementsDelivery`
proves every step of the sink to be one of `Delivery` or a stutter, under the
mapping the run checks (`Implements`); it needs that a request in progress
carries samples (`Carrying`). With it, what is proved of `Follow` over
`Delivery` holds over the sink as far as safety goes.

### Engine

`RowsAreOwned`, `AckedRowsAreFound` and `ScansAreExact`. The inductive
invariant: the two key spaces are sound by themselves (each row under the id of
a record and within its columns, no id twice); an id belongs to one set for
good and the next one is new (`IdsOnce`); memory and disk agree on the id of a
set, and a set that is not dirty equals its record (`Recorded`); a call in
progress holds an id that is recorded, because drops wait for the shared holders
(`CallsHold`); an acknowledged row is on disk (`AckedStored`).
`EngineImplementsTables` proves each step to be one of `Tables` or a stutter
(`KeepsContract`).

### Dictionary

`RowsKeepTheirLabels`, `RestartsResolve`, `LookupsAreExact`. The invariant: the
index and the aliases name every position of a value and no other, and none that
is free (`IndexOK`); a value in memory is the one on disk, as records over the
packed array (`Agree`); rows, safe rows and rows on their way resolve unless
marked (`RowsOK`, `SafeOK`, `ReqOK`); and a sweep has seen every row or will
(`SweepOK`), which is why what it blanks is unused.

### Catalogue

`RequestsAreWrittenOnce`, `AnsweredRowsStay`, `AnsweredRowsAreDescribed`,
`TagsAreHonest`, `StopsAreClean`. The invariant: who works on a key has claimed
it alone and has not found it recorded (`ClaimsOK`); promised rows are stored
and lasting ones safe (`KeptOK`); a row is described, orphaned, or about to be
described by its writer (`DescribedOK`); a copy of the current version is the
current catalogue unless someone is about to raise the version (`TagOK`); a
store that is down has the entry of every set but the unsaved ones on disk and
nobody inside the engine (`StopOK`), which a drop that is past its shards is not.

### Receive

`NothingIsStranded` and `EveryRecordIsDelivered`. The invariant: a record is in
the queue or with one handler and there once (`Once`); a stream is made for a
record, so there are enough of them (`Enough`); a stream that holds something is
tracked or in the hands of someone who will drain it (`AllCared`), as long as no
request runs beside `flushAll` (`Alone`); a record taken is queued, in hand, held,
in the sink, refused or turned away (`NoneLost`); and the parts of the receiver
end in the order of `Receive` (`Phases`), whichever listener failed, but for the
requests that nobody waits for.

### Query

| Theorem | States | Hypotheses |
|---|---|---|
| `YoungRowsStay` | `YoungKept` | |
| `PlansAreExact` | of every query, a plan made now reads the shard of each stored row it wants, is not called impossible while there is one, and lets a row through exactly if the predicate is true of it | |
| `AnswersAreExact` | `AnswerExact` | |
| `LimitsAreExact` | `LimitExact` | |
| `SeriesAreHonest` | of any samples, modifiers and window, what `DrawnHonest` and `BreaksShown` say of a series | no sample before the epoch |
| `DrawingsAreHonest` | `DrawnHonest` | no graph starts before the epoch |
| `BreaksAreShown` | `BreaksShown` | the same |

Throughout, a predicate names label values, none of which is empty
(`QueryAssumption`): the empty entry of a dictionary is a blanked position.

The invariant `Placed`: a row lies in a known shard, a dated one covers the
instant of each of its rows under whatever width it was made (from what
`floorDiv`, `mod` and `normaliseShardWidth` compute, before the epoch too), and
its label is interned. `JobInv` is about a query that reads. Each row that it
should find is kept, about to be met, in a shard still to be opened, or was
passed over for a reason (`Found`); what was kept passes the predicate as it was
lowered at the plan (`Passed`, `Lowered`), which is exact on the values known
then (`Expected`). For limits: shards that do not overlap are met in the order of
time (`InTime`), so that a scan may stop when the table is full (`Stops`); when
they overlap, a row was passed over only for others that are better, and
throwing away what is not best keeps that (`Dropped`). The scan keeps its rows
numbered (`Counted`), which is how it breaks ties between rows of one instant.

The walk is proved by induction over the samples: after each one, what was sent
and the window that is open together have a point as high and as low as every
sample so far, and a break for every missed cadence (`Walking`, made of
`Remembers` and `Loaded`). Padding only puts breaks strictly between two
neighbours, and sorting only reorders, by counting the smaller samples before
each. The sums of a heatmap need that a sum over a set is the sum over disjoint
parts of it, by induction over subsets. The hypothesis on the epoch is that of
the code: -1 marks "no time" in the walk, and a rate takes the next sample for
the first one while the previous time is negative. The graphs of the run
satisfy it; heatmaps, tables and answers do not need it.

### Extract

`LinesEndOnce` states `OnceEach` and `FloorNeverFalls` the action property
`FloorRises`. `AcknowledgedIsSettled` says what the floor is for: each line
before the position a driver may acknowledge is in a row that was returned, or
was refused. `WindowsEndInTime` proves `InTime`, the half of `WindowHonest` that
no record is in a window that has ended by its time. All hold for any lines, rules and times, in order or not.

The invariant: each open window has exactly its own entry in the hold list
(`Listed`); nothing that is open begins before the floor and no span of the list
has the floor strictly inside (`Clear`); rows, windows and refusals share no line
(`Apart`), nor do the records that wait, and together they are all the lines
(`Waiting`). `Clear` is kept for any position that was clear, which is why the
floor does not fall. Two facts carry it: one backward pass over the spans is
enough, since a span that starts later cannot catch the position once it was
pulled before it (`PullBackFacts`); and what `pruneHolds` drops is neither the
entry of an open window nor a span that a later floor can fall into
(`PruneSound`). `TimeInv` adds that a record that is open is no later than its
own time and those in a window are earlier than its end (`Timely`), since
`process` closes what has expired before it looks for a window to join.

### Only model-checked

* Liveness (`EventuallyStored`, `EventuallyOut`, `EventuallyReturns`) and
  `NoWriterStuck`, which needs `ENABLED`, are outside the prover's reach.
* `ReplayExact` is about a second stream, folded over what the first was given
  after its floor: it needs a relation between the two at every step.
* `AddsUp`, the other half of `WindowHonest`, reads the value of a window off its
  lines. That reading is right for the lines of the instance, and not where a
  record has readings beyond `MaxParts` or a continuation comes after its record
  was flushed.
* Follow with files rewritten in place (`follow_files`).

## 5. Abstractions

* Records stand for bytes: framing, encodings and log parsing are left out.
* `Recover` queues all samples of a rotated file in one step; the flushes that
  could run in between only store a prefix of them.
* `EndFlush` is one step. In the code its `Save` runs after the tailer's lock is
  released, so it could land after a later save of the sweep (listed as a hazard).
* A rewrite happens between two sweeps, and not while a glob that failed once has
  closed the tailer with a save owed. `Load` never fails: an unreadable record
  would be read as none.
* A commit that arrives after the client gave up only adds to `stored`, so it
  is covered by a commit before.
* `Close` of the sink is called when no writer is left, as the commands do.
* Logging, statistics, lag and throttled warnings are left out.
* Every row of the engine has a timestamp, so each has its index entry; column
  types, row encoding, `RegisterSet` and the storage version are left out. What
  Pebble writes by itself in the background is a `Flush` step, and a crash
  falls back to a prefix of the writes.
* A row of `Dictionary` has one label; a budget refusal changes nothing and is
  no step. `mark` treats a set that was emptied row by row as not listed.
* A request of `Catalogue` has one sample of one column. Key schemes, declared
  shard widths, time ranges and the count of stale fields (the second half of
  the ETag) are left out, as are the 30 s after which the drains of `Close` give
  up, and caches that clients keep across a restart of the store. The rate
  limit per client is left out.
* `Sweep` of `Query` reads the retention of a set and drops a shard in one step, so
  a declaration that lands between the two (`store.go:1454`, `1463`) is not
  covered; and it leaves the dictionary alone, whose reclaim
  (`store.go:1552`) is the subject of `Dictionary`.
* `Query` has one set, one field and one label; a rate is in fixed point. The
  semaphore of queries and their drain at close are left out.
* `Extract` follows one stream with one profile; matching, timestamps and
  histogram bounds are attributes of the line.
* In `Receive` a kept-alive connection of a failed `Serve` is a request that may
  begin again until `Receive` returns; at most `MaxFailures` listeners fail.
* In `Receive` the effect of extraction is the record's kind; TLS, tokens, the
  posture checks, profile selection and line protocol parsing decide before any
  state changes. A sender counts as silent only while no handler has one of its
  records in hand: a handler that waits for room longer than `PeerIdle` is left
  out.

## 6. Not modelled

* Remote follow: sessions over SSH. It feeds the sink under `Delivery` and
  repeats the resume rules of local follow; what is its own is transport.
* The extraction specification (`spec.go`, `lint.go`, `ac.go`), MQL, the data
  model, engine filters, codec and options: parsers, validators and encoders,
  functions of their input without state.
* Batch import, progress and metrics: one pass with no state shared between
  steps; delivery is the sink's.
* The Grafana plugin and the commands: request mapping and wiring, but for the
  ticker and the stop of the store, which are steps of `Catalogue`.

## 7. Next

1. `Follow` with rewrites in place: `AckedIsStored` needs that the save owed
   after `reset(0)` is named in the invariant, with the content it belongs to.
2. `Extract`: `ReplayExact`, from the invariant that the rows of a stream and of
   its replay agree on every record that begins at or after the floor.
3. A reference value for windows that holds for every `MaxParts`, in place of
   the one in `AddsUp`.
