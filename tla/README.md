# A TLA+ model of pulse-ingestor

pulse-ingestor consumes Kafka records, collects them per partition into fixed
ranges of offsets, writes every range as one Parquet object into a GCS staging
bucket, and commits the offset to Kafka once the object is stored. Its promise is
"commit after upload, never before" (`src/src/lib.rs`): **a record below the
group's committed offset is in the bucket.** The modules in this directory model
how the code keeps that promise, through retries, crashes, restarts and
rebalances, and show where it does not.

## 1. Inventory

| Component | State it keeps | Operations | Interacts with |
|---|---|---|---|
| `batching.rs` | none | `BatchRange::containing`, `contains`, `width`, `is_complete`, `commit_offset`; `ObjectName::for_range` | called by the pipeline for every record and every flush |
| `pipeline.rs` | a `PartitionBatcher` (range, records, dirty, last append) for each topic and partition | `offer`, `tick`, `flush_all`, `revoke`; inside them `flush_partition` and `upload_with_retry` | awaits the sink and the committer; driven by the consume loop |
| `kafka.rs` | the position in the loop, the channel of revocations, the client's assignment (in librdkafka) | `run` with three `select!` branches, `drain_revocations`, the rebalance callback, `KafkaCommitter::commit` | broker and group coordinator; calls the pipeline |
| `sink.rs` | endpoint and token source, fixed at startup | `GcsSink::put`, `classify_status`, the token sources | the bucket, over HTTP |
| `main.rs`, `lib.rs` | the watch channel of the shutdown signal | loading, wiring, the signal task, exit on error | starts the loop |
| `envelope.rs` | none | `ParsedRecord::parse` (total), `truncate` | the loop, for every record |
| `parquet_writer.rs` | none | `schema`, `write_batch` | the pipeline, for every flush |
| `config.rs` | none | `Config::from_env`, `required`, `parse_or`, `parse_non_zero` | read once by `main` |

What is hard about it:

* **Concurrency.** A process runs one call of the pipeline at a time, but every call
  awaits the bucket and the broker, and the other members of the group go on
  meanwhile. The rebalance callback runs while `recv` is polled, that is, in the
  middle of the wait in `select!`, and does no more than put a message in a channel.
* **Failure.** A PUT or a commit that failed may have taken effect. Every error that is
  not retried ends the process, and so its buffers, in the middle of whatever it was
  doing for other partitions.
* **Ordering.** Upload before commit; the old range before the first record of the next;
  the drop of a revoked buffer before records of a new assignment.
* **Data.** The bytes of a message are anybody's. The release profile aborts on a panic, so a
  message that panics would stop every partition of the process, again after every
  restart; and a writer that fails ends the process too.
* **Time.** Idle flushes, the client's timeout, eviction from the group after a long
  call, and the UTC date in the object's name.

What makes each part correct: ranges are a function of the offset alone and tile the offset
space (batching); what was read is in memory or in the bucket, and what was acknowledged is in
the bucket and is final (pipeline); buffers follow the assignment, and commits never go
backwards (kafka); an `Ok` can be relied on, and a denial is not repeated (sink); every message
becomes a row with its offset, and only texts too long for a column stop the process (envelope,
parquet_writer); a process starts with what was set or names what is wrong (config); a signal
ends the process (main). `PROJECT.json` lists the hazards line by line, each with the properties
that cover it.

## 2. Modules

```
Batching --+-- Pipeline --+-- SingleOwner ---- refines ----> Staging
(ranges)   |   (calls)    |        ^
           |              |        | refines, under two rules
           |              +-- ConsumerGroup
           |
           +-- Config  --+
           |             +-- DataPath
           +-- Records --+

Upload <---- refined by SingleOwner for each object name, and by Sink
             but for late requests

Sink       (one object's uploads, requests and answers apart)
```

* **`Batching`** has no variables. It is the arithmetic of `batching.rs` on u64, with
  `MaxU64` and `MaxI64` for the two limits: `saturating_add` at the top of a range,
  `end + 1` wrapping as it does in release builds. An object's name is the record of what
  `for_range` prints: partition, date, aligned range.
* **`Config`** is `config.rs` and the idle-check period of `main`, without variables. A raw
  environment variable is told apart by kind (not set, not Unicode, blank, digits, other
  text); the problems are the set of complaints that the three helpers produce.
* **`Records`** is `to_record`, `envelope.rs` and `parquet_writer.rs`, without variables. A
  document is the function from its field names to kinds of values; of a text only the
  byte positions matter at which its characters end. `WalkBack` is the loop of `truncate`, and
  `TruncatePanics` what slicing does if the loop stops in the middle of a character. `Schema`,
  `Builders` and `Columns` keep the three lists of the writer apart, which have to agree by
  position; `BatchIsValid` is what arrow checks of them. `TextsFit` is the limit of a text
  column, whose builder keeps its offsets in an i32 and panics past them. `WriteOutcomes`
  has all the ways a write can end: the rows, that panic, a refused batch, or an error of the
  encoder (`ArrowWriter`, zstd), which may come at any time.
* **`DataPath`** is one process from its environment to its rows: `StartFails`, or `Configure`,
  `BuildSink` and `Connect`, each of which may end the process; then `Read` for one message
  after the other, each parsed and put into the batch of its range, which is written when it is
  complete; and `WritePart`, the flush of a part by the ticker or at the end. `stage` says how
  far the process came, or what ended it: every failure of a write does. It composes the three
  modules above and goes through every offset of the word. What `Pipeline` models (calls,
  failures, processes) is left out here.
* **`Pipeline`** has one action for every step of a call between two awaits.
  `batchers[c][p]` is process `c`'s batcher of `p`, and `call[c]` says where its
  current call waits (`put`, `commit`), for which object, on which attempt, which
  record `offer` has still to push (`pending`) and which partitions `tick` or `flush_all`
  has still to flush (`todo`). `Offer`, `Tick`, `FlushAll` and `Revoke` are the
  entry points; `PutOk`, `PutRetried`, `PutFailed`, `CommitOk` and `CommitFailed` are
  the outcomes of the awaits, and `Return` is what the caller of `flush_partition` does
  next. The bucket (`objects`) and the group's offsets (`committed`) are external.
* **`SingleOwner`** drives pipelines the way rules 2 and 3 of `pipeline.rs`
  assume: a partition has one owner, which gets the records in order from the committed
  offset, and `revoke` comes before the partition moves. Crashes, errors, restarts
  and shutdowns are included. This is the module with the proofs.
* **`ConsumerGroup`** drives the same pipelines by the real loop of `kafka.rs` instead:
  drain, wait, one branch, and the callback during the wait. `Signal` sets the watch
  channel at any moment, also in the middle of a call; `select!` is biased, so that after it
  only `ShutdownBranch` is taken. The coordinator
  assigns eagerly, evicts members, who learn of it at their next poll, and refuses the
  commits of evicted members. Here the contract of `SingleOwner` can be broken.
  `CarefulSpec` is the same loop under two rules that the code does not have: `DrainedFirst`
  (between the callback and the drain, a revoked partition is not flushed, and no record of
  its next assignment is pushed) and `OwnersWrite` (the bucket takes nothing from a
  process that has lost the partition). Under them `Contract` maps the group to `SingleOwner`:
  the buffers there are the owner's that do not wait to be dropped, an evicted process
  is not there any more, a rebalance is a `TakeAway`, an eviction a `Crash`.
* **`Staging`** is the abstract promise: storing and acknowledging are separate
  steps, what is acknowledged stays stored, and only what is stored is acknowledged.
* **`Upload`** is an object's uploads as `upload_with_retry` reckons with them: one after the
  other, with one content through all attempts, each attempt over before the next.
* **`Sink`** models the uploads of one object name with the request and its answer apart,
  so that a request can be handled after the client's timeout. `Pipeline` takes the
  outcome of an attempt in one step. That is `Upload`, from both sides:
  `SingleOwner` implements it for every name, and what `Sink` adds to it is exactly
  `LateWrite` (`AttemptsAreAtomicButForLateOnes`).
* `MCDataPath`, `MCSingleOwner`, `MCConsumerGroup`, `MCSink` hold the small instances. The
  theorems are in `BatchingProofs`, `SingleOwnerProofs`, `StagingProofs`, `ConsumerGroupProofs`,
  `ContractProofs`, `DataPathProofs` and `SinkProofs`; `PipelineProofs` has the lemmas about the
  pipeline's actions that `SingleOwner` and `ConsumerGroup` share.

Abstractions shared by all of them:

* Outside `Records` and `DataPath` a record is its offset, and an object is the sequence of
  offsets whose rows it has. That this loses nothing is what `EveryOffsetHasItsRow` and
  `OnlyLongTextsStopTheProcess` say: a malformed record is a row as well, and as long as the
  texts of a batch fit their columns, only the encoder can keep it from being written. In
  `Pipeline` a write that fails is one more way for the process to end (`Crash`). The bytes of a
  Parquet file, statistics and log lines are left out.
* A partition stands for a (topic, partition) pair, the key of the batcher map.
* A process without an entry in the map has `NoBatcher` there.
* Time since the last append is counted in ticks up to `IdleMs`. A call reads the clock
  once, when it starts, so `Elapse` happens between calls. `flush_partition` reads
  the date on its own, and `NewDay` can come at any point.
* An attempt to upload is applied, if it is at all, before its call goes on. `Sink`
  drops this assumption.
* The log of a partition is a constant set of offsets with gaps (compaction, transaction
  markers). Retention does not remove records while a run lasts.
* Constants are as weak as the code allows: `RangeSize` is any non-zero u64, `MaxAttempts`
  any positive number, the sets of processes and partitions arbitrary.

## 3. What the runs show

| Run | Instance | Shows |
|---|---|---|
| `DataPath` | every offset of a 4-bit word, every range size; environments with up to two settings changed; 24 logs of two alternating messages | `AllButForeignIsReported`, `RunsAsConfigured`; `RangeHoldsItsOffset` (also where ranges saturate), `RangesTile`, `CommitAcksExactly`; `OnlyLongTextsStopTheProcess`, `EveryOffsetHasItsRow` |
| `DataPathLongTexts` | the same | violation: messages too long for one column together end the process |
| `SingleOwner` | 2 processes, 2 partitions, logs of 3 and 2 records, one without its full range, 2 attempts, 2 days | type invariant, `AckedIsStored`, `ReadIsHeldOrStored`, `RowsInOrder`, the inductive invariant `IInv`, `UploadsOnlyGrow`, `AckedObjectsAreFinal`, `UploadsTakeTurns`, and that it implements `Staging` |
| `SingleOwnerLive` | 2 processes, 1 partition, a log with gaps | `RecordsDoNotLinger`, `FullRangesAreCommitted` |
| `SingleOwnerObjects` | the same, 2 days | violation: a range can have two objects |
| `ConsumerGroup` | 2 processes, 1 partition with two full ranges, 1 rebalance, 1 eviction | the inductive invariant `IInv`; `BuffersAreAccountedFor`, `ObjectsHoldTheirRange`, `CommitFollowsUpload`, `CommitsNeverRegress` hold even when the contract is broken; a forwarded revocation is drained in the end, and its buffer dropped (`RevokedIsDropped`); a signalled process stops, retries and pending revocations or not (`SignalStopsTheProcess`) |
| `ConsumerGroupCareful` | 2 processes, 1 partition with two full ranges, 2 rebalances, 2 evictions, under the two rules | the loop implements `SingleOwner` (`KeepsContract`); `AckedIsStored` and `AckedObjectsAreFinal`, which fail without the rules, hold |
| `ConsumerGroupLateDrain` | 1 process, 1 rebalance | violation: an acknowledged record is lost |
| `ConsumerGroupRevoked` | 2 processes, 1 rebalance | violation: a revoked buffer is flushed |
| `ConsumerGroupZombie` | 2 processes, 1 eviction | violation: an acknowledged object is overwritten |
| `Sink` | 2 uploads of 3 attempts, statuses of every class | what `Ok` and a denial mean, that attempts are the atomic ones of `Upload` but for late requests, and that every upload ends |
| `SinkLate` | the same | violation: a late request puts older bytes back |

Every property of a passing run has a mutant in `PROJECT.json`: a definition of the model
with a plausible bug in it, under which TLC finds the property violated. The mutants
stand in the modules next to what they replace.

### Bounds

`RangeSize = 2` is the smallest size at which a range can be partial, complete, and crossed with
a record missing; with it, logs of three or four records give a boundary flush, a completion,
and a partial tail. `MaxAttempts = 2` has a retry and a last attempt. `IdleMs = 1` separates a
quiet buffer from one just written. `LastDay = 1` lets a range be flushed on two dates. Two
processes are an owner and a former owner; two partitions are what it takes for `tick` and
`flush_all` to be interrupted between two flushes (`SingleOwner`; in the runs of
`ConsumerGroup`, with more variables, one partition has to do, and the proofs cover the rest).
One rebalance moves a partition between two running processes, or takes it away and gives it
back to the same one; one eviction makes a former owner that does not know. `ConsumerGroup`,
whose state space also has to serve its liveness properties, has one of each;
`ConsumerGroupCareful` has two, so that a partition comes back to a former owner and its
successor is evicted as well. Words of 3 or 4 bits leave room above the logs, and `DataPath`
goes to the very top. In `DataPath` two changed settings are enough for two problems at once;
`MaxReason = 5` puts the cut of a complaint at the end of a character, in the middle of one, and
past the end of the text; two messages put records of both kinds into one batch, and a batch is
up to a whole range long. `MaxText = 128` bytes stand for 2 GiB, with texts of 1, 40 and 70
bytes: the first fit always; in a log whose every second message is long, texts of 70 bytes
overflow a column in ranges from three offsets, those of 40 bytes only in ranges from seven.
These are bounds of the instances; the proofs have none of them except that days and offsets are
bounded sets of any size.

The runs allow no deadlock except `DataPath` (the walk ends at the top of the word) and
`Sink` (its last upload is over): elsewhere a process can always be restarted or polled.

### Fairness

No crash, error, eviction or rebalance is ever forced. `SingleOwner` assumes that the clock goes
on, that the interval ticker comes round, that the wait for an upload or a commit returns (both
have timeouts), that a closing process ends, that Kafka assigns a free partition and that `recv`
hands out what there is. `RecordsDoNotLinger` allows a record to leave memory by revocation or
exit, as the code does. `FullRangesAreCommitted` is claimed only if from some point on no
partition loses its owner and no process leaves its loop: a bucket that fails for ever ends the
processes for ever. `ConsumerGroup` assumes, of the one process that its two liveness properties
watch (any process, as all have the same actions), the drain, the ticker branch, the shutdown
branch (first in the biased `select!`), the return of awaits and the end of a closing process;
the other processes may stand still, and no signal is ever forced. In `Sink` the client's own
timeout is fair and the server is not.

## 4. Where the code and its documentation differ

1. **Late drain loses an acknowledged record** (`ConsumerGroupLateDrain`,
   `kafka.rs:190`). The trace: the partition is revoked, assigned again to the same
   process, and its record 0 is delivered, all in one wait of `select!`; record 0 goes
   into the buffer; the loop comes round and *then* drains the revocation, which drops the
   buffer with record 0 in it; record 1 arrives, completes the range by `is_complete`,
   the object holds record 1 alone, and offset 2 is committed.
2. **Revoked buffers can be flushed** (`ConsumerGroupRevoked`, `kafka.rs:203`). Until the
   drain, `tick`, `offer` and the flush at shutdown work on buffers of lost partitions;
   rule 3 of `pipeline.rs` says that they are dropped, not flushed.
3. **A former owner can overwrite an acknowledged object** (`ConsumerGroupZombie`,
   `pipeline.rs:338`). Rule 3 calls such a flush correct, "same range, same name, same
   bytes"; the bytes are a prefix.
4. **A late request can put older bytes back** (`SinkLate`, `sink.rs:201`). The comment
   there relies on the retry being the overwrite; a request that timed out may be the
   one that comes last, after the retry and after later flushes of the range.
5. **A range can have several objects** (`SingleOwnerObjects`, `pipeline.rs:330`): the
   name contains the date of the flush, so flushes on two days do not converge on one
   object as `batching.rs` says.
6. **Long messages end the process** (`DataPathLongTexts`, `parquet_writer.rs:157`). A batch is
   bounded by its number of offsets, a text column by 2 GiB: 10,000 messages of 215 KB, each
   within a broker's default limit, panic the column's builder, and the next process reads the same
   range. `envelope.rs:26` and `parquet_writer.rs:94` count on no input doing that.
   `OnlyLongTextsStopTheProcess` says what remains true: it takes a message with a text
   of more than its share of the column, and nothing else about a message does it.

The first three are what the rules of `CarefulSpec` exclude: 1 and 2 break `DrainedFirst`, 3 breaks
`OwnersWrite`. `ContractIsKept` says that there is no fourth way for the loop to break the
contract of the pipeline.

A smaller one is stated by a passing property. `config.rs:4` says that every malformed
variable is collected; a setting outside the contract that is not Unicode is an `Err` of
`env::var` and taken for not set (the kind "foreign" in `Config`). A range size with a stray byte
becomes the default, and a storage emulator's host with one becomes the real GCS.
`AllButForeignIsReported` names this exception and says that there is no other.

Two have no run. `sink.rs:109` says that missing credentials fail at startup;
`GcsSink::new` never asks for a token, so they fail at the first flush. And
`pipeline.rs:30` says that each upload of a range is a superset of the last: that holds
while one process keeps the partition (`UploadsOnlyGrow`, proved), not across a restart,
whose first idle flush can be shorter.

## 5. What is proved

TLAPS checks the proofs for all values of the constants, from `WordAssumption`
(MaxI64 < MaxU64), `PipelineAssumption`, `LogAssumption`, `GroupAssumption`,
`ConfigAssumption`, `RecordsAssumption`, `DataPathAssumption` and `SinkAssumption`.

* **Batching.** A range holds the offset it was computed from, is the same for all its
  offsets, and does not overlap the next; for a range that ends within i64 the commit offset
  is `end + 1`; only the last offset of a range completes it.
* **SingleOwner.** `TypeCorrect`, `InvariantHolds` (`Spec => []IInv`) and from it
  `AckedIsStoredAlways` and `ReadIsHeldOrStoredAlways`. `AckedIsStored` is not
  inductive: that a commit covers only stored records rests on the buffer holding *all*
  records of its range, which rests on where reading started. So `IInv` adds
  - `BatchInv`: a held buffer has every record of the log from the start of its range up to
    the read position (a pending record apart), and its range is not
    acknowledged yet; without a buffer the position is at a range boundary; a clean
    buffer is in the bucket;
  - `PositionInv`: committed offsets are at boundaries, and never ahead of their reader;
  - `CallInv`: a call works on a dirty buffer that its process owns, and in its commit stage
    the range is complete and stored;
  - `ObjectsHoldTheirRange`: an overwrite cannot touch records of another range.

  The step proof has a lemma for each action and each conjunct that it can disturb.
* **StagingProofs.** With `IInv`, uploads only grow what an owner has stored
  (`UploadsOnlyGrowAlways`), objects of acknowledged ranges are final
  (`AckedObjectsAreFinalAlways`), and every step is a `Store`, an `Ack` or a stutter of
  `Staging` (`Implementation`). `RowsInOrderAlways`: the rows of every object are in the order
  of their offsets, each once. Its invariant is that every buffer is sorted and a pending record
  lies beyond it; a buffer only grows at its end, by a record at the read position, which `IInv`
  puts past all it holds. `UploadsTakeTurnsAlways`: for every name the group implements
  `Upload`. A call keeps its buffer while it uploads because its process owns the partition, and
  it turns to another name afterwards because what waits behind it is of another range or
  partition. `OneObjectPerRangeInADay`: finding 5 needs a change of date.
* **ConsumerGroup.** `TypeCorrect`, `InvariantHolds`, and from it the four safety properties
  of the run, with any number of rebalances and evictions. Here a process may work on a
  partition it has lost, so nothing can rest on ownership alone. `IInv` says of *every* process
  - `GoodBuffer`: its buffers are of partitions that it is assigned or whose revocation is in
    the channel, hold records of their range, and are full only inside the call that completed
    them;
  - `GoodCall`: that call is on a partition the client is still assigned (the callback cannot run
    while a call does), at the position right after the range; in the commit stage the
    range's object exists, whoever wrote it last;
  - `OwnerInv`: the coordinator's assignment is the client's unless it was evicted, and a
    commit is never ahead of the owner's reading.

  From this a commit by an owner is its position, hence not behind the last commit
  (`CommitsNeverRegressAlways`), and one by an evicted member is refused.
* **ContractProofs.** `ContractIsKept`: every step of `CarefulSpec` is a step or a stutter of
  `SingleOwner`, with any number of rebalances, evictions, crashes and signals. No assumption on the
  bounds is needed; the two rules are part of the specification. The mapping hides the
  buffers that wait to be dropped and everything of an evicted process, so the proof has two halves:
  - what is hidden stays hidden: the drain changes no buffer that is shown
    (`DrainIsUnseen`), and nothing that an evicted process does until it notices is seen,
    since its commits are refused and, by `OwnersWrite`, its uploads do nothing (`EvictedStep`);
  - what is shown moves as in `SingleOwner`: one lemma for each action, with an eviction as
    a crash and the callback as a take-away between two calls.

  Beyond the `IInv` of `ConsumerGroup` it needs `TidyInv` (a batcher is held or is exactly
  `NoBatcher`, and a process between two calls has no remainder of one, so that equal states map to
  equal states) and `BusyIsOwn` (no call works on a partition that waits for its drain: what
  `DrainedFirst` is there for). The theorems of `SingleOwnerProofs` and `StagingProofs` are then
  used through the instance `Promise`: `AckedIsStoredIfCareful`, `AckedObjectsAreFinalIfCareful`,
  `RowsAscendIfCareful`, `NothingReadIsLostIfCareful`, `UploadsTakeTurnsIfCareful`, and
  `ImplementsStagingIfCareful`, the promise of the service for the loop itself.
* **DataPath.** Every property of the run, for every word size, environment and log.
  `RunsAsConfiguredAlways`, `RangeHoldsItsOffsetAlways`, `CommitAcksExactlyAlways` and
  `RangesTileAlways` rest on the invariant that a process which got past `Configure` has no
  problem left, so that its range size is a non-zero u64: the configuration check is what makes
  the division of `containing` safe. `AllButForeignIsReportedAlways` compares the three helpers
  with what "missing" and "malformed" mean. `OnlyLongTextsStopTheProcessAlways` has three parts:
  the loop of `truncate` ends at a boundary of characters (`CutIsBoundary`); `Schema`,
  `Builders` and `Columns` agree by position with what a record of either kind appends; and a
  batch of a range of `n` offsets whose texts each take at most `MaxText \div n` fits
  (`SharesFit`), because a batch never outgrows its range. The loop and the sum over a column
  are recursive functions on an interval; that they exist and take a step at a time is proved by
  induction up to the bound (`InductionUpTo`). `EveryOffsetHasItsRowAlways` adds `BatchInv`,
  that a batch is the records of the last offsets read, all of one range, which also bounds the
  batch in `TypeCorrect`.
* **Sink.** `TypeCorrect`, `InvariantHolds`, and from it: unless a request was given up, the
  bucket holds the bytes of the last `Ok`; a denied upload sends nothing more; and every step is one
  of `Upload`, a success being a success there, or a `LateWrite`. The
  invariant says that nothing is under way but the awaited request and abandoned ones.

Only model-checked: the liveness properties (`RecordsDoNotLinger`, `FullRangesAreCommitted`,
`RevokedIsDropped`, `SignalStopsTheProcess`, `UploadsEnd`), which are out of the prover's reach.
Every invariant and action property of a passing run, and all refinements, are proved as well;
the properties of the violation runs are proved where they do hold (`AckedIsStored` and
`AckedObjectsAreFinal` under the two rules, `OneObjectPerRange` within a day), except
`RevokedIsNotFlushed`, which `DrainedFirst` all but states, `OkIsStored`, whose true part is
`OkIsStoredIfAwaited`, and `NoMessageStopsTheProcess`, whose true part is
`OnlyLongTextsStopTheProcess`.

## 6. What is not modelled, and the plan

Every source file that changes state or data is modelled. Left, in this order:

1. *Retention*: a log that loses its oldest records, which makes the shorter flush after a
   restart permanent for a range that was never completed.
2. *A changed `BATCH_OFFSET_RANGE`* between two runs of a group: committed offsets are then
   not at boundaries of the new ranges, and objects of both sizes overlap.

Not planned: the bytes of Parquet and zstd (a library's), the object's URL and its encoding,
log messages, `Stats` (counted and logged, never read for a decision), the `.env` file,
the container and build files. `tests/integration.rs` and the unit tests were read as
documentation of intent.
