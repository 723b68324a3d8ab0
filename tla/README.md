# Kafka backup operator: TLA+ models and proofs

This directory specifies the Kafka backup operator in TLA+: the worker and the
service of a backup, those of a restore, and the two reconcilers of the
operator. TLC checks the modules on small instances, and TLAPS proves their
main invariants for every instance. Paths below are relative to the repository.

## 1. Inventory

| Component | Code | State it keeps | Operations |
|---|---|---|---|
| Backup worker | `internal/app/backup/worker.go` | per partition: batch, segment number, message count; the consumer's position | `Start`, `backupTopic`, `backupPartition`, `flushBatch`, `updateWorkerStatus` |
| Backup service, coordinator | `internal/app/backup/{service,coordinator}.go`, `internal/domain/backup.go` | the `BackupStatus` in the state repository; a goroutine per worker | create, start, stop, delete, get and update status |
| Kafka adapter | `internal/infrastructure/kafka/*.go` | partition consumers, sarama clients | `Subscribe`, `Poll`, `Seek`, `Produce`, topic administration |
| Storage adapters | `internal/infrastructure/storage/{local,s3}.go` | files or objects | `Put`, `Get`, `List`, `Delete`, ... |
| State and metadata repositories | `internal/repository`, `internal/infrastructure/storage/{state,metadata}.go` | the code holds stubs | save, get, update, delete, `Lock` (called by nobody) |
| Backup process | `cmd/backup/main.go` | a context | create, start, wait for the signal, return |
| Restore worker | `internal/app/restore/worker.go`, `kafka/producer.go` | position in the list of segments | `restoreTopic`, `restorePartition`, `readSegment`, `produceMessages`, three status updates |
| Restore service, coordinator | `internal/app/restore/{service,coordinator}.go` | `RestoreStatus`, also held by the goroutine that completes it | create, validate, start, delete, get and update status |
| Restore process | `cmd/restore/main.go` | a context | as the backup process |
| Backup controller | `controllers/backup_controller.go` | the `Backup` resource, jobs, cron job, config map | `Reconcile`, suspension, deletion |
| Restore controller | `controllers/restore_controller.go` | the `Restore` resource and its job | `Reconcile`, deletion |
| Configuration, operator process, API types, utilities | `internal/config`, `pkg`, `cmd/operator`, `api` | none that changes | loading, defaults, logging, metrics |

How they interact. A controller turns a resource into a config map and jobs,
one per worker; every pod of a backup runs `cmd/backup` with the same
configuration. The process creates and starts the backup through the service,
which leaves a coordinator and its workers behind as goroutines. Workers pull
from a consumer and put into the object store; after each segment they read,
modify and write the status in the state repository, as does the service, with
no lock. A restore lists the segments under the backup's prefix and produces
them in the order of their keys. Cancelling a context is the only way to stop
anything.

What is hard about it:

* *Interleavings*: pods and left-behind workers writing the same keys; status
  updates overwriting one another; `main` returning while a worker flushes.
* *Partial failure*: a put that fails in the loop, in the last flush, or after
  the store has taken the object; metadata that is not saved; a truncated file.
* *Ordering and staleness*: offsets read once while the log is trimmed and
  compacted; a phase checked in one call and written in another.
* *Crashes and retries*: pods start again from segment 0.

What makes a component correct:

* *Worker*: what a segment decodes to is a run of consecutive messages of its
  own partition; segments form a chain without holes; nothing stored is
  overwritten; a partition reported done is in the store; a cancelled worker
  stops, flushing what it holds.
* *Service*: counters count each put once, and what they claim is in the store
  as long as nobody has started the backup a second time; one coordinator at a
  time; a stopped backup stays stopped.
* *Restore worker*: produces each partition's segments once and in order,
  nothing from another partition, and says when something is missing.
* *Restore service*: the final status keeps what the workers counted.
* *Controllers*: every worker has a job and no job survives a suspension, while
  the resources a Backup refers to are there; terminal phases agree with the job;
  everything is retried after a failure.

## 2. Modules

| Module | Models |
|---|---|
| `PartitionCopy` | abstract: a copy of a partition that grows at its end and skips nothing |
| `TopicReplay` | abstract: attempts that deliver each partition's messages in order, once, and leave a trace of what they pass over |
| `BackupWorker` | the data path of a backup: polling loop, flush, store, metadata, cancellation, crash; several runs over one store |
| `BackupService` | the service's operations, the coordinator, the status everyone overwrites |
| `RestoreWorker` | the data path of a restore: topics, partitions, segments, messages; failures, cancellation, crash and restart |
| `RestoreService` | the restore service's operations, the coordinator's slices, the goroutine that completes a restore, the unlocked updates of its workers |
| `BackupController` | the reconciler of a `Backup`, over an API server with lagging caches |
| `RestoreController` | the reconciler of a `Restore`, over the same, and the Job controller |
| `EndToEnd_proofs` | composes `BackupWorker` and `RestoreWorker` over one object store, with its theorems |
| `MC*` | instances of each for TLC |
| `BackupWorker_proofs`, `SegmentChain_proofs`, `EndToEnd_proofs`, `BackupService_proofs`, `RestoreWorker_proofs`, `RestoreService_proofs`, `BackupController_proofs`, `RestoreController_proofs` | theorems (section 5) |

### BackupWorker and the code

A *run* is one execution of the worker for one topic. `pc[r]` is where it is:
`next` (the loop of `backupTopic`), `poll` (the loop of `backupPartition`),
`put`, `write` and `meta` (`flushBatch` before `Put`, between `os.Create` and
`io.Copy`, and before `SaveSegmentMetadata`), and how it ended. `batch`,
`segmentNum`, `total` and `offsets` are the locals of `backupPartition`; `why`
is the call site of `flushBatch`, because the three sites treat its result and
its start offset differently. Locals are reset where the code declares them.

The steps are cut where another process, the broker or a fault can come in: a
`Poll`, a `Put` (two steps on local files), a `SaveSegmentMetadata`. Data is
abstracted to what the properties tell apart: a message is its partition and
offset, an object is empty, torn or a sequence of messages, a key is partition
and segment number. JSON and gzip never fail on what the worker gives them and
are left out, as are metrics and `saveTopicMetadata` (no code reads its key).
The flush interval may pass before any message.

`Consumer` says which consumer the run is given. `"port"` does what
`repository.Consumer` says (`Seek` positions, `Poll` reads from there) and is
what the worker is written against. `"subscribed"` is `kafka.Consumer` after
`Subscribe`: `Seek` does nothing, `Poll` takes from any partition and answers
"none" when nothing has arrived. `"shipped"` is `kafka.Consumer` as the worker
leaves it: `Subscribe` is never called.

The broker is external: it appends messages and transaction markers (which take
an offset and are never delivered), trims the log at its start, and compacts it.
The proofs and the runs show the worker's guarantees against all of
this.

### BackupService and the code

A *client* is a process calling the service: with `Mode = "usecase"` any
operation in any order, with `Mode = "main"` what `cmd/backup` does. Each call
of an operation to the state repository is a step of its own, so a client holds
a stale `copy` between reading and writing, and so does a worker
(`workerCopy`). A started coordinator gives the topics to workers with
`TopicsOf`, where `hashTopic` is 0 as in the code. A flush puts one message under
the key of the topic's next segment, and every worker of every start begins at
segment 0: `store` is the set of keys with an object, `puts` counts the puts, and
the two part as soon as a second start writes over the first. What a segment
decodes to is `BackupWorker`'s. `Kill` takes the coordinators of a process
with it; `Restart` runs the process again.

The state repository the code builds is a stub (`GetBackupState` returns
`nil, nil`), so the module models what `repository.StateRepository` promises:
reads return the last write, updates replace the whole status, updating what is
deleted fails, and any call may fail without effect. An update that takes
effect and yet returns an error is not modelled.

### RestoreWorker and the code

One worker restores the topics its coordinator gave to it. `pc` is the loop it
is in: `topic` (`Start`), `ensure` and `list` (`ensureTopicExists`,
`getTopicSegments`), `part` (`restoreTopic`), `segment` (`restorePartition`),
`produce` (`produceMessages`). A step is one call to the store or to Kafka, or
one iteration that makes none.

A segment is `<<topic, partition, number>>`, `Stored` says how many messages it
has, a message is its segment and index. `InPartition` is what
`strings.Contains` does to a key, and `ListedBefore` is the lexical order of
keys in which both stores list them; numbers of more than six digits are longer
than their padding. `GetFinds` and `ListFinds` are what the two stores do to the
keys and prefixes of the repository. `target` is all the target cluster ever
received, with the run that produced it; `skipped` and `errors` are the traces
the code leaves of what it did not produce: a logged warning or error for a
message, `recordError` for a topic or a partition. A failing `SendMessage` may or
may not have delivered the message.

`Replay` maps the worker to `TopicReplay`: `Wanted` are the messages of the
topics and partitions the configuration selects, an attempt is a run of the pod,
and `Missed` are the messages the code logged and those of a partition or topic
it recorded an error for. Loops, segments and the listing are hidden; `sent`,
`counted` and the object store are not visible in it either.

A listing on S3 goes by prefix and also shows topics whose names are longer.
`SegmentsOfTopic` leaves them out: no key that S3 lists can be read back, so they
would only add warnings. A partition that is stored and missing from the topic's
metadata is excluded by `RestoreAssumption`.

The status itself is shared with other workers and is `RestoreService`'s;
`counted`, `completed` and `errors` are what this worker reports to it.

### RestoreService and the code

As `BackupService`, but an operation may pass through several calls, one step
each: `StartRestore` calls `ValidateRestore` (which writes the phase Validating
and, on failure, Failed), reads the metadata, and writes Running. The goroutine
it leaves behind *holds* the status it wrote (`held[k]`) and writes it again,
with the phase Completed, when all workers have returned. A worker restores
topics of its slice (`TopicsPerWorker`, `HasTopics`: `ceil(n/W)` each, as in
`Coordinator.Start`); each segment, each topic and each error of a topic or of
a partition ends with a read and a write of the whole status, which other
workers, clients and the goroutine may interleave. A partition that is given up
(`PartitionFails`) loses the segments that are left of it, and its topic goes on
and is completed all the same. `produced`, `outcome` record what really happened, to compare the
status with.

### The controllers and the code

`Reconcile` is cut at its calls to the API server, one step each, and runs on a
`copy` it read from a cache. A cache holds some earlier state: `SyncBackup`,
`SyncJobs` and their like bring it up to date at any time, and until then reads
return what it holds. A write of a resource is refused unless the object is
still the one that was read, as `resourceVersion` does; content stands for the
version, so an object that changed and changed back is not refused, which only
adds behaviours. Creating what exists fails. Calls fail and the operator is
restarted between any two of them, up to `MaxFaults`; users edit the spec, delete
the resource, delete Jobs, and delete or apply the `KafkaCluster` and the
`StorageConfig` of a Backup (`hasReferences`), up to `MaxEdits`. That one of these
two is missing is a lasting state and no fault: `GetReferences` comes before the
suspension, as in the code. Errors the code drops are steps too: a lookup of a Job
that fails leaves that worker out (`JobExists`), a `List` that fails makes the
deletion go on with no Jobs (`ListFails`). One reconciler at a time is assumed,
which `--leader-elect` provides (off by default in `cmd/operator`, on in the
chart), and a cache that never goes back. Which resources a Backup refers to does
not change. The Job controller and the garbage collector are external.

Both reconcilers return to the queue after errors and, for a `Restore` that runs
and a `Backup`, after 30 seconds: `Reconcile` is enabled whenever it is idle.

Left out: pod templates and the text of the config map. No pod of the operator
starts the programs of this repository as they are: the Jobs pass `--mode`,
which `cmd/backup` and `cmd/restore` do not define, and `config.yaml` has
`workers`, `compression`, `batch_size` at the top level, where `internal/config`
does not look for them. What a Job's pods do is therefore left open: they fail
or succeed at any time.

## 3. Runs

| Run | Checks | Shows |
|---|---|---|
| `worker_chain` | `TypeOK`, `ChainUnbroken`, `ReplayAscends`, `InteriorMetaMatches`, `WriteOnce`, `RefinesCopy` | one run over S3 on a log that changes in every way, with every fault |
| `worker_overlap` | `SegmentIsSlice` | two runs on local files, two partitions, write errors, crashes |
| `worker_live` | `ClaimsAreStored`, `CancelStops`, `OnlyPollHoldsUp` | what is reported done is stored as long as puts succeed; a cancelled worker stops, and nothing but `Poll` keeps one from its next partition |
| `service_counts` | `TypeOK`, `CountersNeverOverstate`, `OneStartCountsTheStore`, `WorkerSumWithinTotal` | two clients in any order, two coordinators, every fault |
| `restore_worker` | `TypeOK`, `RestoredInOrder`, `NothingVanishes`, `CountedIsRestored`, `RefinesReplay`, `EveryRunEnds` | two topics, four restores (mapping, filter, S3, a torn file), every fault, a restart |
| `restore_service` | `TypeOK`, `CountersNeverOverstate`, `ProgressIsEarned`, `CompletedIsOver`, `NoTopicForgotten`, `CoordinatorEnds` | three workers, one of them without a topic, and a client that calls what it likes, every fault |
| `operator_backup` | `TypeOK`, `StatusDescribesSpec`, `AcknowledgedSuspensionHolds`, `SuspensionStopsWorkers`, `WorkersAreStarted`, `DeletionCleansUp` | stale caches, edits, suspension, references that come and go, deletion, a fault |
| `operator_restore` | `TypeOK`, `CompletedHasSucceeded`, `CreatedOnce`, `ConditionsBounded`, `PhaseMovesForward`, `RestoreEnds`, `DeletionCleansUp` | stale caches, failing pods, deletion, a fault |
| `worker_put_error` | `ClaimsAreStored` | violated: the last flush's error is dropped |
| `restore_partitions` | `RestoredInOrder` | violated: partition 1 also replays partition 10 |
| `restore_status` | `ErrorsSurvive` | violated: completing a restore erases its errors |
| `operator_suspend` | `SuspendedIsPaused` | violated: the CronJob survives the suspension |

`end_to_end.cfg` checks `TargetAscends` and `PromisesAreKept` (section 5) on one
snapshot of one partition: the two workers interleave, the restore moves while the
store is in that state, both crash.

Eight more configurations show disagreements and limits that need no run of their
own (section 4): `worker_final_metadata`, `worker_exit`, `worker_shipped`,
`worker_rerun`, `service_pods`, `service_resurrect`, `service_restart` and
`operator_unreferenced`, each of which TLC ends with a counterexample to its one
property.

Bounds, and why they are enough.

* `BatchSize = 2`: a batch is empty, partial or full, and a segment can hold
  one message less than its neighbours.
* `MaxOffset`: 4 gives a partition three segments or more (full, cut by the
  interval, last); 2 gives two segments per partition in the runs that need two
  partitions or two runs.
* Two runs are enough for one to truncate, tear or replace what the other
  wrote. Runs and clients are interchangeable, hence the symmetry sets, used
  only in runs that check invariants.
* `MaxCoordinators = 2` and `MaxPuts = 2` in `service_counts`: one worker that was
  left behind and one that was started over it, which put one message each, or one
  of them two. `StartUpdate` and `Flush` wait when the bounds are reached; they
  remove behaviours and add none.
* `worker_overlap` keeps the log still: a changing log is in `worker_chain`, and
  both at once are covered by the proof.
* `restore_worker`: the stored segments are 2 and 10 (their order depends on the
  padding), an empty one, and one in another partition; topic 1 has none. Two
  runs of the pod suffice to see a replay. The hash of keys is one function:
  nothing that is checked depends on which, and the proofs hold for all.
* `restore_service`: two workers with a topic each make every pair of unlocked
  updates meet, and the third gets an empty slice; a shorter last slice needs three
  topics and is in the proof only. Four calls are enough to create, start, delete and create or
  start again under the workers. The run has one coordinator; two starts over
  one another, with one topic, were checked too, and the proofs are for any
  number.
* `operator_backup`: two workers make the loop of `reconcileJob` stop half way;
  two edits suspend and resume, edit and delete, or take the references away and
  bring them back; one fault lies between any two calls.
* `operator_restore`: `BackoffLimit = 1` lets a pod fail and the next succeed;
  the code's 3 adds more of the same.

Fairness. In `BackupWorker`, `LiveSpec` assumes weak fairness of the worker's own
steps (`OwnStep`): its goroutine is scheduled, and calls to the store, the metadata
and Kafka's offsets return, if only with an error. Nothing is assumed of `Poll`, of
the broker, of signals, crashes or `main`. `backupPartition` retries a failing `Poll` for
ever, and leaves a partition only on an empty one, never looking at `highOffset`: a
partition that fails, or is written, for ever does keep the worker from the next
(`worker.go:169-174`), in the code and in the model. `OnlyPollHoldsUp` says that this
is the only way: a run that does not come to its end is in `Poll` again and again.
`CancelStops` needs no more either, since a cancellation is noticed between any two
calls of `Poll`. In `RestoreWorker`, weak fairness is of all the worker's steps; it
retries nothing, which is what `EveryRunEnds` checks. In `RestoreService` only the goroutines of a
coordinator are fair; clients call what they like and when. In the controllers,
`Reconcile` is called again after each return (error, `RequeueAfter` or a watch
event), the informers deliver, pods end, and the garbage collector runs; users,
the clock of the CronJob, failures and restarts are free, and the last two are
bounded, so that a property about what holds in the end is about an operator
that is left in peace for long enough. `SuspensionStopsWorkers` and
`WorkersAreStarted` ask besides that the references of the Backup stay there.

Deadlock is checked in every run: `Terminating` and `Waiting` name the states
in which there is rightly nothing to do.

## 4. Divergences

Each violation run is a disagreement between the code and its own comments,
recorded in `PROJECT.json` with both places. Shown by a configuration of its
own, without being listed there:

* `worker_final_metadata` (`MetadataMatches`): the offsets saved for the last
  segment of a partition are not those of its messages (`worker.go:177`).
* `worker_exit` (`FlushedBeforeExit`): `main` returns on the same signal that
  makes the worker flush (`cmd/backup/main.go:91`).
* `worker_shipped` (`ClaimsAreStored`): nobody calls `Subscribe`, so every
  partition looks empty and is reported as backed up.
* `worker_rerun` (`ReplayAscends`): two runs under one backup ID leave segments
  that do not ascend.
* `service_pods` (`SingleCoordinator`): every pod of a backup starts all of it.
* `service_resurrect` (`StaysSuspended`): a flush of a worker that was left
  behind undoes `StopBackup`.
* `service_restart` (`CountsTheStore`): a second start begins at segment 0 and puts
  over the segments of the first, while `StartBackup` keeps the totals
  (`service.go:111`): `MessagesProcessed` then exceeds what is in the store.
* `operator_unreferenced` (`SuspendingStops`): a Backup whose `KafkaCluster` or
  `StorageConfig` is missing is Failed before its suspension is looked at
  (`backup_controller.go:69-92`), and keeps its Jobs.

Met while modelling, and visible in the models:

* `kafka.Consumer.Seek` is empty (`consumer.go:60`); with
  `Consumer = "subscribed"` in `worker_overlap`'s model, `SegmentIsSlice` fails.
* The flush on `ctx.Done()` runs on the cancelled context, which S3 refuses
  (`PutFails` with `why = "cancel"`).
* `StopBackup` stops no worker and `Coordinator.Stop` is empty.
* No code sets the phases Completed and Failed of a backup.
* The state and metadata repositories return `nil, nil`, which `StartBackup`
  dereferences.
* `hashTopic` is 0: all topics go to worker 0, whatever `Workers` says.
* `CreateProducer` asks sarama for an idempotent producer with more than one open
  request, which sarama refuses: with `Producer = "shipped"` no worker starts,
  and the coordinator still reports the restore Completed.
* `convertMessage` sets no partition, although `worker.go:286` says "Set partition
  explicitly": the hash of the key decides.
* Keys that `S3Repository.List` returns cannot be read back: `Get` puts the
  prefix in front once more. Every segment is skipped (`GetFinds`).
* A topic without segments is an error on local files (`ListFinds`).
* A restarted restore pod produces everything again; `OverwriteExisting` is read
  by nobody.
* `createTopics` of the service creates topics by their original names, the
  workers produce to the mapped ones.
* `cmd/restore` waits for the signal, not for the restore (`main.go:97` says "Wait
  for completion").
* A `Restore` is Failed at the first failed pod, while its Job goes on to its
  backoff limit and may succeed.
* After a change of mode or of the number of workers the former CronJob or the
  surplus Jobs stay.
* A failed `Backup` gets another condition every 30 seconds.
* Jobs are deleted with the default propagation of `batch/v1`, which leaves their
  pods running.

## 5. Proofs

All proofs hold for every value of the constants that satisfies the module's
`ASSUME`: any number of runs, partitions, clients and coordinators, any batch
size, either store, any faults.

* `BackupWorker_proofs!TypeCorrect`: `Spec => []TypeOK`. `TypeOK` bounds the
  batch and is not inductive: `TypeInv` adds that the polling loop is entered
  with room in the batch, and that a run inside a partition has
  `part[r] < NumPartitions`, so that a key names a partition. One lemma per
  group of actions; `RoomOfStep` carries the invariant over to the other runs.
* `BackupWorker_proofs!SegmentsAreSlices`: with `Consumer = "port"`,
  `Spec => []SegmentIsSlice`. What is stored is only a slice because the batch
  was one, and stays one only because later messages lie above it. `SliceInv`
  says so: the log lies below its end, the batch of a run inside a partition is
  a slice whose end is right before the consumer's position, and every whole
  object is a slice below the log's end. `AppendSlice` is the step of the loop,
  `SliceOfLaterLog` the broker's. The theorem needs no assumption on how many
  runs share the store, which TLC checks for two.

* `SegmentChain_proofs`, for `Consumer = "port"` and a backup that is run once
  (`OneRun`; `worker_rerun` shows that two runs break the chain):
  * `ChainIsUnbroken`: `Spec => []ChainUnbroken`. A new segment joins the chain
    only because its key is free, everything below it is whole, and its batch
    continues the last segment. `KeysInv` and `LinkInv` say so, the latter of
    the batch, or of the consumer's position while the batch is empty.
  * `StoredOnce`: `Spec => WriteOnce`, from the same invariant: `StoreAtKey`
    shows that the key written is never that of a whole segment.
  * `BackupIsACopy`: `Spec => RefinesCopy`, the refinement of `PartitionCopy`.
    `ChainUnbroken` relates neighbours only; `AboveInv` adds that all segments
    of the partition end at the last one's end, so that a batch lies above the
    whole copy. `StoreRefines` maps a stored batch to `CopyChunk`; an empty or
    torn object, and every other step of the worker, is a stutter.
  * `SegmentsAscend`: `Spec => []ReplayAscends`. `AboveInv` puts a new segment
    above all the others of its partition, not above its neighbour only.
  * `ClaimsAreTrue`: `Spec => []ClaimsAreStored`, if also `PutsSucceed`: no put
    fails, and S3 is not called on a cancelled context. `worker_put_error` is the
    counterexample otherwise. The claim is made when the log has changed for long,
    so `CoverInv` follows the whole loop: every message from the low offset up to
    the consumer's position is stored or in the batch, and the last flush is
    entered with nothing left to read below the high offset. `ClaimInv` says that
    what was claimed lies below the log's end, so that no later message falls
    into it; `StoredKept` says that what is stored stays stored.
  * `InteriorMetaIsRight`: `Spec => []InteriorMetaMatches`. The worker computes
    offsets from counters; `ExactInv` says what these have to do with the batch on
    a log without holes, and `MetaInv` which segments were flushed by the loop:
    metadata is wrong for the last one of a partition only, and that one gets no
    successor.
* `EndToEnd_proofs`: a backup and a restore over one store. `BackupAndRestore` is the
  conjunction of both specifications and of `Handover`, which says that at some time
  the store was in the state the restore works on (`Snapshot`) and that the backup
  had by then reported the messages `Promised`. The restore sees one state of the
  store, be it one the backup is still changing or left behind in a crash; a restore
  that sees several is not covered.
  * `SourceOrderIsKept`: `BackupAndRestore => []TargetAscends`, the order of offsets in
    the source. `AlwaysAscending` says of every reachable store what is needed of a
    snapshot (from `SegmentsAreSlices` and `SegmentsAscend`), and `OrderCarriesOver`
    takes `RestoredInOrder`, which speaks of keys and indices, to offsets.
  * `PromiseIsKept`: `BackupAndRestore => []PromisesAreKept`, from `ClaimsAreTrue` and
    `NothingIsLostSilently`, with their hypotheses.
* `BackupService_proofs`, for any number of clients, workers and coordinators:
  * `TypeCorrect`: `Spec => []TypeOK`; a status written back has a slot for
    every worker that indexes it.
  * `CountersAreHonest`: `Spec => []CountersNeverOverstate`. Stale copies are
    written back at any time, so the invariant has to speak of every status
    held anywhere: `CountInv` bounds each of them by `Countable`, the puts
    less the flushes that are still to be counted, and `Countable` never
    decreases.
  * `OneStartCounts`: `Spec => []OneStartCountsTheStore`. As long as there was one
    start, every put adds a key to the store, since each topic has one worker and
    that one its next segment: `StoreInv` says that what is stored is below the next
    segment of some worker, and that puts and keys are then equally many. With
    `CountersAreHonest` this bounds the total by what is stored. Without the
    hypothesis it is false (`service_restart`).
  * `WorkersAddUp`: `Spec => []WorkerSumWithinTotal`, with the same reach
    (`BalanceInv`). The sum over the workers is a fold over a finite set. The
    library's induction theorems take an operator and cannot be used, so
    `SubsetInduction` states induction over finite subsets with the set of the
    subsets for which something holds, from the well-foundedness of the strict
    subset ordering; `SumsExist` and `SumAfterOneMore` are what it is needed for.

* `RestoreWorker_proofs`, for any backup, restore, hash of keys and faults:
  * `TypeCorrect`: `Spec => []TypeOK`. `LoopInv` adds that the locals of
    `produceMessages` are fresh between segments, and that the loops are in range
    where their bodies run.
  * `CountIsHonest`: `Spec => []CountedIsRestored`. `SendsOne` says that a step
    adds at most one message to the target; `RunInv`, that no later run is in it
    yet, so that a restart begins with nothing produced and nothing counted.
  * `NothingIsLostSilently`: `Spec => []NothingVanishes`. Completion is reported
    long after a segment was skipped, so `CoverInv` follows the three loops: all
    completed topics, the finished partitions of this one, the segments no longer
    pending and the messages before the index are covered. `Monotone` shows that
    what is covered stays covered within a run.
  * `ReplayKeepsOrder`: `Spec => []RestoredInOrder`, if `FewAndPadded`: at most ten
    partitions and segment numbers of six digits. `restore_partitions` is the
    counterexample otherwise. `BehindInv` says where the messages of this run
    lie: in earlier topics or partitions, or before everything that is pending.
  * `RestoreIsAReplay`: `Spec => RefinesReplay`, the refinement of `TopicReplay`, if
    `FewAndPadded`. It combines the others: a message may be sent because nothing
    later was (`BehindInv`), everything earlier is covered (`CoverInv`), and the
    loops are only where something was asked for (`WantedInv`). A send maps to
    `Deliver`, with a trace if its answer was an error; a skipped segment or a
    recorded error to `Miss`, or to a stutter if it says nothing new.
* `RestoreService_proofs`, for any number of clients, workers, topics, segments and
  starts:
  * `TypeCorrect`, and `CountersAreHonest`, whose invariant bounds every status
    held anywhere, as in `BackupService_proofs`.
  * `CompletedMeansOver`: `Spec => []CompletedIsOver`. A stale copy with the phase
    Completed may be written back long after, so `SettledInv` speaks of every status
    held anywhere, and a coordinator that is over has to stay over.
  * `EveryTopicEnds`: `Spec => []NoTopicForgotten`. `SlicesCover` and
    `SlicesDisjoint` are the arithmetic of `ceil(n/W)`; `SliceInv` says that each
    topic has an outcome or is still ahead of the worker whose slice it is in.
  * `ProgressIsHonest`: `Spec => []ProgressIsEarned`.
* `BackupController_proofs`, for any number of workers, edits and faults:
  * `TypeCorrect`, and `StatusIsHonest`: `Spec => []StatusDescribesSpec`.
    `StatusInv` says that a phase about to be written agrees with the copy it was
    decided on, which can only be written while it is the Backup in the API
    server, and that no status is ahead of the spec.
  * `SuspensionHolds`: `Spec => AcknowledgedSuspensionHolds`. While the status does
    not acknowledge a suspension, a `reconcileJob` that began before it may still
    create Jobs; afterwards none can. `CacheInv` says why: one Reconcile runs at a
    time, its copy is never ahead of the cache, and the status can only be written
    from a copy of the current generation, so that by then the cache has this
    generation too and no earlier copy is ever read again.
* `RestoreController_proofs`: `TypeCorrect`, and four results for any backoff limit
  and any number of edits and faults:
  * `PhaseOnlyForward`: `Spec => PhaseMovesForward`. `ViewInv` says what the
    reconciler knows of the copy it decides on: it is not over, and Validating is
    written over the empty phase only. A copy that is outdated cannot be written.
  * `CompletedIsTrue`: `Spec => []CompletedHasSucceeded`; `SuccessInv` traces every
    Completed, and every succeeded Job in the cache, to a Job that has succeeded.
  * `OneJobForEachDeletion`: `Spec => []CreatedOnce`; `JobInv` adds that, while
    the reconciler may still create a Job, each Job that is gone has been deleted by
    a user, and `DeletionInv` when it may no longer.
  * `FewConditions`: `Spec => []ConditionsBounded`; `ConditionsInv` adds what each
    phase has used up of the bound, and that a copy that is up to date still has
    the room for the update it is about to make.

What rests on what: `BackupWorker_proofs` is used by `SegmentChain_proofs`, and
that, with an instance of `RestoreWorker_proofs`, by `EndToEnd_proofs`; the others
stand alone. `Consumer = "port"` is a
hypothesis about the consumer's contract, which the shipped one does not meet
(section 4); `OneRun` is one about how the backup is used; `PutsSucceed` is one
about the store; `FewAndPadded` is one about the backup. Each has a run or a
configuration that shows what happens without it.

Every invariant, action property and refinement that a passing run checks is also
proved. Out of the prover's reach, and checked by TLC only: liveness under
fairness (`CancelStops`, `OnlyPollHoldsUp`, `EveryRunEnds`, `CoordinatorEnds`,
`SuspensionStopsWorkers`, `WorkersAreStarted`, `DeletionCleansUp`, `RestoreEnds`)
and anything with `ENABLED`.

## 6. Plan and limits

The order in which the modules were written is that of section 2. What would come
next: abstract specifications of the two services, whose proofs are about their
counters and phases one by one, and a restore that runs while the backup changes
the store under it, which `EndToEnd_proofs` leaves out.

Not modelled, and why:

* `internal/config` and `pkg/config` load, default, validate and convert a
  configuration once, before anything runs, and the models begin with what they
  accept. `Validate` takes `azure` and `gcs`, which `NewRepository` then refuses.
* `internal/infrastructure/storage/storage.go` is a second interface with its own
  implementations that no binary builds.
* Logging, metrics, error wrapping, compression and the hash helper of `pkg` have no
  state that a property depends on; `ConsistentHash` is called by nobody.
* API types and generated deep copies declare data; what the reconcilers use of it
  is in the two controller modules.
* Of the Kafka client and the stores, the operations without a caller
  (`ProduceBatch`, offset commits, `Exists`, `Delete`, `GetMetadata`).
* `cmd/operator` wires the manager: flags, leader election and probes are
  controller-runtime's; one reconciler at a time and its restart are in the models.
