# lora_finetuning: TLA+ models and proofs

This directory specifies the concurrent and crash-prone parts of the LoRA
fine-tuning loop in `src/`, model-checks them with TLC on small instances and
proves their safety properties with TLAPS for every value of the constants: of
the adapter hand-off, the provenance of the manifest, the converter and what it
makes of one recording, the delivery from the robot, and the trainer loop. Paths below are relative to `src/`.

## 1. The system

Three machines, four long-running processes:

```
 robot PC                workstation                               workstation or GPU box
 demo_sender  --rsync/mv-->  ingest dir --> realtime converter --> round datasets --> trainer (DAgger loop)
 robot client <--gRPC-->  LoRA policy server <----- GetLatestAdapter (gRPC stream) ----- adapter publisher
                               | status file (adapter version) --> converter (manifest rows)
```

### Inventory

| Component | State | Operations | Interacts with | What is hard | What makes it correct |
|---|---|---|---|---|---|
| Adapter publisher (`common/transport/publisher.py`) | `_latest`, `_weights` under a lock | `publish`, `GetLatestAdapter` | trainer thread, gRPC threads | publish during a stream; restart numbers versions from 1 | a stream is one snapshot |
| Wire format (`common/transport/wire.py`) | assembler's `_meta`, `_buf`, `_dirs`; files on disk | `iter_chunks`, `add`, `cleanup` | publisher, client | streams cut at any chunk; the same version received again | what completes is whole; what is returned is not pruned |
| Adapter client (`common/transport/client.py`) | `_loaded_version`, assembler | `fetch`, `mark_loaded` | publisher, policy server | documented as not thread-safe, shared by four handler threads | no broken stream raises or leaves bytes behind that matter; never returns an old adapter |
| Applier (`common/transport/applier.py`) | `peft_model` | `apply` (inject once, then overwrite) | policy object | the policy object is replaced at a handshake | the current policy gets the adapter |
| Policy server (`common/policy_server.py`) | `policy`, `adapter_version`, status file, `_adapter_lock` | `SendPolicyInstructions`, `_predict_action_chunk`, `_sync_adapter` | all of the above, the robot | handler pool; load errors; reporting; a restart forgets all but the status file | serves what it reports, newest eventually |
| Realtime converter (`workstation_pc/realtime_converter.py`) | ingest directory (the queue), datasets, manifests, `round_idx`, `_stop`, `_gpu_paused` | scan, throttle, convert, record, dispose, roll over | sender, trainer, status file, GPU | crash between any two of finalize, manifest, delete, rollover; partial failures; thresholds with hysteresis | no episode lost, no round overfull, every file leaves the queue, a stop ends it |
| `_convert_one` and the episode reader (`common/hdf5_episode.py`) | window of decode jobs, episode buffer | verify, read, check, open, decode, add frames, save | LeRobot writer, HDF5 file, thread pool | jobs finish in any order; every defect a file can have has its own way out; flat files have their own order of columns | stored whole, in order and intact, or not at all |
| Schema (`common/schema.py`) | none | mode table, projection | converter, robot client | eight hand-written tables | a column holds the channel it is named after |
| Manifest and status file (`common/manifest.py`) | append-only JSONL, one JSON file | `append`, `write_policy_status`, `read_policy_status` | converter, policy server | row against episode after a crash; half a row; version read long after the episode | rows name their episodes; versions are never too old |
| Trainer (`common/trainer.py`) | `have`, `trained_through`, `global_step`, `version` | DAgger loop: count, wait, build, train, publish; single-shot loop: train, publish | converter (through files), publisher | files grow between count and build; torn reads; empty loaders; step cap; Ctrl-C | no intervention skipped, all of them trained, cap exact, one version per period |
| Demo sender (`robot_pc/demo_sender.py`) | local files, remote staging names | scan, sidecar, upload, reveal, reclaim | converter's ingest directory | lost acknowledgements, crash between the steps | exactly what was recorded arrives, whole |
| Configs, `_cli`, entry points, generated gRPC code | none | validation, argument spelling | all | | see section 8 |

The hazards of this code, each at its line, are the `hazards` of `PROJECT.json`;
the properties were chosen for them.

## 2. Modules

| Module | Models | Kind |
|---|---|---|
| `AdapterWire` | `wire.py`: chunks, assembler, local directories | operators, no variables |
| `AdapterSync` | publisher, client, applier and policy server together (EXTENDS `AdapterWire`) | state machine |
| `AdapterHandOff` | what the hand-off promises, in version numbers only | abstract specification, implemented by `AdapterSync` |
| `AdapterSyncProofs`, `AdapterHandOffProofs` | theorems about `AdapterSync`, the second with pruning and the refinement | proofs |
| `Provenance` | the status file between the policy server and the manifest (EXTENDS `AdapterSync`) | composition |
| `ProvenanceProofs` | theorems about `Provenance` | proofs |
| `Converter` | the converter daemon, its throttle, its files and its manifest | state machine |
| `IngestQueue` | what the ingest directory promises | abstract specification, implemented by `Converter` |
| `ConverterProofs`, `SetFacts` | theorems about `Converter`; a lemma on sets of naturals | proofs |
| `Schema` | `schema.py`: channels, modes, projection | operators, no variables |
| `Conversion` | `_convert_one` with the episode reader, for one recording (EXTENDS `Schema`) | state machine |
| `ConversionProofs` | theorems about `Conversion` and `Schema` | proofs |
| `DemoSender` | the sender daemon, its commands and what they leave in the ingest directory | state machine |
| `Pipeline` | `DemoSender` composed with `Converter` through the ingest directory (EXTENDS `Converter`) | composition |
| `PipelineProofs` | theorems about `Pipeline` (EXTENDS `ConverterProofs`) | proofs |
| `TrainerLoop` | the trainer's two loops against a growing set of datasets | state machine |
| `TrainerLoopProofs` | theorems about `TrainerLoop` | proofs |
| `MCAdapterSync`, `MCConverter`, `MCConversion`, `MCPipeline`, `MCTrainerLoop` | values for the constants, symmetry | model checking |

Operators commented as mutants are plausible bugs of the definition that
follows; no specification uses them. They document that the property is able
to fail.

### AdapterSync

Variables are the Python attributes: `served` is `_AdapterServicer`'s
`_latest`/`_weights`; `asm`, `dirs`, `disk`, `loaded` the client with its
assembler; `policy`, `injected`, `weights`, `adapterVersion`, `status`, `lock`
the policy server with its applier. Each handler thread of the gRPC pool has a
control state:

```
idle -Handshake/PredictChunk-> sync -Fetch-> stream -Receive*-> drained -FinishFetch-> fetched
     -ApplyOk (takes the lock)-> reporting -WriteStatus (releases it)-> ready -BeginForward-> forward -> idle
```

`StreamFail` leaves `stream` or `drained` with the assembler as it was,
`ReceiveError` is the `OSError` of `_materialize`, which nothing between it and
gRPC catches: it ends the call, with the directory incomplete and the whole
adapter still in the buffer. `ApplyError` leaves `fetched` without `mark_loaded`. One action is what a
thread does between two points where another thread, or the trainer, can act:
the request and the snapshot it takes (`Fetch`, with the publisher's lock),
each chunk (`Receive`), the pruning (`FinishFetch`), the swap (`ApplyOk`), the
status file (`WriteStatus`).

Abstractions: an adapter's bytes are `NChunks` slices labelled with the adapter
they come from, so that a mixture is visible; `Loadable` (external) says what
safetensors checks, the header and the size. A policy object is a number, and
`weights[p]` is what it runs with, empty for the base policy. Reading the file
during a load is one step with the swap, so a load that overlaps another
thread's `_materialize` has only the outcomes before and after it. The server
is configured with an `adapter_addr` and a `version_status_file`; without the
first it is the stock server, without the second `status` has no reader.
`Reboot` is a crash and restart of the policy server at any moment, bounded by
`MaxReboots`: calls, client, applier and policies are gone, the status file and
the directories stay, whose root is a fixed path. `newest` is the highest version
published by any trainer process; the code has no such variable, and only the
refinement mapping reads it.

### Provenance

The robot records an episode on forward passes (`ran` collects the versions);
later, perhaps twice, the converter writes a row for it. `RowVersions` is the
recorder's tag, which the recorder may leave out, or else `ReadStatus`: the
version in the file, or none (0), which is what `read_policy_status` returns for a
file that is missing or cannot be read. All actions of `AdapterSync` go on
meanwhile. The status file is never read in half: it is replaced by a rename.

### Converter

`place` says for each episode file where it is (`robot`, `fresh` in the ingest
directory but younger than `min_age_s`, `ready`, `done`, `failed`); `datasets`
and `manifest` are what LeRobot and `DaggerManifest` keep on disk; `proc`,
`round`, `batch`, `stop` is the process, of which a crash keeps nothing.
Actions follow `run()` and `_convert_one`:

```
scan -> next -> throttle -Clear-> convert -Finalize-> finalized -Record-> recorded -Dispose-> disposed -Rollover-> next
                                     |-Reject------------+-RecordError--------> quarantine -Quarantine-> next
                                     |-Escape-> down
```

The configuration `cfg` is chosen at the start from `Configs`, of which only
those that `RealtimeConverterConfig.__post_init__` accepts (`Accepted`) get
there, and never changes. What reading a file leads to is its `Kind`: `good`,
`skipped` (0 frames or filtered), `refused` (one of the exceptions `run()`
catches) or `poison` (another one); `Conversion` has what is behind it. `Crash`
is possible in every state, and `Start` finds the round again from the datasets
alone. A count that cannot read or parse `info.json` is 0: `SeenOpen` is a
dataset that is found not to be full, truly or for that reason
(`countFaults`), at the rollover test and at a start, and `Candidates` are the
rounds that `_initial_round` may stop at. Files appear in any order, and `batch` is handed out in the order of
their names. `NRounds` bounds the rounds that can be told apart;
`RoundsAssumption` makes it larger than any number of episodes that files and
crashes can lead to, so that no behaviour ends at the bound (`TypeCorrect` proves
that `round_idx` never passes it, and `DeliveriesAssumption` is the same for
`Pipeline`). External and atomic: the LeRobot writer, from `save_episode` to the
end of `finalize`.

`machine` is what the throttle can look at, the pause-file and the utilization
that `nvidia-smi` reports or `NoReading`, and changes at any time. `Hold` is a
look that keeps conversion waiting, `Clear` the one that lets it begin; both
keep `_gpu_paused` as the code does (`GpuPaused`): a pause-file hides the GPU,
an unreadable one clears the state. `RecordError` is an I/O error in the
manifest's `append` that leaves nothing, a part or all of the row; a row
appended after a part goes on the same line, and neither can be read
(`AppendLine`).

`IngestQueue` knows only where a file is and how often it was stored: a file is
finished only when stored, and nothing comes back. `ImplementsQueue` is the
refinement.

### Schema and Conversion

A channel is `<<"arm_left", 0>>`. `Schema` is the table of modes as it is
written in the source, its state and action channels and its cameras, with
`projection_indices`; the publish and unused flags, which only the robot client
reads, are left out. That the parts of the table agree with each other and with
the assertions of `schema.py` is the assumption `SchemaConsistent` of
`Schema`. It has no constants in it: TLC evaluates it before the run, and that decides it.

`Conversion` takes one recording through `_convert_one`:

```
verify -> read -> check -> open -> (fill -> take)* -> fill -> save -> done
```

`Fill` submits decode jobs up to the window of `num_decode_workers + 2`,
`Decode` is a worker finishing one of the jobs that may be running, `Take` waits
for the oldest. `Fault` says what decoding a row raises, and whether `run()`
catches it: that, the checks and `Verify` decide between the outcomes
`converted`, `skipped`, `refused` and `escaped`, the four kinds of `Converter`.
`Unwind` is the pool's exit and the `except` clause. A recording has its
sidecar, schema version, task, lengths of state, action and flags, gripper
width (schema 1.0, whose groups the reader puts together in its own order) or the
channels of its flat vectors (schema 2.0, taken in the order they have), and images that are `jpeg`, `corrupt` or `empty`. A frame carries the row
its parts come from instead of their data, and a column the channel it was
recorded from.

### DemoSender and Pipeline

`local` is the episode on the robot (`recording`, `pending`, `sent`: deleted, or
moved with `--keep_local`); `phase` is where `_send_one` is; `sidecar`, `staged`
and `place` are the three files in the ingest directory. `Command` is an rsync
or ssh command that succeeds. `CommandFails` is a `CalledProcessError`: the
command may have had its effect or not, and `rsync --partial` may have left a part
of the sidecar, or of the body under the staging name. `SenderCrash` treats the command that was running
in the same way. `StopNow` is `request_stop` at the points where the loop reads
the flag. `--dry_run` is left out.

`Pipeline` has both sets of variables. `Revealed` replaces the converter's
`Arrive`, so a file can come again after, or while, it is converted; the
converter's `Dispose` and `Quarantine` take the sidecar along (`TakeAway`). The
converter's other actions are those of `Converter`, unchanged. The deletion of
the body and of the sidecar is one step here. `SenderStep`, `ConverterLoop` and
`ConverterAround` are the disjuncts of `AllNext`; the specification is
`AllSpec`, since `Converter` has names of its own for these.

### TrainerLoop

`visible` counts the episodes in the round datasets; all else is a local
variable of `_run_dagger_loop` or `train` (`have`, `trainedThrough`,
`globalStep`, `version`), the loader built last (`mix`) and the adapter served
(`published`, with the data behind it). `cfg` chooses between the loops, as
`LoRATrainerConfig` accepts it. Counting (`Check`, `Wait`), building (`Build`),
training (`Train`, one optimizer step each) and publishing are separate, so that
`AddEpisode`, the converter, comes in between. A count that meets an
`info.json` being rewritten takes the growing round as empty. `BuildFails` is
the `ValueError` of SIRIUSDataset (external) when no frame is an intervention,
or of a build that meets a torn file. `Starve` is the uncaught `StopIteration`
of a loader without a full batch (`Batches`), which ends the process.
`SingleStep` and `SingleEnd` are the single-shot loop. `Interrupt` is Ctrl-C in any
state: it ends the DAgger loop before its cap, and the trainer goes on serving
(`interrupted`); anywhere else, and the second time, it ends the process.

## 3. Runs

| Run | Constants that matter | Checks | Shows |
|---|---|---|---|
| `SyncOneHandler` | 1 thread, 2 trainer processes, 3 versions, 2 handshakes, 1 fault, 1 server restart, 2 chunks, `keep_last` 2, 1 episode, 2 rows | `TypeOK`, `AppliedIsWhole`, `SwapOnlyNewer`, `PrunedOnlyAfterErrors`, `ImplementsHandOff`, `RowNeverOlder`, `RowsInVersionOrder` | cut streams, failed writes and loads, restarts of either side and reconnects never apply a partial adapter, never go back, and refine `AdapterHandOff`; what the status file is worth to the manifest |
| `SyncTwoHandlers` | 2 threads, 1 trainer process, 3 versions, 1 handshake, 1 fault, 1 server restart, `keep_last` 5 | `StatusAgrees`, `ServesWhatItReports`, `EventuallyServesLatest` | what two overlapping handlers leave is truthful, and live |
| `SyncReconnect` | `reload_on=handshake`, 2 handshakes | `ServesWhatItReports` violated | finding 1 |
| `SyncMixed` | 2 threads, 3 chunks | `AppliedIsWhole` violated | finding 2 |
| `SyncRestart` | 2 trainer processes | `EventuallyServesLatest` violated | finding 3 |
| `SyncPruned` | 1 thread, 1 version, 3 faults, `keep_last` 3 as in the code | `FetchedIsOnDisk` violated | finding 5 |
| `ConverterRounds` | 4 files (good, refused, good, poison), rounds of 2 and a single dataset capped at 2, 2 crashes, 1 manifest error, 1 unreadable count | `TypeOK`, `NoEpisodeLost`, `DuplicatesNeedCrashes`, `RoundsInOrder`, `RoundsNotOverfull`, `RowsTrue`, `RowsAccounted`, `ImplementsQueue` | crash safety |
| `ConverterService` | 3 files (good, skipped, good), rounds of 1 and a capped single dataset in run-once jobs, a crash, a manifest error, a stop; utilization 40, 50, 60 or unreadable around thresholds 60/40, pause-file | `QueueDrains`, `StopEnds` | the queue empties and stops end the process |
| `ConverterPoison` | 2 files, the first poison | `QueueDrains` violated | finding 4 |
| `Conversion` | a good recording of 5 rows and 29 with one defect or peculiarity each, among them flat ones in four other orders or widths; 9 spellings of 8 modes, 0 to 3 workers, checksum on and off, task filters; no dataset yet, a new one, an old one without the flag column; 1 writer error | `TypeOK`, `FramesTrue`, `AllOrNothing`, `ChannelsTrue`, `ConvertedIsIntact`, `Ends` | exactly what is intact and wanted is stored, in order, and from the right channels just when the recording has them in place |
| `TrainerRounds` | 5 episodes, 2 per round, the first without interventions, no full batch before the third; caps 7 and none with `publish_freq` 2; single shots of 5, 4, 0 and -1 steps; 1 torn count, 1 torn build, 1 crash, 2 interrupts | `TypeOK`, `StepCapExact`, `NoInterventionSkipped`, `PublishesEveryPeriod`, `VersionsAdvance`, `InterventionsAreTrained` | the loops' counters |
| `PipelineDelivery` | 2 episodes, a round of 2, 1 failed command, 1 sender stop, 1 crash of either process, `--checksum`, `--run_once` sender | `AllTypeOK`, `RecordedIsKept`, `DuplicatesAccounted`, `NeverHalfUploaded`, `EveryRecordingLands` | at-least-once delivery from end to end |

### Why the bounds are enough

* Two trainer processes show what a restart leaves behind in the client, and
  three versions let an adapter be skipped and another be overtaken while one
  is streaming. Two chunks have a first and a last one, and the error can be a cut
  stream, a failed write, a failed load or a failed status write, before or after
  the restart of the server; `SyncMixed` and `SyncPruned` are there for what takes more
  of them. (For one handler the theorems of section 6 have no bounds.)
* `keep_last` 2 with 3 versions and 1 fault prunes, and a directory of the fetched
  version's name is not the one pruned. `keep_last` is a parameter of
  `cleanup`, 3 by default; `SyncPruned` has the default.
* In `SyncTwoHandlers` a version is one chunk: what two handlers do to each other's
  streams is finding 2, and what is left is the order of swaps, marks and status
  writes. `keep_last` 5 is the first value at which the directory of the newest
  version stays; see below.
* Two crashes hit the converter once on each side of a rollover, and the unreadable
  count comes at the rollover or at a start; four files fill
  two rounds of two with the duplicate of a crash.
* In the pipeline one failed command and one crash of each process are enough to
  deliver an episode three times, while and after it is converted; a second
  episode is there to be delayed by the first.
* The utilizations are one at each threshold and one between them; what lies
  beyond a threshold is told apart from it by neither test.
* Two rows are enough for one to be older, newer or out of order, and they may be of
  the same episode, converted twice; versions, a reconnect and a restart of the server
  can fall before, between and after them.
* Five rows are more than the window of one or two workers (3, 4) and as many as
  that of three, so that the last rows are submitted one by one, together or
  with the first ones. `Ends` would find a wait of the calling thread for the pool
  that never ends.
* A cap of 7 with rounds of 2 makes the last round short, and five episodes
  make more than one round necessary; the torn read can hit any of the counts, the
  first interrupt ends the DAgger loop at any point and the second the process.

`CHECK_DEADLOCK FALSE` is used where the system does stop: a full single
dataset ends the converter for good, the capped trainer loop ends and only
serves, `_convert_one` returns, and no further row is asked of `Provenance`.

### Where passing runs end, and why

A property that passes under a bound is not claimed beyond it. These constants
are at values where the code does have the property; the neighbouring ones do not:

* `SwapOnlyNewer` and `AppliedIsWhole` fail with two handler threads (two fetches in
  flight, applied in the wrong order or mixed in one buffer), and so do
  `RowNeverOlder` and `RowsInVersionOrder`.
* `RowNeverOlder` and `RowsInVersionOrder` are about the time when one trainer process
  has run (`run <= 1`), though both have two: a second numbering begins again, and the
  status file goes back once the policy server is restarted too. `RowNeverOlder` is
  about errors of no kind (`faults = 0`): a status file that could not be written
  stays behind until the next swap. It bounds the row from one side only: a
  version swapped in after the episode may be named. Rows that could read no version say
  nothing.
* `StatusAgrees` excepts a server that was restarted and has loaded nothing yet: the file
  still names the adapter of the process before, while the base policy serves.
* `NoInterventionSkipped` and `InterventionsAreTrained` except a build that meets a torn
  file: `build_dagger_dataloader` raises a `ValueError`, which the loop takes for a lack of
  interventions (`trainer.py:277`), and the episodes wait for the next one.
* `ChannelsTrue` says when the columns are right, not that they are: a flat recording
  (schema 2.0) in another order than `STATE_KEYS` is stored under the names of the
  schema, since the check that is to "fail loud" on misaligned channels compares widths
  (`realtime_converter.py:407-416`). The run stores such episodes, and the modes that
  read none of the fields out of place store them truly.
* `ConvertedIsIntact` excludes `num_decode_workers` below 1, which no check refuses:
  every good episode is then set aside.
* `ServesWhatItReports` fails with a second handshake (finding 1).
* `PrunedOnlyAfterErrors` says how many errors finding 5 takes, for one trainer process;
  the versions of a second one reuse the directory names that the entries of the first
  one still hold.
* `EventuallyServesLatest` fails with a second trainer process (finding 3), and where
  directories are pruned: with one handler from `keep_last` errors on, since a version
  once pruned at its reception is so at every later one. With two overlapping handlers and
  `keep_last` 3, the code's default, it fails with no error at all: the handler that
  fetched the older version applies it last, so that the newer one is fetched again at
  every chunk, as many times as it takes for its own older entry to be pruned under the
  same name, and is not loaded again until something newer is published. 4 needs one
  error for that, and 5 stands one error.
* `RoundsNotOverfull` allows one more episode per failed manifest row
  (`manifest.append` fails after `finalize`, `run()` quarantines the file and
  skips the rollover test) and per `info.json` that could not be read
  (`_episode_count_at` returns 0, so that a full round is found open).
* `StepCapExact` and `PublishesEveryPeriod` say for an interrupted loop only what is
  being served, not that the cap or the end of the period was reached; `InterventionsAreTrained`
  excepts it.

## 4. Findings

Each is a run of kind "violation"; `PROJECT.json` has the lines and quotations.

1. After a reconnect the new policy runs without the adapter that the server
   reports (`applier.py:24`).
2. Handlers of the pool share one client outside the lock, and an adapter made
   of two is applied (`policy_server.py:95,143`).
3. A restarted trainer's adapters are ignored until its numbering overtakes the
   old one (`trainer.py:387`).
4. An exception outside the caught ones ends the converter at every restart,
   with the file still first in the queue (`realtime_converter.py:547`).
   `Conversion` lists such files: a blank sidecar, a camera without images or with
   fewer than rows, 0-byte images after the first, fewer actions than states.
5. A version that was received `keep_last` times and not applied is pruned by the fetch
   that receives it next, which then returns a removed directory (`wire.py:154`, against
   `wire.py:106`, "``cleanup`` prunes old ones").

Also seen, and not a run: `_sync_adapter` is said never to raise (`policy_server.py:87`),
and an `OSError` while a received adapter is written goes through it and ends the
handshake or the chunk request; with two handlers a swap can overwrite the weights that
another one's forward pass is reading (`policy_server.py:84`, against line 12, "never in
the middle of a forward pass"); an `info.json` that cannot be read lets the converter
go on filling a full round, or a full single dataset (`realtime_converter.py:235`);
`trainer.py:183` sorts the round directories as
strings, so `_round10` comes before `_round2`, where the comment at line 219
asks for round order; a crash between `finalize` and the manifest row shifts all
later rows of that dataset by one line against `manifest.py:11` (the rows'
`episode_index` stays true: `RowsTrue`); an episode that arrives between the
trainer's count and its build is trained on and then counted as new, so that one
more round runs on the same data (`trainer.py:349`, against `configs.py:108`);
`realtime_converter.py:20` says that the robot keeps the raw recording, which
the sender deletes unless `--keep_local` is given; the adapter version of an untagged row is the one live at
conversion, not "when it was collected"; the single-shot loop publishes the same
step twice when `steps` is a multiple of `publish_freq` (`trainer.py:502`); a torn
manifest line makes `read_all` raise for the rows before it too
(`manifest.py:117`); `left_only` calls the right arm unused and still requires
images of `right_wrist`; mode `full` keeps three cameras of all those recorded;
`schema.py:267` says that a recording with an unexpected layout could trip
`projection_indices`, which never sees one.

Finding 2 needs two RPCs of the policy server in flight at once. Nothing in the
repository serializes them: `serve` creates a pool of four.

## 5. Fairness

* `AdapterSync!FairSpec`: weak fairness of each handler thread as a whole. A
  thread of the pool that can run does, and the robot asks for the next chunk as
  long as it operates. The actions within a handler are not separately fair:
  while a fault is possible the thread may take it instead, but faults are
  bounded. The trainer is not fair: it need not start, publish or restart.
* `Converter!FairSpec`: weak fairness of the loop (`Run`) and of `Start`, the
  service manager or user who starts the converter again, with counts that can
  be read: no `info.json` need ever be unreadable. Throttles need not
  clear: `QueueDrains` assumes it explicitly (`<>[]Quiet`: no pause-file, and a
  GPU unreadable or at the lower threshold; between the thresholds a converter
  that was held back stays so for ever), `StopEnds` does not. Files need not arrive.
* `Pipeline!AllFairSpec`: weak fairness of both loops and both restarts, and files
  grow old. The recorder need not finish an episode.
* `TrainerLoop!FairSpec`: weak fairness of the loop and of the restart.
* `Conversion!FairSpec`: weak fairness of the calling thread and of the pool,
  which runs whatever was submitted to it. The writer's errors are not fair.

## 6. Proofs

All theorems hold for all values of the constants that the named assumptions of
the modules allow (any number of threads, chunks, versions, trainer processes,
handshakes, faults and restarts; of files of any kind, rounds, crashes and
errors; recordings of any length and content, workers in any order; any accepted
configuration), unless a hypothesis is stated. Two
hypotheses occur, neither of them an assumption of a model: `SingleHandler`, one
handler thread, is what `client.py:36` asks for and finding 2 and section 3
show to be needed; `MaxPolicies = 1`, one handshake, because a second one leaves the
adapter behind (finding 1).

| Module | Theorem | States | Hypotheses |
|---|---|---|---|
| `AdapterSyncProofs` | `TypeCorrect` | `Spec => []TypeOK` | |
| | `StatusCorrect` | `Spec => []StatusAgrees` | |
| | `WholeCorrect` | `Spec => []AppliedIsWhole` | `SingleHandler` |
| | `NewerCorrect` | `Spec => SwapOnlyNewer` | `SingleHandler` |
| | `ServesCorrect` | `Spec => []ServesWhatItReports` | `SingleHandler`, `MaxPolicies = 1` |
| `AdapterHandOffProofs` | `OnDiskCorrect` | `Spec => []PrunedOnlyAfterErrors` | `SingleHandler` |
| | `HandOffImplemented` | `Spec => ImplementsHandOff` | `SingleHandler` |
| `ProvenanceProofs` | `RowOrderCorrect` | `EpisodeSpec => []RowsInVersionOrder` | `SingleHandler` |
| | `RowAgeCorrect` | `EpisodeSpec => []RowNeverOlder` | `SingleHandler` |
| `ConverterProofs` | `TypeCorrect` | `Spec => []TypeOK` | |
| | `LossCorrect` | `Spec => []NoEpisodeLost` | |
| | `DuplicatesCorrect` | `Spec => []DuplicatesNeedCrashes` | |
| | `OrderCorrect` | `Spec => []RoundsInOrder` | |
| | `RoomCorrect` | `Spec => []RoundsNotOverfull` | |
| | `RowsCorrect` | `Spec => []RowsTrue` | |
| | `AccountCorrect` | `Spec => []RowsAccounted` | |
| | `QueueImplemented` | `Spec => ImplementsQueue` | |
| `ConversionProofs` | `TypeCorrect` | `Spec => []TypeOK` | |
| | `FramesCorrect` | `Spec => []FramesTrue` | |
| | `WholeCorrect` | `Spec => []AllOrNothing` | |
| | `ChannelsCorrect` | `Spec => []ChannelsTrue` | |
| | `IntactCorrect` | `Spec => []ConvertedIsIntact` | |
| `PipelineProofs` | `AllTypesCorrect` | `AllSpec => []AllTypeOK` | |
| | `KeptCorrect` | `AllSpec => []RecordedIsKept` | |
| | `DeliveriesCorrect` | `AllSpec => []DuplicatesAccounted` | |
| | `WholeDeliveries` | `AllSpec => NeverHalfUploaded` | |
| | `PromisesKept` | `AllSpec => [](NoEpisodeLost /\ RoundsInOrder /\ RoundsNotOverfull /\ RowsTrue /\ RowsAccounted)` | |
| `TrainerLoopProofs` | `TypeCorrect` | `Spec => []TypeOK` | |
| | `CapCorrect` | `Spec => []StepCapExact` | |
| | `InterventionsCorrect` | `Spec => []NoInterventionSkipped` | |
| | `PeriodsCorrect` | `Spec => []PublishesEveryPeriod` | |
| | `VersionsCorrect` | `Spec => VersionsAdvance` | |

### AdapterSyncProofs

* `TypeInv` is `TypeOK` with `Progress`, what a thread holds in each control state:
  a thread in `stream` has a stream of one adapter with chunks left, one in
  `fetched` or `reporting` has an adapter, and there is a policy outside `idle`. Without it `stream[t].weights[next]` and
  `disk[got[t].version]` have no type.
* `LockInv` says that the lock is held exactly by the thread in `reporting`, that
  its adapter is the loaded one, and `StatusAgrees` itself. Mutual exclusion of `reporting` is what
  `StatusAgrees` rests on.
* `WholeInv` is the strengthening for one handler. `StreamInv`: what is streamed
  is `Weights` of its metadata, and after the first chunk the assembler holds
  exactly the prefix received in this stream (whatever an earlier, cut stream
  left in the buffer is dropped by the first chunk's metadata); in `drained`
  and `fetched` the directory of `got` holds that adapter or has been pruned, and
  its version is above `loaded`. `InjectedInv`: the injected policy object is
  not newer than the current one and runs on the reported adapter; with one
  handshake they are the same, which gives `ServesCorrect`. `AppliedIsWhole` alone is not inductive: it says
  nothing about the directory that the next `ApplyOk` reads.
* `Reboot` resets what the invariants relate, client, applier, policies and
  threads, to their initial values, and leaves the file that `StatusAgrees` excuses until
  something is loaded; `SwapOnlyNewer` is about steps other than `Reboot`.
* `NewerCorrect` follows from the guard of `Fetch` carried to `ApplyOk` by the
  invariant: with one thread `loaded` does not change in between.

### AdapterHandOffProofs

The first lemmas (`CallEffect` to `RebootEffect`) say what each step does to the
one handler in terms of its own state; the invariants are then proved from these.

* `ReportInv`: the loaded version is that of the reported adapter, and only the
  injected policy object runs on an adapter. With `WholeInv` it gives what
  `Serving`, the refinement mapping, is: `loaded` if the current policy is the
  injected one, and 0 if not (`ServingLoaded`).
* `NewestInv`: what is served, streamed or held was published, so its version is at most
  `newest`. Then a swap goes to a version in `loaded + 1 .. newest`, which is
  `AdapterHandOff!Swap` if the policy is the injected one and a stutter if it is not; a
  publication, a handshake, a restart of the server and a stutter are the other cases of
  `HandOffStep`. A publication of a restarted trainer below `newest` is a stutter.
* `VersionInv`, as long as one trainer process has run: the status file is not above what
  is streamed or held, and that not above what was published.
* `PrunedOnlyAfterErrors` needs a count, since `cleanup` does not look at versions. The list
  `dirs` is sorted (`DirInv`). The entries above the loaded version, however often the
  same version occurs, were received and not applied, and each of these cost
  a fault: `UnappliedInv` says that the list from any such entry on is no longer
  than the faults so far, with one to `Spare` for an adapter that can still be
  applied, and one `Owed` by a stream whose trainer has crashed, a fault that
  was counted before the stream breaks. The adapter just received is above `loaded`,
  so with fewer faults than `KeepLast` no entry of its version is popped. The number is
  exact: `SyncPruned` has three faults with `keep_last` 3.

### ProvenanceProofs

Every step of the composition is a step of `AdapterSync` or a stutter of it
(`ServerSpec`), so all invariants above hold. From `VersionInv` the status file
only grows while one trainer process has run (`StatusGrows`), across restarts of the
server too. Hence `RowsInv`: rows that took a version from it are in order and not above it;
a row that could read none is no such row. `RanInv`: as long as no error was met it is
not below any version a forward pass ran on, because the pass runs on the loaded
adapter or on base weights (`ServingLoaded`), the lock is free when the one
handler begins it, and then `StatusAgrees`. `RowNeverOlder` follows when the row
is written and stays, since neither rows nor finished episodes change.

### ConverterProofs

`IInv` is `TypeOK` with seven parts, each for one property and using the others:

* `Progress` ties the control state to the file at hand, so that it is in the queue
  while it is converted and after.
* `StoreInv` (`NoEpisodeLost`): from the finalizing to the deletion the last episode of
  the current dataset is the file at hand, and after the manifest was written
  it has its row or the failed append's line.
* `CountInv` (`DuplicatesNeedCrashes`): episodes from a set of files are no
  more than the files of it that are spent, deleted or just stored, plus the
  crashes. Only a crash makes a spent file unspent.
* `OrderInv` (`RoundsInOrder`) and `RoomInv` (`RoundsNotOverfull`): where the
  converter runs, all rounds below its own are full. No round above is known to be empty:
  a restart that could not read a count went on with a full round and left later ones
  behind. Hence `RoomInv` speaks of every round that the converter may still get to: it
  has room for one more, counting one per error (`Room`); an unreadable count
  re-establishes that for all rounds at once, since it raises the bound by one.
  `_initial_round` at a restart re-establishes the first one (`Candidates`).
* `TrueInv` (`RowsTrue`): before its row is written, no row names the episode just
  finalized.
* `RowInv` (`RowsAccounted`): episodes without a row and spoilt lines together are counted
  by crashes and failed appends.

`QueueImplemented` maps each step
to a step of `IngestQueue` or a stutter from `Progress` and `StoreInv`.

### ConversionProofs

`Inv` has four parts.

* `TypeInv`: the window `inFlight` is the run of rows `Taken + 1 .. next_submit - 1`,
  as sequence: its k-th entry is row `Taken + k`. `PlaceInv`: as long as frames are
  added the buffer has one per row taken, all of them decoded, and outside `verify` to
  `save` the outcome is decided, no half-built episode is left and nothing
  that was submitted is still to be decoded. `AllOrNothing` needs the second for the
  exceptions: `Unwind` waits for the whole window.
* `FrameInv` (`FramesTrue`): `Take` waits for the head of the window, and `TypeInv`
  says which row that is, so frame k is made of row k whatever order the workers finish in.
* `ChannelsTrue` is `ProjectionFact`: selecting by `projection_indices` from columns in
  any order yields the channels of the subset just when each of them is where the full
  layout has it, if they all occur there once (`KeysApart`, and `SchemaConsistent` for
  every mode). `KeysAreColumns` says that the reader's concatenation of the groups of
  schema 1.0 is that layout. A recording of other widths never gets past `Check`.
* `WorkInv` (`ConvertedIsIntact`): what each stage has let pass. That the checks of
  `_convert_one` and the decoding of all rows let pass exactly the intact
  recordings are the lemmas `IntactUsable` and `UsableIntact`.

### PipelineProofs

The steps of the converter are taken from `ConverterProofs`: its lemmas about one step
(`TypeStep`, `OrderStep`, `RoomStep`, `StoreStep`, `TrueStep`, `RowStep`, `AtWorkStep`,
`OneMoreEpisode`) assume only what holds in the composition too, which gives `PromisesKept`.
Its `CountInv` and `Progress` do not: a file may come
back after it was converted, or become `fresh` while it is. `SenderEffect` reduces
the sender's actions to six effects. `AllInv` adds to the types and to `ConverterProofs`' invariants of the datasets and manifests
(`StoredInv`):

* `SendInv`: `reveal` is reached only with a complete body staged, and, with `--checksum`
  and before the first delivery, with the sidecar there; `reclaim` only with the file
  delivered; a file given up on the robot has been. `NeverHalfUploaded` is the first two and
  `RecordedIsKept` the last one with `StoreInv`.
* `BatchInv`: the converter alone takes out what a scan has listed, so what it finalizes or
  deletes has arrived; this is what keeps its step from taking the sidecar of a
  file whose first delivery is under way.
* `CreditInv` (`DuplicatesAccounted`): for every set of files, the episodes stored, the
  files that may still be delivered without a fault (`ToDeliver`) and those that
  may be converted (`ToConvert`) are together no more than the files and the
  faults. A confirmed reveal moves a file from the second to the third, a finalize from the
  third to the first; a failed or interrupted command, a failed reclaim and a crash
  put back one. `DuplicatesAccounted` alone is not inductive: it does not see a copy that is
  on its way. `CreditMoves` is the step that all of these have in common.

### TrainerLoopProofs

* `DataInv` (`NoInterventionSkipped`): the count lags behind the datasets, and the
  loader is not behind the count it was built after.
* `StepInv` (`StepCapExact`) relates `global_step` to the cap and to the step being
  served.
* `PeriodInv` (`PublishesEveryPeriod`): with `F` the period and `P` the adapters
  published, `F * P` is the next multiple of `F` from `globalStep` on between rounds and the last
  one within a round, where `left` is what is missing to its end, or to the cap; after an
  interrupt it is so for the step being served. The
  lemmas `Division`, `Product`, `Quotient` and `NextMultiple` carry the arithmetic with a
  variable divisor, which the SMT solver does not do by itself.
* `VersionInv` (`VersionsAdvance`): the next version is one above that served.

All strengthened invariants were checked with TLC first.

## 7. Only model-checked

Liveness (`EventuallyServesLatest`, `QueueDrains`, `StopEnds`,
`InterventionsAreTrained`, `EveryRecordingLands`, `Ends`): TLAPS does not reason
about fairness and ENABLED. Every other property of the passing runs is proved.
The five violations are of course not: they are counterexamples on an instance.

## 8. Not modelled

* The learning-rate schedule (`_lr_lambda`), the loss and the optimizer: floating-point
  data that no control depends on.
* The names of the columns that a recording declares: read, and used by nothing in the
  converter. What order they are in is modelled.
* What LeRobot leaves behind when `finalize` fails after `save_episode`
  (`realtime_converter.py:463-466`): the two are one step of the external writer.
* Which groups a mode publishes or leaves unread (`publish_*`, `*_unused`): the robot
  client's business.
* The recorder's `policy_id` and the manifest's `summary`: labels and sums.
* `common/configs.py` apart from both `__post_init__`, `reload_on` and `keep_last`:
  defaults. `apply_process_priority`: niceness.
* `common/_cli.py`, `workstation_pc/train.py`, `workstation_pc/serve_policy.py`:
  argument spelling and a call.
* `transport/service_pb2*.py`: generated.
* LeRobot, PEFT, safetensors, SIRIUS, gRPC, OpenCV: external; modelled by what
  `src/` relies on, and marked so in the map. So is resuming a dataset that was
  created for an episode which then failed.
* `SIRIUSDataset`'s order of the round directories (`trainer.py:183`).

## 9. Plan

Done: `AdapterWire`, `AdapterSync`, `AdapterHandOff` with the proofs above;
`Converter` with its throttle, its manifest and `IngestQueue`; `DemoSender` and
`Pipeline`; `TrainerLoop`; `Provenance`; `Schema` and `Conversion`; their proofs.

Every safety property of the passing runs has its theorem. Left:

* an abstract queue to which a file may return, implemented by `Pipeline` as `IngestQueue` is
  by `Converter`;
* the throttle's hysteresis against the readings it has had, if a history of them is added to
  `Converter`;
* what can be said of pruning with two overlapping handlers.
