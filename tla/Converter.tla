----------------------------- MODULE Converter -----------------------------
(***************************************************************************)
(* The realtime converter (workstation_pc/realtime_converter.py): a daemon *)
(* that turns the episode files of an ingest directory into episodes of    *)
(* LeRobot datasets, with one provenance row each in the dataset's         *)
(* manifest (common/manifest.py).                                          *)
(*                                                                         *)
(* The directory is the queue: there is no ledger, so what a crashed       *)
(* converter does next is decided by the files and datasets on disk only.  *)
(* A step is what happens between two points at which a crash leaves       *)
(* different things on disk.                                               *)
(***************************************************************************)
EXTENDS Integers, Sequences, FiniteSets

CONSTANTS
  NFiles,      \* bound: episode files, numbered in the order of their names
  NRounds,     \* bound: round datasets
  Kind,        \* what reading each file leads to
  Configs,     \* command lines: see ConfigAssumption
  Machines,    \* what the throttle can find: the pause-file and utilization.gpu
  NoReading,   \* nvidia-smi cannot be read
  MaxCrashes,  \* bound: crashes of the converter
  MaxRowFaults,\* bound: I/O errors while a manifest row is written
  MaxCountFaults, \* bound: info.json that cannot be read, or not be parsed
  MaxStops     \* bound: SIGINT or SIGTERM

Files == 1 .. NFiles

ASSUME NFilesAssumption == NFiles \in Nat
\* good: converts, but for I/O errors.  skipped: returns 0 (filtered out, or no frames).
\* refused: raises one of the exceptions run() catches.  poison: raises
\* another one (IndexError, cv2.error, ...).
ASSUME KindAssumption == Kind \in [Files -> {"good", "skipped", "refused", "poison"}]
\* rounds, capped, task, target: are dagger_datasets_dir, num_demos,
\* default_task, and both dataset_repo_id and dataset_root set?  mode: does the
\* schema know the mode?  once: run_once.  pause, resume: gpu_util_pause,
\* gpu_util_resume.
ASSUME ConfigAssumption ==
  Configs \subseteq [rounds : BOOLEAN, capped : BOOLEAN, numDemos : Int, once : BOOLEAN, mode : BOOLEAN,
                     task : BOOLEAN, target : BOOLEAN, pause : Int, resume : Int]
ASSUME MachineAssumption ==
  /\ NoReading \notin 0 .. 100
  /\ Machines # {} /\ Machines \subseteq [pauseFile : BOOLEAN, util : 0 .. 100 \cup {NoReading}]
\* A crash duplicates one episode at most, so the rounds never run out.
ASSUME RoundsAssumption == NRounds \in Nat /\ NRounds > NFiles + MaxCrashes
ASSUME BoundsAssumption ==
  /\ MaxCrashes \in Nat /\ MaxRowFaults \in Nat /\ MaxCountFaults \in Nat
  /\ MaxStops \in Nat

\* RealtimeConverterConfig.__post_init__, which ends the program for any other
\* command line.
Accepted(c) ==
  /\ c.resume <= c.pause /\ c.mode
  /\ c.capped => c.numDemos >= 1
  /\ IF c.rounds THEN c.capped /\ c.task ELSE c.target

\* Datasets by round number.
Rounds == 1 .. NRounds

VARIABLES
  cfg,       \* the configuration, the same at every start
  \* on disk
  place,     \* where each episode file is
  datasets,  \* the episodes of each dataset, by the file they came from
  manifest,  \* the rows of each dataset's manifest
  \* the converter process
  proc,      \* what it is doing, "down" when it is not running
  round,     \* round_idx (1 in single-dataset mode)
  batch,     \* what is left of this scan
  stop,      \* _stop
  gpuPaused, \* _gpu_paused: the GPU was found busy and not quiet since
  \* the machine
  machine,   \* the pause-file and utilization.gpu
  crashes, rowFaults, countFaults, stops

disk == <<place, datasets, manifest>>
kept == <<round, batch, stop, gpuPaused>>
process == <<proc, kept>>
counters == <<crashes, rowFaults, countFaults, stops>>
vars == <<cfg, disk, process, machine, counters>>

Init ==
  /\ cfg \in {c \in Configs : Accepted(c)}
  /\ place = [f \in Files |-> "robot"]
  /\ datasets = [r \in Rounds |-> <<>>]
  /\ manifest = [r \in Rounds |-> <<>>]
  /\ proc = "down" /\ round = 1 /\ batch = {} /\ stop = FALSE
  /\ gpuPaused = FALSE /\ machine \in Machines
  /\ crashes = 0 /\ rowFaults = 0 /\ countFaults = 0 /\ stops = 0

-----------------------------------------------------------------------------
(* The surroundings.                                                       *)

\* The robot's upload appears under its final name.
Arrive(f) ==
  /\ place[f] = "robot"
  /\ place' = [place EXCEPT ![f] = "fresh"]
  /\ UNCHANGED <<cfg, datasets, manifest, process, machine, counters>>

\* The file is min_age_s old.
Settle(f) ==
  /\ place[f] = "fresh"
  /\ place' = [place EXCEPT ![f] = "ready"]
  /\ UNCHANGED <<cfg, datasets, manifest, process, machine, counters>>

\* Other users of the GPU, and whoever touches or removes the pause-file.
MachineChanges ==
  /\ machine' \in Machines
  /\ UNCHANGED <<cfg, disk, process, counters>>

RequestStop ==
  /\ proc # "down" /\ ~stop /\ stops < MaxStops
  /\ stop' = TRUE /\ stops' = stops + 1
  /\ UNCHANGED <<cfg, disk, proc, round, batch, gpuPaused, machine>>
  /\ UNCHANGED <<crashes, rowFaults, countFaults>>

-----------------------------------------------------------------------------
(* The life of the process.                                                *)

\* Mutant: the cap is compared with the wrong relation.
OverFull(r) == cfg.capped /\ Len(datasets[r]) > cfg.numDemos

Full(r) == cfg.capped /\ Len(datasets[r]) >= cfg.numDemos

\* _episode_count_at finds fewer than num_demos: there are fewer, or the count
\* is 0 because info.json could not be read.
SeenOpen(r) ==
  \/ ~Full(r) /\ UNCHANGED countFaults
  \/ Full(r) /\ countFaults < MaxCountFaults /\ countFaults' = countFaults + 1

\* Mutant: a restart looks for a round that does not exist yet.
FreshRounds == {r \in Rounds : datasets[r] = <<>> /\ \A q \in 1 .. r - 1 : datasets[q] # <<>>}

\* The datasets that _initial_round gets to: it stops at the first round that it
\* does not find full, and those before it are.
Candidates == IF cfg.rounds THEN {r \in Rounds : \A q \in 1 .. r - 1 : Full(q)} ELSE {1}

\* The process ends, at the end of run() or by a signal or an exception:
\* nothing but the files is left.
Gone == proc' = "down" /\ batch' = {} /\ stop' = FALSE /\ gpuPaused' = FALSE

Start ==
  /\ proc = "down"
  /\ \E r \in Candidates : SeenOpen(r) /\ round' = r   \* else run() returns at once
  /\ proc' = "scan"
  /\ UNCHANGED <<cfg, disk, batch, stop, gpuPaused, machine, crashes, rowFaults, stops>>

Crash ==
  /\ proc # "down" /\ crashes < MaxCrashes
  /\ crashes' = crashes + 1
  /\ Gone
  /\ UNCHANGED <<cfg, disk, round, machine, rowFaults, countFaults, stops>>

-----------------------------------------------------------------------------
(* run(): the scan loop.                                                   *)

\* _ready_files: the pending files; the for loop takes them in the order of
\* their names.
Ready == {f \in Files : place[f] = "ready"}

\* The top of the while loop; an empty scan sleeps or, with run_once, ends.
Scan ==
  /\ proc = "scan"
  /\ IF stop \/ (Ready = {} /\ cfg.once)
       THEN Gone
       ELSE /\ batch' = Ready
            /\ proc' = IF Ready = {} THEN "scan" ELSE "next"
            /\ UNCHANGED <<stop, gpuPaused>>
  /\ UNCHANGED <<cfg, disk, round, machine, counters>>

\* The top of the for loop, and what follows it.
NextFile ==
  /\ proc = "next"
  /\ \/ /\ stop \/ (batch = {} /\ cfg.once /\ Ready = {})
        /\ Gone
     \/ /\ ~stop /\ batch = {} /\ ~(cfg.once /\ Ready = {})
        /\ proc' = "scan" /\ UNCHANGED <<batch, stop, gpuPaused>>
     \/ /\ ~stop /\ batch # {}
        /\ proc' = "throttle" /\ UNCHANGED <<batch, stop, gpuPaused>>
  /\ UNCHANGED <<cfg, disk, round, machine, counters>>

\* Mutant: a GPU at gpu_util_resume is not quiet enough.
HeldAtResume == IF gpuPaused THEN machine.util >= cfg.resume ELSE machine.util >= cfg.pause

\* The GPU part of _blocked_reason: busy from one threshold, down to the other.
GpuBusy == IF gpuPaused THEN machine.util > cfg.resume ELSE machine.util >= cfg.pause

\* _gpu_paused after a look at the machine: a pause-file hides the GPU, and an
\* unreadable one counts as quiet.
GpuPaused ==
  IF machine.pauseFile THEN gpuPaused ELSE machine.util # NoReading /\ GpuBusy

Blocked == machine.pauseFile \/ GpuPaused

\* wait_until_clear: one more look that finds conversion blocked.
Hold ==
  /\ proc = "throttle" /\ ~stop /\ Blocked
  /\ gpuPaused' = GpuPaused
  /\ UNCHANGED <<cfg, disk, proc, round, batch, stop, machine, counters>>

\* Mutant: the wait itself does not look at the stop flag.
ClearWaits ==
  /\ proc = "throttle" /\ ~Blocked
  /\ IF stop THEN Gone
             ELSE proc' = "convert" /\ gpuPaused' = GpuPaused /\ UNCHANGED <<batch, stop>>
  /\ UNCHANGED <<cfg, disk, round, machine, counters>>

\* wait_until_clear returns, and the second look at _stop.
Clear ==
  /\ proc = "throttle" /\ (stop \/ ~Blocked)
  /\ IF stop THEN Gone
             ELSE proc' = "convert" /\ gpuPaused' = GpuPaused /\ UNCHANGED <<batch, stop>>
  /\ UNCHANGED <<cfg, disk, round, machine, counters>>

-----------------------------------------------------------------------------
(* _convert_one and the disposition of the file.                           *)

\* The file being handled.
Current == CHOOSE f \in batch : \A g \in batch : f <= g

\* The episode is encoded, saved and finalized into the current dataset.
Finalize ==
  /\ proc = "convert" /\ Kind[Current] = "good"
  /\ datasets' = [datasets EXCEPT ![round] = Append(@, Current)]
  /\ proc' = "finalized"
  /\ UNCHANGED <<cfg, place, manifest, kept, machine, counters>>

\* Mutant: a file that converts to nothing is disposed of as a success.
RejectDeletes ==
  /\ proc = "convert" /\ Kind[Current] \in {"skipped", "refused"}
  /\ proc' = "recorded"
  /\ UNCHANGED <<cfg, disk, kept, machine, counters>>

\* It returns 0, or raises what run() catches; a good file may do so by an I/O
\* error, or because its sidecar is not whole.
Reject ==
  /\ proc = "convert" /\ Kind[Current] # "poison"
  /\ proc' = "quarantine"
  /\ UNCHANGED <<cfg, disk, kept, machine, counters>>

\* It raises what run() does not catch: the process ends.
Escape ==
  /\ proc = "convert" /\ Kind[Current] = "poison"
  /\ Gone
  /\ UNCHANGED <<cfg, disk, round, machine, counters>>

\* Mutants: the index is taken before the episode is counted, or counts from 1.
RowEarly == [index |-> Len(datasets[round]) - 2, source |-> Current]
RowFromOne == [index |-> Len(datasets[round]), source |-> Current]

\* manifest.append, with the index of the last episode of the dataset.
Row == [index |-> Len(datasets[round]) - 1, source |-> Current]

\* The last line may be part of a row, with no newline after it; what is
\* appended then goes on the same line, which no reader can parse.
Fragment == [index |-> 0, source |-> 0]
Garbled == [index |-> 1, source |-> 0]

\* Mutant: the file is opened to be written, not to be appended to.
WriteAnew(rows, line) == <<line>>

AppendLine(rows, line) ==
  IF rows # <<>> /\ rows[Len(rows)] = Fragment
    THEN [rows EXCEPT ![Len(rows)] = IF line = Fragment THEN Fragment ELSE Garbled]
    ELSE Append(rows, line)

Record ==
  /\ proc = "finalized"
  /\ manifest' = [manifest EXCEPT ![round] = AppendLine(@, Row)]
  /\ proc' = "recorded"
  /\ UNCHANGED <<cfg, place, datasets, kept, machine, counters>>

\* manifest.append raises an OSError in write, flush or fsync, with nothing,
\* a part or all of the row in the file: run() treats the episode as one that
\* could not be converted.
RecordError ==
  /\ proc = "finalized" /\ rowFaults < MaxRowFaults
  /\ rowFaults' = rowFaults + 1
  /\ \/ UNCHANGED manifest
     \/ \E line \in {Fragment, Row} :
          manifest' = [manifest EXCEPT ![round] = AppendLine(@, line)]
  /\ proc' = "quarantine"
  /\ UNCHANGED <<cfg, place, datasets, kept, machine, crashes, countFaults, stops>>

\* Mutant: the source stays in the ingest directory.
DisposeKeeps ==
  /\ proc = "recorded" /\ proc' = "disposed"
  /\ UNCHANGED <<cfg, disk, kept, machine, counters>>

\* _delete_source, or _move_source to converted_dir.
Dispose ==
  /\ proc = "recorded"
  /\ place' = [place EXCEPT ![Current] = "done"]
  /\ proc' = "disposed"
  /\ UNCHANGED <<cfg, datasets, manifest, kept, machine, counters>>

\* Off to the next file of the scan.
GoOn == proc' = "next" /\ batch' = batch \ {Current} /\ UNCHANGED <<stop, gpuPaused>>

\* A round found full rolls over to the next; a single dataset ends the run.
Rollover ==
  /\ proc = "disposed"
  /\ \/ SeenOpen(round) /\ GoOn /\ UNCHANGED round
     \/ Full(round) /\ cfg.rounds /\ GoOn /\ round' = round + 1 /\ UNCHANGED countFaults
     \/ Full(round) /\ ~cfg.rounds /\ Gone /\ UNCHANGED <<round, countFaults>>
  /\ UNCHANGED <<cfg, disk, machine, crashes, rowFaults, stops>>

\* _move_source to failed_dir.
Quarantine ==
  /\ proc = "quarantine"
  /\ place' = [place EXCEPT ![Current] = "failed"]
  /\ GoOn
  /\ UNCHANGED <<cfg, datasets, manifest, round, machine, counters>>

-----------------------------------------------------------------------------
Run ==
  \/ Scan \/ NextFile \/ Hold \/ Clear
  \/ Finalize \/ Reject \/ Escape \/ Record \/ RecordError
  \/ Dispose \/ Rollover \/ Quarantine

Environment ==
  \/ \E f \in Files : Arrive(f) \/ Settle(f)
  \/ MachineChanges \/ RequestStop \/ Crash

Next == Start \/ Run \/ Environment

Spec == Init /\ [][Next]_vars

\* A running converter runs, and somebody restarts it when it is down.
\* Nothing makes the machine quiet, and nothing an info.json unreadable.
Fairness == WF_vars(Start /\ UNCHANGED countFaults) /\ WF_vars(Run)

FairSpec == Spec /\ Fairness

-----------------------------------------------------------------------------
(* Properties.                                                             *)

\* The type invariant of the directory, the datasets and the process.
TypeOK ==
  /\ cfg \in {c \in Configs : Accepted(c)}
  /\ place \in [Files -> {"robot", "fresh", "ready", "done", "failed"}]
  /\ datasets \in [Rounds -> Seq(Files)]
  /\ manifest \in [Rounds -> Seq([index : Nat, source : 0 .. NFiles])]
  /\ proc \in {"down", "scan", "next", "throttle", "convert", "finalized",
               "recorded", "disposed", "quarantine"}
  /\ round \in Rounds /\ batch \in SUBSET Files /\ stop \in BOOLEAN
  /\ gpuPaused \in BOOLEAN /\ machine \in Machines
  /\ crashes \in 0 .. MaxCrashes /\ rowFaults \in 0 .. MaxRowFaults
  /\ countFaults \in 0 .. MaxCountFaults /\ stops \in 0 .. MaxStops

Episodes == UNION {{r} \X DOMAIN datasets[r] : r \in Rounds}

\* The episodes that came from file f.
Copies(f) == Cardinality({e \in Episodes : datasets[e[1]][e[2]] = f})

\* Its episode is in a dataset together with the row that names it, or with
\* the line that an append that failed has spoilt.
HasRow(r, i) == \E n \in DOMAIN manifest[r] :
                  manifest[r][n] = [index |-> i - 1, source |-> datasets[r][i]]
Spoilt(r) == \E n \in DOMAIN manifest[r] : manifest[r][n] = Garbled
Stored(f) == \E e \in Episodes : /\ datasets[e[1]][e[2]] = f
                                 /\ HasRow(e[1], e[2]) \/ Spoilt(e[1])

\* "Only then is the source deleted" (realtime_converter.py:19): a file has
\* left the queue for good only when its episode is in a dataset and accounted
\* for in its manifest.
NoEpisodeLost == \A f \in Files : place[f] = "done" => Stored(f)

\* "A crash between finalize and delete re-appends one duplicate episode"
\* (realtime_converter.py:23): each crash duplicates at most one episode, and
\* nothing else does, over all restarts and rounds.
DuplicatesNeedCrashes ==
  \A F \in SUBSET Files :
    Cardinality({e \in Episodes : datasets[e[1]][e[2]] \in F}) <= Cardinality(F) + crashes

\* Rounds fill up in order, whatever crashes and restarts happen: a round
\* holds episodes only if all rounds before it are full, so that a restart
\* finds the round it was filling.
RoundsInOrder ==
  cfg.rounds => \A r \in Rounds : datasets[r] # <<>> => \A q \in 1 .. r - 1 : Full(q)

\* No round, and no capped dataset, gets more than num_demos episodes, over
\* all restarts: "once a round reaches `num_demos` episodes, it finalizes that
\* round and opens the next one" (configs.py:196).  What the code does not
\* prevent: an I/O error on a manifest row skips the rollover of an episode that
\* is in the dataset already, and an info.json that cannot be read counts 0, so
\* that a full round is filled on.  Each of those may add one episode to a
\* round; one unreadable count at a start may do so to several rounds, since
\* the rollover does not look at the round it goes to.
RoundsNotOverfull ==
  cfg.capped => \A r \in Rounds : Len(datasets[r]) <= cfg.numDemos + rowFaults + countFaults

\* Every manifest row that can be read names the episode at its episode_index
\* truly, and rows are in conversion order.
RowsTrue ==
  \A r \in Rounds : \A n \in DOMAIN manifest[r] :
    LET row == manifest[r][n]
    IN  row.source # 0 =>
          /\ row.index + 1 \in DOMAIN datasets[r]
          /\ datasets[r][row.index + 1] = row.source
          /\ \A m \in 1 .. n - 1 : manifest[r][m].source # 0 => manifest[r][m].index < row.index

\* "Append-only means a crash mid-run never corrupts earlier rows"
\* (manifest.py:11): a crash costs the row of one episode at most, and a
\* failed append its own and the next one, which goes on the same line.  (One
\* more row is still to be written in "finalized".)
RowsAccounted ==
  Cardinality({e \in Episodes : ~HasRow(e[1], e[2])})
    <= crashes + 2 * rowFaults + (IF proc = "finalized" THEN 1 ELSE 0)

\* The converter is an ingest queue: each file is stored at least once or set
\* aside, and done only when stored.
Queue == INSTANCE IngestQueue WITH
  where <- [f \in Files |-> CASE place[f] = "robot" -> "away"
                              [] place[f] \in {"fresh", "ready"} -> "queued"
                              [] place[f] = "done" -> "done"
                              [] place[f] = "failed" -> "aside"],
  copies <- [f \in Files |-> Copies(f)]
ImplementsQueue == Queue!Spec

\* "Will exit after the current episode" (realtime_converter.py:265): a
\* requested stop ends the process, even if the throttle never clears.
StopEnds == stop ~> proc = "down"

\* A full single dataset, the only reason to leave files in the queue.
Capped == ~cfg.rounds /\ Full(1)

\* Quiet enough to convert whatever has been before: not between the two
\* thresholds, where a converter that was held back stays so.
Quiet == /\ ~machine.pauseFile
         /\ machine.util = NoReading \/ machine.util <= cfg.resume

\* Every file that is in the queue leaves it: "files that fail or can't be
\* converted are moved to a failed/ subdir so they aren't retried on every
\* scan" (realtime_converter.py:22), across crashes and restarts, provided
\* that the machine is quiet in the end.
QueueDrains ==
  <>[]Quiet =>
    \A f \in Files : place[f] = "ready" ~> (place[f] \in {"done", "failed"} \/ Capped)
=============================================================================
