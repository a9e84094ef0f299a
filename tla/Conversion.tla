----------------------------- MODULE Conversion -----------------------------
(***************************************************************************)
(* The conversion of one recording: RealtimeConverter._convert_one         *)
(* (workstation_pc/realtime_converter.py) with read_episode_arrays and     *)
(* decode_frame_images (common/hdf5_episode.py).  The calling thread keeps *)
(* a window of decode jobs in flight, which a pool of threads finishes in  *)
(* any order, and hands their frames to the dataset writer.                *)
(*                                                                         *)
(* It refines the one step that Converter makes of it: converted, skipped, *)
(* refused and escaped are the outcomes of its good, skipped, refused and  *)
(* poison files.                                                           *)
(***************************************************************************)
EXTENDS Integers, FiniteSets, Schema

CONSTANTS
  Recordings, \* episode files: see RecordingAssumption
  Configs,    \* command lines: see ConfigAssumption
  MaxFaults   \* bound: errors of the dataset writer

Images == {"jpeg", "corrupt", "empty"}
Cameras == {"head", "left_wrist", "right_wrist", "third"}
Tasks == {"", "pick", "place"}
FieldNames == {"arm_left", "arm_right", "head", "lift", "gripper_left", "gripper_right"}

\* sidecar: the .sha256 file next to it.  rows, actions: the lengths of
\* /observation/state and /action.  joints: the width of a gripper's state, in
\* schema 1.0.  state, action: the channels of the columns of the flat vectors of
\* schema 2.0, in the file's own order.  flags: /intervention, <<>> without it.
\* images: the cameras it has.
ASSUME RecordingAssumption ==
  \A r \in Recordings :
    /\ r.sidecar \in {"absent", "right", "wrong", "blank"}
    /\ r.version \in {"1.0", "2.0", "other"}
    /\ r.task \in Tasks
    /\ r.rows \in Nat /\ r.actions \in Nat /\ r.joints \in Nat
    /\ r.state \in Seq(FieldNames \X Nat) /\ r.action \in Seq(FieldNames \X Nat)
    /\ r.flags \in Seq({0, 1})
    /\ DOMAIN r.images \subseteq Cameras
    /\ \A camera \in DOMAIN r.images : r.images[camera] \in Seq(Images)
\* mode, verify_checksum, task_filter, default_task, num_decode_workers.
ASSUME ConfigAssumption ==
  Configs \subseteq [mode : ModeChoices, verify : BOOLEAN, filter : Tasks, default : Tasks, workers : Int]
ASSUME BoundsAssumption == MaxFaults \in Nat

VARIABLES
  cfg,        \* the configuration
  recording,  \* the file being converted
  dataset,    \* none: not created yet; new: with the intervention feature; old: without
  pc,         \* where _convert_one is
  nextSubmit, \* next_submit, counted from 1
  inFlight,   \* in_flight: the rows whose images are being decoded, oldest first
  decoded,    \* the rows whose future is done
  buffer,     \* the frames given to add_frame
  stored,     \* the episode saved, if any, and its manifest row
  outcome,    \* how _convert_one ended
  faults

pool == <<nextSubmit, inFlight, decoded>>
vars == <<cfg, recording, dataset, pc, pool, buffer, stored, outcome, faults>>

Init ==
  /\ cfg \in Configs /\ recording \in Recordings /\ dataset \in {"none", "new", "old"}
  /\ pc = "verify" /\ nextSubmit = 1 /\ inFlight = <<>> /\ decoded = {}
  /\ buffer = <<>> /\ stored = <<>> /\ outcome = "pending" /\ faults = 0

schema == GetSchema(cfg.mode)
Rows == 1 .. recording.rows

-----------------------------------------------------------------------------
(* What read_episode_arrays returns.                                       *)

\* The columns of a vector made of groups: OBS_FIELD_ORDER and ACT_FIELD_ORDER,
\* the grippers with that many joints.
Columns(joints) ==
  Cols("arm_left", UpTo(7)) \o Cols("arm_right", UpTo(7)) \o Cols("head", UpTo(2))
    \o Cols("lift", UpTo(1)) \o Cols("gripper_left", UpTo(joints)) \o Cols("gripper_right", UpTo(joints))

\* A flat vector is taken as it is: nothing looks at the order of its fields.
RecordedState == IF recording.version = "2.0" THEN recording.state ELSE Columns(recording.joints)
RecordedAction == IF recording.version = "2.0" THEN recording.action ELSE Columns(1)

\* The intervention flags; without any, or with some other number of them,
\* all zeros.
Flags == IF Len(recording.flags) = recording.rows THEN recording.flags ELSE [i \in Rows |-> 0]

Task == IF recording.task = "" THEN cfg.default ELSE recording.task

\* What decode_frame_images raises for a row, at the first camera that has no
\* good image of it: "none", or whether run() catches it.  cv2.imdecode raises
\* cv2.error for no bytes, the list IndexError beyond its end.
Fault(row) ==
  LET images(k) == recording.images[schema.imageNames[k]]
      bad == {k \in DOMAIN schema.imageNames : row > Len(images(k)) \/ images(k)[row] # "jpeg"}
      first == CHOOSE k \in bad : \A m \in bad : k <= m
  IN  IF bad = {} THEN "none"
      ELSE IF row <= Len(images(first)) /\ images(first)[row] = "corrupt" THEN "refused"
      ELSE "escaped"

-----------------------------------------------------------------------------
(* The checks before the dataset is opened.                                *)

End(result) == pc' = "done" /\ outcome' = result

Verify ==
  /\ pc = "verify"
  /\ IF ~cfg.verify \/ recording.sidecar \in {"absent", "right"}
       THEN pc' = "read" /\ UNCHANGED outcome
       ELSE End(IF recording.sidecar = "wrong" THEN "refused" ELSE "escaped")
  /\ UNCHANGED <<cfg, recording, dataset, pool, buffer, stored, faults>>

Read ==
  /\ pc = "read"
  /\ IF recording.version = "other"
       THEN End("refused")
       ELSE pc' = "check" /\ UNCHANGED outcome
  /\ UNCHANGED <<cfg, recording, dataset, pool, buffer, stored, faults>>

FilteredOut == cfg.filter # "" /\ Task # cfg.filter
OtherShape ==
  Len(RecordedState) # Len(StateKeys) \/ Len(RecordedAction) # Len(ActionKeys)

\* Needed cameras with no image at all: their [0] is an IndexError.
Imageless == {n \in ToSet(schema.imageNames) : n \in DOMAIN recording.images /\ recording.images[n] = <<>>}
\* Needed cameras that are absent, or begin with an empty image.
Missing ==
  {n \in ToSet(schema.imageNames) :
     n \notin DOMAIN recording.images \/ recording.images[n][1] = "empty"}

Check ==
  /\ pc = "check"
  /\ IF FilteredOut \/ recording.rows = 0 THEN End("skipped")
     ELSE IF OtherShape THEN End("refused")
     ELSE IF Imageless # {} THEN End("escaped")
     ELSE IF Missing # {} THEN End("refused")
     ELSE pc' = "open" /\ UNCHANGED outcome
  /\ UNCHANGED <<cfg, recording, dataset, pool, buffer, stored, faults>>

\* _open_writer, which decodes the first images to create a dataset, and the
\* start of the pool, a ValueError without workers.
Open ==
  /\ pc = "open"
  /\ IF dataset = "none" /\ Fault(1) # "none"
       THEN End(Fault(1)) /\ UNCHANGED dataset
       ELSE /\ dataset' = IF dataset = "none" THEN "new" ELSE dataset
            /\ IF cfg.workers > 0 THEN pc' = "fill" /\ UNCHANGED outcome ELSE End("refused")
  /\ UNCHANGED <<cfg, recording, pool, buffer, stored, faults>>

-----------------------------------------------------------------------------
(* The frames.                                                             *)

Prefetch == cfg.workers + 2

\* Mutant: one job more than the window holds.
LastOver ==
  LET last == nextSubmit + Prefetch - Len(inFlight)
  IN  IF last < recording.rows THEN last ELSE recording.rows

\* The last row there is room for in the window.
LastSubmit ==
  LET last == nextSubmit + Prefetch - Len(inFlight) - 1
  IN  IF last < recording.rows THEN last ELSE recording.rows

\* Mutant: no frame is taken before the window is full.
FillWaits ==
  /\ pc = "fill"
  /\ inFlight' = inFlight \o [k \in 1 .. LastSubmit - nextSubmit + 1 |-> nextSubmit + k - 1]
  /\ nextSubmit' = LastSubmit + 1
  /\ Len(inFlight') \in {0, Prefetch}
  /\ pc' = IF inFlight' = <<>> THEN "save" ELSE "take"
  /\ UNCHANGED <<cfg, recording, dataset, decoded, buffer, stored, outcome, faults>>

\* The inner while: submit until the window is full or no row is left.
Fill ==
  /\ pc = "fill"
  /\ inFlight' = inFlight \o [k \in 1 .. LastSubmit - nextSubmit + 1 |-> nextSubmit + k - 1]
  /\ nextSubmit' = LastSubmit + 1
  /\ pc' = IF inFlight' = <<>> THEN "save" ELSE "take"
  /\ UNCHANGED <<cfg, recording, dataset, decoded, buffer, stored, outcome, faults>>

\* The pool starts its jobs in order, so the rows that may be finishing are
\* the first of those not decoded, one per worker.
Decode(row) ==
  /\ row \in 1 .. nextSubmit - 1 /\ row \notin decoded
  /\ Cardinality((1 .. row - 1) \ decoded) < cfg.workers
  /\ decoded' = decoded \cup {row}
  /\ UNCHANGED <<cfg, recording, dataset, pc, nextSubmit, inFlight, buffer, stored, outcome, faults>>

\* add_frame: row is idx, image the row that the future decoded.
Frame(row, image) ==
  [state |-> row, action |-> row, image |-> image,
   flag |-> IF dataset = "new" THEN {Flags[row]} ELSE {}]

\* Mutants: the next future that is done, whatever its row, or one whose
\* result is not looked at.
TakeAny ==
  /\ pc = "take"
  /\ \E row \in decoded \cap ToSet(inFlight) :
       /\ inFlight' = Remove(inFlight, row)
       /\ IF row > recording.actions \/ Fault(row) # "none"
            THEN pc' = "unwind" /\ outcome' = "escaped" /\ UNCHANGED buffer
            ELSE buffer' = Append(buffer, Frame(row, row)) /\ pc' = "fill" /\ UNCHANGED outcome
  /\ UNCHANGED <<cfg, recording, dataset, nextSubmit, decoded, stored, faults>>
TakeUnseen ==
  /\ pc = "take"
  /\ inFlight' = Tail(inFlight) /\ Head(inFlight) \in decoded
  /\ buffer' = Append(buffer, Frame(Head(inFlight), Head(inFlight)))
  /\ pc' = "fill"
  /\ UNCHANGED <<cfg, recording, dataset, nextSubmit, decoded, stored, outcome, faults>>

\* The oldest future: its row's action first, an IndexError if there is none,
\* then its result, waited for.
Take ==
  /\ pc = "take"
  /\ inFlight' = Tail(inFlight)
  /\ LET row == Head(inFlight)
     IN  IF row > recording.actions
           THEN pc' = "unwind" /\ outcome' = "escaped" /\ UNCHANGED buffer
           ELSE /\ row \in decoded
                /\ IF Fault(row) # "none"
                     THEN pc' = "unwind" /\ outcome' = Fault(row) /\ UNCHANGED buffer
                     ELSE buffer' = Append(buffer, Frame(row, row)) /\ pc' = "fill" /\ UNCHANGED outcome
  /\ UNCHANGED <<cfg, recording, dataset, nextSubmit, decoded, stored, faults>>

\* Mutant: the futures still running are not waited for.
UnwindAtOnce ==
  /\ pc = "unwind"
  /\ buffer' = <<>> /\ pc' = "done"
  /\ UNCHANGED <<cfg, recording, dataset, pool, stored, outcome, faults>>

\* An exception: the pool's exit waits for every job submitted, then the
\* half-built episode is dropped.
Unwind ==
  /\ pc = "unwind" /\ 1 .. nextSubmit - 1 \subseteq decoded
  /\ buffer' = <<>> /\ pc' = "done"
  /\ UNCHANGED <<cfg, recording, dataset, pool, stored, outcome, faults>>

\* The dataset cannot be opened, or add_frame or save_episode fails, with an
\* error that run() catches.
WriterFails ==
  /\ \/ pc \in {"open", "save"}
     \/ /\ pc = "take" /\ Head(inFlight) \in decoded
        /\ Head(inFlight) <= recording.actions /\ Fault(Head(inFlight)) = "none"
  /\ faults < MaxFaults /\ faults' = faults + 1
  /\ pc' = "unwind" /\ outcome' = "refused"
  /\ UNCHANGED <<cfg, recording, dataset, pool, buffer, stored>>

Ones(flags) == Cardinality({i \in DOMAIN flags : flags[i] = 1})

\* n_frames and n_intervention_frames of the manifest row.
Row == [frames |-> recording.rows, interventions |-> Ones(Flags)]

Projected(columns, keys, subset) ==
  LET indices == ProjectionIndices(keys, subset)
  IN  [k \in DOMAIN indices |-> columns[indices[k]]]

\* The names come from the schema, the columns from the recording.
Save ==
  /\ pc = "save"
  /\ stored' = <<[frames |-> buffer, task |-> Task, row |-> Row,
                  stateNames |-> schema.stateKeys, actionNames |-> schema.actionKeys,
                  state |-> Projected(RecordedState, StateKeys, schema.stateKeys),
                  action |-> Projected(RecordedAction, ActionKeys, schema.actionKeys)]>>
  /\ buffer' = <<>>
  /\ End("converted")
  /\ UNCHANGED <<cfg, recording, dataset, pool, faults>>

-----------------------------------------------------------------------------
Main == Verify \/ Read \/ Check \/ Open \/ Fill \/ Take \/ Unwind \/ Save
Pool == \E row \in Rows : Decode(row)
Next == Main \/ Pool \/ WriterFails

Spec == Init /\ [][Next]_vars

\* The calling thread and the pool's threads run whenever they can.
FairSpec == Spec /\ WF_vars(Main) /\ WF_vars(Pool)

-----------------------------------------------------------------------------
(* Properties.                                                             *)

\* Type invariant: the window is never larger than prefetch, its rows are
\* consecutive and end before next_submit, and what is decoded was submitted.
TypeOK ==
  /\ cfg \in Configs /\ recording \in Recordings /\ dataset \in {"none", "new", "old"}
  /\ pc \in {"verify", "read", "check", "open", "fill", "take", "unwind", "save", "done"}
  /\ nextSubmit \in 1 .. recording.rows + 1
  /\ inFlight # <<>> => Len(inFlight) <= Prefetch
  /\ \A k \in DOMAIN inFlight : inFlight[k] = nextSubmit - 1 - Len(inFlight) + k
  /\ decoded \subseteq 1 .. nextSubmit - 1
  /\ Len(buffer) <= recording.rows /\ Len(stored) <= 1
  /\ outcome \in {"pending", "converted", "skipped", "refused", "escaped"}
  /\ faults \in 0 .. MaxFaults

Frames == IF stored = <<>> THEN buffer ELSE stored[1].frames

\* Frame k has the state, action and images of row k, whatever order the
\* workers finish in, and the recorder's intervention flag of that row, or 0
\* when the recorder's flags do not match the rows one for one
\* (_convert_one's loop; hdf5_episode.py's intervention rule).
FramesTrue ==
  \A k \in DOMAIN Frames :
    /\ Frames[k].state = k /\ Frames[k].action = k /\ Frames[k].image = k
    /\ Frames[k].flag \subseteq
         {IF Len(recording.flags) = recording.rows THEN recording.flags[k] ELSE 0}

\* An episode is in the dataset with all of its rows, counted and with its
\* interventions counted by its manifest row, or not at all; and when
\* _convert_one has raised no half-built episode is left and no thread of the
\* pool still works on the file, which is about to be moved away
\* (_convert_one's except clause and the pool's exit).
AllOrNothing ==
  /\ stored # <<>> <=> outcome = "converted"
  /\ \A e \in ToSet(stored) :
       /\ Len(e.frames) = recording.rows /\ e.row.frames = recording.rows
       /\ dataset = "new" =>
            e.row.interventions = Cardinality({k \in DOMAIN e.frames : e.frames[k].flag = {1}})
  /\ pc = "done" => buffer = <<>> /\ 1 .. nextSubmit - 1 \subseteq decoded

\* Does the recording hold each channel of subset where the schema has it?
InPlace(columns, keys, subset) ==
  \A i \in DOMAIN keys : keys[i] \in ToSet(subset) => columns[i] = keys[i]

\* In every mode the columns of a stored vector were recorded from the channels
\* they are named for if, and only if, the recording has the mode's channels in
\* the schema's place.  A recording of schema 1.0 always has; one of schema 2.0
\* has its own field order, and the width check that is to keep channels from
\* being misaligned silently (realtime_converter.py:409) lets any order pass,
\* which does no harm in the modes that read none of the fields out of place.
ChannelsTrue ==
  stored # <<>> =>
    LET e == stored[1]
    IN  /\ e.state = e.stateNames <=> InPlace(RecordedState, StateKeys, schema.stateKeys)
        /\ e.action = e.actionNames <=> InPlace(RecordedAction, ActionKeys, schema.actionKeys)
        /\ recording.version = "1.0" => e.state = e.stateNames /\ e.action = e.actionNames

\* Is there nothing wrong with the recording, but for the order of its columns?
\* What the mode does not need may be damaged.
Intact ==
  /\ cfg.verify => recording.sidecar \in {"absent", "right"}
  /\ CASE recording.version = "1.0" -> recording.joints = 12
       [] recording.version = "2.0" -> Len(recording.state) = 41 /\ Len(recording.action) = 19
       [] OTHER -> FALSE
  /\ recording.actions >= recording.rows
  /\ \A camera \in ToSet(schema.imageNames) :
       /\ camera \in DOMAIN recording.images
       /\ \A i \in Rows : i <= Len(recording.images[camera]) /\ recording.images[camera][i] = "jpeg"

\* What ends up in the dataset is intact and of the task asked for, and what
\* is intact, wanted and not empty does end up there, unless the writer fails
\* or the pool has no workers (_convert_one's checks and errors together).
ConvertedIsIntact ==
  pc = "done" =>
    LET wanted == recording.rows > 0 /\ (cfg.filter = "" \/ Task = cfg.filter)
    IN  /\ outcome = "converted" => Intact /\ wanted
        /\ Intact /\ wanted /\ faults = 0 /\ cfg.workers > 0 => outcome = "converted"

\* _convert_one returns or raises, for every file: its thread and the pool's
\* never wait for each other.
Ends == <>(pc = "done")
=============================================================================
