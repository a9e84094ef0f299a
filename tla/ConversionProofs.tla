-------------------------- MODULE ConversionProofs --------------------------
(***************************************************************************)
(* What Conversion promises of one recording, proved for any recording of  *)
(* any length, any mode and option, any number of workers in any order of  *)
(* their jobs, and any number of errors of the writer.                     *)
(***************************************************************************)
EXTENDS Conversion, SequenceTheorems, FiniteSetTheorems, TLAPS

\* The schema of any mode, the deprecated spelling included, is consistent
\* (get_schema, resolve_mode and the assertions of schema.py).
LEMMA SchemaFacts ==
  ASSUME cfg \in Configs
  PROVE  /\ Agrees(schema)
         /\ schema.stateKeys \in Seq(ToSet(StateKeys))
         /\ schema.actionKeys \in Seq(ToSet(ActionKeys))
<1>1. ResolveMode(cfg.mode) \in Modes
  <2>1. cfg.mode \in ModeChoices
    BY ConfigAssumption
  <2>2. "left_only" \in Modes
    BY DEF Modes, ModeSchemas
  <2> QED
    BY <2>1, <2>2 DEF ModeChoices, ResolveMode
<1>2. Agrees(schema)
  BY <1>1, SchemaConsistent DEF schema, GetSchema
<1> QED
  BY <1>2 DEF Agrees

\* projection_indices finds every channel of the subset where it is, so that the
\* projection gives the subset just when the columns have its channels in place.
LEMMA ProjectionFact ==
  ASSUME NEW keys, NEW S, keys \in Seq(S), NEW subset \in Seq(ToSet(keys)), NEW columns,
         \A i, j \in DOMAIN keys : keys[i] = keys[j] => i = j
  PROVE  Projected(columns, keys, subset) = subset <=> InPlace(columns, keys, subset)
<1> DEFINE index == ProjectionIndices(keys, subset)
<1>1. \A k \in DOMAIN subset : \E i \in DOMAIN keys : keys[i] = subset[k]
  <2> SUFFICES ASSUME NEW k \in DOMAIN subset PROVE \E i \in DOMAIN keys : keys[i] = subset[k]
    OBVIOUS
  <2>1. subset[k] \in ToSet(keys)
    BY ElementOfSeq, LenProperties
  <2> QED
    BY <2>1 DEF ToSet
<1>2. /\ DOMAIN index = DOMAIN subset
      /\ \A k \in DOMAIN subset : index[k] \in DOMAIN keys /\ keys[index[k]] = subset[k]
  BY <1>1 DEF ProjectionIndices
<1>3. Projected(columns, keys, subset) = [k \in DOMAIN subset |-> columns[index[k]]]
  BY <1>2 DEF Projected
<1> HIDE DEF index
<1>4. subset = [k \in DOMAIN subset |-> subset[k]]
  BY LenProperties
<1>5. ASSUME InPlace(columns, keys, subset) PROVE Projected(columns, keys, subset) = subset
  <2>1. \A k \in DOMAIN subset : columns[index[k]] = subset[k]
    <3> SUFFICES ASSUME NEW k \in DOMAIN subset PROVE columns[index[k]] = subset[k]
      OBVIOUS
    <3>1. keys[index[k]] \in ToSet(subset)
      BY <1>2 DEF ToSet
    <3> QED
      BY <1>2, <1>5, <3>1 DEF InPlace
  <2> QED
    BY <1>3, <1>4, <2>1
<1>6. ASSUME Projected(columns, keys, subset) = subset PROVE InPlace(columns, keys, subset)
  <2> SUFFICES ASSUME NEW i \in DOMAIN keys, keys[i] \in ToSet(subset) PROVE columns[i] = keys[i]
    BY DEF InPlace
  <2>1. PICK k \in DOMAIN subset : subset[k] = keys[i]
    BY DEF ToSet
  <2>2. i = index[k]
    BY <1>2, <2>1
  <2>3. subset[k] = columns[index[k]]
    BY <1>3, <1>6
  <2> QED
    BY <2>1, <2>2, <2>3
<1> QED
  BY <1>5, <1>6

\* The channels of a field are as many as its width.
LEMMA ColumnsOfField ==
  ASSUME NEW field \in FieldNames, NEW n \in Nat
  PROVE  Cols(field, UpTo(n)) \in Seq(FieldNames \X Nat) /\ Len(Cols(field, UpTo(n))) = n
<1>1. DOMAIN UpTo(n) = 1 .. n /\ \A k \in 1 .. n : UpTo(n)[k] = k - 1
  BY DEF UpTo
<1>2. Cols(field, UpTo(n)) = [k \in 1 .. n |-> <<field, k - 1>>]
  BY <1>1, Zenon DEF Cols
<1>3. [k \in 1 .. n |-> <<field, k - 1>>] \in [1 .. n -> FieldNames \X Nat]
  <2>1. \A k \in 1 .. n : k - 1 \in Nat
    OBVIOUS
  <2> QED
    BY <2>1, Zenon
<1>4. Cols(field, UpTo(n)) \in [1 .. n -> FieldNames \X Nat]
  BY <1>2, <1>3
<1> HIDE DEF Cols, UpTo
<1> QED
  BY <1>4, LenProperties, IsASeq

\* Concatenation adds up lengths.
LEMMA ConcatFacts ==
  ASSUME NEW S, NEW s \in Seq(S), NEW t \in Seq(S)
  PROVE  s \o t \in Seq(S) /\ Len(s \o t) = Len(s) + Len(t)
BY ConcatProperties

\* A recording with that many gripper joints has 17 other columns.
LEMMA ColumnsFacts ==
  ASSUME NEW joints \in Nat
  PROVE  Columns(joints) \in Seq(FieldNames \X Nat) /\ Len(Columns(joints)) = 17 + 2 * joints
<1> DEFINE Is(s, n) == s \in Seq(FieldNames \X Nat) /\ Len(s) = n
<1>1. \A field \in FieldNames : \A n \in Nat : Is(Cols(field, UpTo(n)), n)
  BY ColumnsOfField
<1>2. ASSUME NEW s, NEW t, NEW m \in Nat, NEW n \in Nat, Is(s, m), Is(t, n)
      PROVE  Is(s \o t, m + n)
  BY <1>2, ConcatFacts
<1>3. /\ Is(Cols("arm_left", UpTo(7)), 7) /\ Is(Cols("arm_right", UpTo(7)), 7)
      /\ Is(Cols("head", UpTo(2)), 2) /\ Is(Cols("lift", UpTo(1)), 1)
      /\ Is(Cols("gripper_left", UpTo(joints)), joints)
      /\ Is(Cols("gripper_right", UpTo(joints)), joints)
  <2> HIDE DEF Is
  <2> QED
    BY <1>1 DEF FieldNames
<1> HIDE DEF Is
<1>4. Is(Cols("arm_left", UpTo(7)) \o Cols("arm_right", UpTo(7)), 14)
  BY <1>2, <1>3
<1>5. Is(Cols("arm_left", UpTo(7)) \o Cols("arm_right", UpTo(7)) \o Cols("head", UpTo(2)), 16)
  BY <1>2, <1>3, <1>4
<1>6. Is(Cols("arm_left", UpTo(7)) \o Cols("arm_right", UpTo(7)) \o Cols("head", UpTo(2))
           \o Cols("lift", UpTo(1)), 17)
  BY <1>2, <1>3, <1>5
<1>7. Is(Cols("arm_left", UpTo(7)) \o Cols("arm_right", UpTo(7)) \o Cols("head", UpTo(2))
           \o Cols("lift", UpTo(1)) \o Cols("gripper_left", UpTo(joints)), 17 + joints)
  BY <1>2, <1>3, <1>6
<1>8. Is(Columns(joints), (17 + joints) + joints)
  BY <1>2, <1>3, <1>7 DEF Columns
<1> QED
  BY <1>8 DEF Is

\* The reader's field order is that of STATE_KEYS and ACTION_KEYS.
LEMMA KeysAreColumns == StateKeys = Columns(12) /\ ActionKeys = Columns(1)
BY DEF StateKeys, ActionKeys, Columns

\* No channel is in the full vectors twice.
LEMMA KeysApart ==
  /\ \A i, j \in DOMAIN StateKeys : StateKeys[i] = StateKeys[j] => i = j
  /\ \A i, j \in DOMAIN ActionKeys : ActionKeys[i] = ActionKeys[j] => i = j
<1>1. /\ "full" \in Modes /\ ModeSchemas["full"].stateKeys = StateKeys
      /\ ModeSchemas["full"].actionKeys = ActionKeys
  BY DEF Modes, ModeSchemas, ModeSchema
<1>2. Agrees(ModeSchemas["full"])
  BY <1>1, SchemaConsistent
<1> QED
  BY <1>1, <1>2 DEF Agrees

-----------------------------------------------------------------------------
(* The type invariant.                                                     *)

\* What add_frame is given.
Frame0 == [state : Nat, action : Nat, image : Nat, flag : SUBSET {0, 1}]

\* How many frames have been taken out of the window.
Taken == nextSubmit - 1 - Len(inFlight)

\* TypeOK with what its parts need of each other: the window is a sequence of
\* rows, nothing is decoded before the loop, which needs a worker, and the
\* frames in the buffer are those that were taken from the window.
TypeInv ==
  /\ cfg \in Configs /\ recording \in Recordings /\ dataset \in {"none", "new", "old"}
  /\ pc \in {"verify", "read", "check", "open", "fill", "take", "unwind", "save", "done"}
  /\ nextSubmit \in 1 .. recording.rows + 1
  /\ inFlight \in Seq(Nat) /\ Len(inFlight) <= nextSubmit - 1
  /\ inFlight # <<>> => Len(inFlight) <= Prefetch
  /\ \A k \in 1 .. Len(inFlight) : inFlight[k] = Taken + k
  /\ decoded \subseteq 1 .. nextSubmit - 1
  /\ buffer \in Seq(Frame0) /\ Len(buffer) <= Taken
  /\ stored = <<>> \/ Len(stored) = 1
  /\ outcome \in {"pending", "converted", "skipped", "refused", "escaped"}
  /\ faults \in 0 .. MaxFaults

\* Where the conversion is.
PlaceInv ==
  /\ pc \in {"verify", "read", "check", "open"} => nextSubmit = 1
  /\ pc \in {"fill", "take", "save"} =>
       Len(buffer) = Taken /\ 1 .. Taken \subseteq decoded /\ cfg.workers > 0
  /\ pc = "take" => inFlight # <<>>
  /\ pc = "save" => Taken = recording.rows
  /\ pc = "done" => buffer = <<>> /\ 1 .. nextSubmit - 1 \subseteq decoded
  /\ outcome = "pending" <=> pc \notin {"unwind", "done"}
  /\ stored = <<>> <=> outcome # "converted"
  /\ outcome = "converted" => pc = "done"

\* The type invariant that the runs check is part of the inductive one.
LEMMA TypeImplied == TypeInv => TypeOK
<1> SUFFICES ASSUME TypeInv PROVE TypeOK
  OBVIOUS
<1>1. DOMAIN inFlight = 1 .. Len(inFlight) /\ Len(inFlight) \in Nat /\ Len(buffer) \in Nat
  BY DEF TypeInv
<1>2. \A k \in DOMAIN inFlight : inFlight[k] = nextSubmit - 1 - Len(inFlight) + k
  BY <1>1 DEF TypeInv, Taken
<1>3. Len(buffer) <= recording.rows
  BY <1>1, RecordingAssumption DEF TypeInv, Taken
<1>4. Len(stored) <= 1
  <2>1. CASE stored = <<>>
    BY <2>1
  <2>2. CASE Len(stored) = 1
    BY <2>2
  <2> QED
    BY <2>1, <2>2 DEF TypeInv
<1> QED
  BY <1>2, <1>3, <1>4 DEF TypeInv, TypeOK

\* At the call of _convert_one nothing is submitted, decoded or stored.
LEMMA TypeInit == Init => TypeInv /\ PlaceInv
<1> SUFFICES ASSUME Init PROVE TypeInv /\ PlaceInv
  OBVIOUS
<1>1. recording.rows \in Nat /\ 0 \in 0 .. MaxFaults
  BY RecordingAssumption, BoundsAssumption DEF Init
<1>2. inFlight \in Seq(Nat) /\ Len(inFlight) = 0 /\ buffer \in Seq(Frame0) /\ Len(buffer) = 0
  BY DEF Init
<1> QED
  BY <1>1, <1>2 DEF Init, TypeInv, PlaceInv, Taken

\* The numbers of the loop.
LEMMA Numbers ==
  ASSUME TypeInv
  PROVE  /\ recording.rows \in Nat /\ recording.actions \in Nat /\ nextSubmit \in Nat
         /\ cfg.workers \in Int /\ Prefetch \in Int
         /\ Len(inFlight) \in Nat /\ Len(buffer) \in Nat /\ Taken \in Nat
         /\ Taken + Len(inFlight) = nextSubmit - 1
         /\ inFlight = <<>> <=> Len(inFlight) = 0
<1>1. recording.rows \in Nat /\ recording.actions \in Nat /\ cfg.workers \in Int
  BY RecordingAssumption, ConfigAssumption DEF TypeInv
<1>2. Len(inFlight) \in Nat /\ Len(buffer) \in Nat /\ (inFlight = <<>> <=> Len(inFlight) = 0)
  BY EmptySeq DEF TypeInv
<1>3. nextSubmit \in Nat /\ Len(inFlight) <= nextSubmit - 1
  BY <1>1 DEF TypeInv
<1> QED
  BY <1>1, <1>2, <1>3 DEF Prefetch, Taken

\* Nothing but the options and the recording decides what they say.
LEMMA Stable ==
  ASSUME UNCHANGED <<cfg, recording>>
  PROVE  /\ Prefetch' = Prefetch /\ Rows' = Rows /\ Flags' = Flags /\ Task' = Task
         /\ schema' = schema /\ RecordedState' = RecordedState /\ RecordedAction' = RecordedAction
         /\ Fault(1)' = Fault(1) /\ \A row : Fault(row)' = Fault(row)
<1>1. schema' = schema
  BY DEF schema
<1>2. Prefetch' = Prefetch /\ Rows' = Rows /\ Flags' = Flags /\ Task' = Task
  BY DEF Prefetch, Rows, Flags, Task
<1>3. RecordedState' = RecordedState /\ RecordedAction' = RecordedAction
  BY DEF RecordedState, RecordedAction
<1>4. \A row : Fault(row)' = Fault(row)
  BY <1>1 DEF Fault
<1> QED
  BY <1>1, <1>2, <1>3, <1>4

\* add_frame is given a frame.
LEMMA FrameType ==
  ASSUME TypeInv, NEW row \in Rows
  PROVE  Frame(row, row) \in Frame0
<1>1. Flags[row] \in {0, 1}
  <2>1. recording.flags \in Seq({0, 1})
    BY RecordingAssumption DEF TypeInv
  <2>2. row \in 1 .. recording.rows
    BY DEF Rows
  <2> QED
    BY <2>1, <2>2, ElementOfSeq DEF Flags, Rows
<1>2. row \in Nat
  BY Numbers DEF Rows
<1> QED
  BY <1>1, <1>2 DEF Frame, Frame0

\* What Fill does to the window.
LEMMA FillEffect ==
  ASSUME TypeInv, PlaceInv, Fill
  PROVE  /\ inFlight' \in Seq(Nat)
         /\ Taken' = Taken /\ Len(inFlight') \in 0 .. Prefetch
         /\ nextSubmit' \in nextSubmit .. recording.rows + 1
         /\ Len(inFlight') = nextSubmit' - 1 - Taken
         /\ \A k \in 1 .. Len(inFlight') : inFlight'[k] = Taken + k
         /\ inFlight' = <<>> <=> Len(inFlight') = 0
         /\ Len(inFlight') = 0 => Taken = recording.rows
<1> DEFINE n == LastSubmit - nextSubmit + 1
           more == [k \in 1 .. n |-> nextSubmit + k - 1]
<1>1. /\ Len(inFlight) <= Prefetch /\ Prefetch > 0
      /\ nextSubmit <= recording.rows + 1
  BY Numbers DEF TypeInv, PlaceInv, Fill, Prefetch
<1> DEFINE room == Prefetch - Len(inFlight)
<1>n. /\ room \in Nat /\ nextSubmit \in Nat /\ recording.rows \in Nat
      /\ nextSubmit >= 1
      /\ Len(inFlight) \in Nat /\ Prefetch = Len(inFlight) + room
      /\ LastSubmit = IF nextSubmit + room - 1 < recording.rows THEN nextSubmit + room - 1
                      ELSE recording.rows
  <2>1. nextSubmit + Prefetch - Len(inFlight) - 1 = nextSubmit + room - 1
    BY Numbers
  <2> QED
    BY <1>1, <2>1, Numbers DEF LastSubmit, TypeInv
<1> HIDE DEF room
<1>2. /\ n \in Nat /\ LastSubmit \in Nat /\ LastSubmit <= recording.rows
      /\ Len(inFlight) + n <= Prefetch
      /\ Len(inFlight) + n = 0 => LastSubmit = recording.rows
  <2>1. CASE nextSubmit + room - 1 < recording.rows
    BY <1>1, <1>n, <2>1
  <2>2. CASE ~(nextSubmit + room - 1 < recording.rows)
    BY <1>1, <1>n, <2>2
  <2> QED
    BY <2>1, <2>2
<1>3. more \in Seq(Nat) /\ Len(more) = n /\ \A k \in 1 .. n : more[k] = nextSubmit + k - 1
  <2>1. \A k \in 1 .. n : nextSubmit + k - 1 \in Nat
    BY Numbers
  <2> QED
    BY <1>2, <2>1, IsASeq
<1>4. inFlight' = inFlight \o more /\ nextSubmit' = LastSubmit + 1
  BY DEF Fill
<1> HIDE DEF more, n
<1>5. /\ inFlight' \in Seq(Nat) /\ Len(inFlight') = Len(inFlight) + n
      /\ \A k \in 1 .. Len(inFlight) + n :
           inFlight'[k] = IF k <= Len(inFlight) THEN inFlight[k] ELSE more[k - Len(inFlight)]
  BY <1>3, <1>4, ConcatProperties DEF TypeInv
<1>6. n = LastSubmit - nextSubmit + 1
  BY DEF n
<1>a. /\ Len(inFlight) \in Nat /\ Taken \in Nat /\ Taken + Len(inFlight) = nextSubmit - 1
      /\ nextSubmit \in Nat
      /\ \A k \in 1 .. Len(inFlight) : inFlight[k] = Taken + k
  BY Numbers DEF TypeInv
<1>7. \A k \in 1 .. Len(inFlight') : inFlight'[k] = Taken + k
  <2> SUFFICES ASSUME NEW k \in 1 .. Len(inFlight) + n PROVE inFlight'[k] = Taken + k
    BY <1>5
  <2>1. CASE k <= Len(inFlight)
    <3>1. k \in 1 .. Len(inFlight)
      BY <1>2, <1>a, <2>1
    <3> QED
      BY <1>5, <1>a, <2>1, <3>1
  <2>2. CASE ~(k <= Len(inFlight))
    <3>1. k - Len(inFlight) \in 1 .. n
      BY <1>2, <1>a, <2>2
    <3>2. inFlight'[k] = more[k - Len(inFlight)]
      BY <1>5, <2>2
    <3>3. more[k - Len(inFlight)] = nextSubmit + (k - Len(inFlight)) - 1
      BY <1>3, <3>1
    <3> QED
      BY <1>2, <1>a, <3>2, <3>3
  <2> QED
    BY <2>1, <2>2
<1>8. inFlight' = <<>> <=> Len(inFlight') = 0
  BY <1>5, EmptySeq
<1>b. /\ nextSubmit' = LastSubmit + 1 /\ Len(inFlight') = Len(inFlight) + n
      /\ n = LastSubmit - nextSubmit + 1
  BY <1>4, <1>5, <1>6
<1>c. n \in Nat /\ LastSubmit \in Nat /\ LastSubmit <= recording.rows
  BY <1>2
<1>9. nextSubmit' - 1 = Taken + Len(inFlight')
  BY <1>b, <1>c, <1>a
<1>10. Len(inFlight') \in Nat /\ Len(inFlight') <= Prefetch
  BY <1>2, <1>5, <1>a
<1>11. Taken' = Taken
  BY <1>9, <1>10, <1>a DEF Taken
<1>12. nextSubmit' \in nextSubmit .. recording.rows + 1
  <2>1. LastSubmit >= nextSubmit - 1
    BY <1>b, <1>c, <1>a
  <2>2. nextSubmit' \in Nat /\ nextSubmit' >= nextSubmit /\ nextSubmit' <= recording.rows + 1
    <3>1. recording.rows \in Nat /\ nextSubmit \in Nat
      BY Numbers
    <3>2. LastSubmit \in Nat /\ LastSubmit <= recording.rows /\ nextSubmit' = LastSubmit + 1
      BY <1>b, <1>c
    <3> QED
      BY <2>1, <3>1, <3>2
  <2> QED
    BY <1>a, <1>n, <2>2
<1>13. Len(inFlight') = 0 => Taken = recording.rows
  BY <1>2, <1>4, <1>5, <1>9, <1>a, <1>n
<1> QED
  BY <1>1, <1>5, <1>7, <1>8, <1>9, <1>10, <1>11, <1>12, <1>13, <1>a, Numbers
\* A name for what every step keeps.
TypeStep == TypeInv' /\ PlaceInv'

\* The steps before the dataset is opened.
LEMMA EarlyStep ==
  ASSUME TypeInv, PlaceInv, Verify \/ Read \/ Check \/ Open
  PROVE  TypeStep
<1>1. /\ UNCHANGED <<cfg, recording, nextSubmit, inFlight, decoded, buffer, stored, faults>>
      /\ nextSubmit = 1 /\ outcome = "pending"
      /\ \/ pc' \in {"read", "check", "open"} /\ outcome' = outcome
         \/ pc' = "fill" /\ outcome' = outcome /\ cfg.workers > 0
         \/ pc' = "done" /\ outcome' \in {"skipped", "refused", "escaped"}
      /\ dataset' \in {"none", "new", "old"}
  <2>1. CASE Verify
    BY <2>1 DEF Verify, End, pool, TypeInv, PlaceInv
  <2>2. CASE Read
    BY <2>2 DEF Read, End, pool, TypeInv, PlaceInv
  <2>3. CASE Check
    BY <2>3 DEF Check, End, pool, TypeInv, PlaceInv
  <2>4. CASE Open
    <3>1. Fault(1) \in {"none", "refused", "escaped"}
      BY DEF Fault
    <3> QED
      BY <2>4, <3>1 DEF Open, End, pool, TypeInv, PlaceInv
  <2> QED
    BY <2>1, <2>2, <2>3, <2>4
<1>2. Taken = 0 /\ Taken' = 0 /\ Len(buffer) = 0 /\ buffer = <<>> /\ inFlight = <<>> /\ stored = <<>>
  <2>1. Taken = 0 /\ Len(buffer) = 0
    BY <1>1, Numbers DEF TypeInv, PlaceInv
  <2> QED
    BY <1>1, <2>1, Numbers, EmptySeq DEF TypeInv, PlaceInv, Taken
<1>3. TypeInv'
  BY <1>1, <1>2, Stable DEF TypeInv
<1>4. PlaceInv'
  BY <1>1, <1>2, Stable DEF TypeInv, PlaceInv
<1> QED
  BY <1>3, <1>4 DEF TypeStep

\* The inner while of _convert_one's loop.
LEMMA FillStep ==
  ASSUME TypeInv, PlaceInv, Fill
  PROVE  TypeStep
<1>1. /\ UNCHANGED <<cfg, recording, dataset, decoded, buffer, stored, outcome, faults>>
      /\ pc = "fill" /\ pc' = IF inFlight' = <<>> THEN "save" ELSE "take"
  BY DEF Fill
<1>2. TypeInv'
  <2>n. nextSubmit \in Nat /\ recording.rows \in Nat /\ nextSubmit >= 1
    BY Numbers DEF TypeInv
  <2>m. nextSubmit' \in nextSubmit .. recording.rows + 1
    BY FillEffect
  <2>1. decoded' \subseteq 1 .. nextSubmit' - 1 /\ nextSubmit' \in 1 .. recording'.rows + 1
    <3>1. decoded' \subseteq 1 .. nextSubmit - 1
      BY <1>1 DEF TypeInv
    <3>2. nextSubmit' \in Nat /\ nextSubmit <= nextSubmit' /\ nextSubmit' <= recording.rows + 1
      BY <2>n, <2>m
    <3>3. 1 .. nextSubmit - 1 \subseteq 1 .. nextSubmit' - 1
      <4>1. \A m, n \in Nat : m <= n => 1 .. m - 1 \subseteq 1 .. n - 1
        OBVIOUS
      <4> QED
        BY <2>n, <3>2, <4>1
    <3>4. nextSubmit' \in 1 .. recording.rows + 1
      BY <2>n, <3>2
    <3>5. recording' = recording
      BY <1>1
    <3> QED
      BY <3>1, <3>3, <3>4, <3>5
  <2>2. Len(inFlight') <= nextSubmit' - 1 /\ Len(inFlight') <= Prefetch
    BY FillEffect, Numbers
  <2> QED
    BY <1>1, <2>1, <2>2, FillEffect, Stable DEF TypeInv
<1>3. PlaceInv'
  BY <1>1, FillEffect, Stable DEF TypeInv, PlaceInv
<1> QED
  BY <1>2, <1>3 DEF TypeStep

\* A thread of the pool finishes a job, in any order.
LEMMA DecodeStep ==
  ASSUME TypeInv, PlaceInv, Pool
  PROVE  TypeStep
<1>1. PICK row \in Rows : Decode(row)
  BY DEF Pool
<1>2. /\ UNCHANGED <<cfg, recording, dataset, pc, nextSubmit, inFlight, buffer, stored, outcome, faults>>
      /\ decoded' = decoded \cup {row} /\ row \in 1 .. nextSubmit - 1
  BY <1>1 DEF Decode
<1>3. Taken' = Taken
  BY <1>2 DEF Taken
<1>4. TypeInv'
  BY <1>2, <1>3, Stable DEF TypeInv
<1>5. PlaceInv'
  BY <1>2, <1>3, Stable DEF PlaceInv
<1> QED
  BY <1>4, <1>5 DEF TypeStep
\* The dataset writer raises.
LEMMA WriterFailsStep ==
  ASSUME TypeInv, PlaceInv, WriterFails
  PROVE  TypeStep
<1>1. /\ UNCHANGED <<cfg, recording, dataset, nextSubmit, inFlight, decoded, buffer, stored>>
      /\ pc \in {"open", "save", "take"} /\ pc' = "unwind" /\ outcome' = "refused"
      /\ faults < MaxFaults /\ faults' = faults + 1
  BY DEF WriterFails, pool
<1>2. Taken' = Taken
  BY <1>1 DEF Taken
<1>3. faults' \in 0 .. MaxFaults
  BY <1>1, BoundsAssumption DEF TypeInv
<1>4. TypeInv'
  BY <1>1, <1>2, <1>3, Stable DEF TypeInv
<1>5. PlaceInv'
  BY <1>1, <1>2, Stable DEF PlaceInv
<1> QED
  BY <1>4, <1>5 DEF TypeStep

\* The except clause, after the pool's exit.
LEMMA UnwindStep ==
  ASSUME TypeInv, PlaceInv, Unwind
  PROVE  TypeStep
<1>1. /\ UNCHANGED <<cfg, recording, dataset, nextSubmit, inFlight, decoded, stored, outcome, faults>>
      /\ pc = "unwind" /\ pc' = "done" /\ buffer' = <<>> /\ 1 .. nextSubmit - 1 \subseteq decoded
  BY DEF Unwind, pool
<1>2. Taken' = Taken /\ buffer' \in Seq(Frame0) /\ Len(buffer') <= Taken
  BY <1>1, Numbers, EmptySeq DEF Taken
<1>4. TypeInv'
  BY <1>1, <1>2, Stable DEF TypeInv
<1>5. PlaceInv'
  BY <1>1, <1>2, Stable DEF PlaceInv
<1> QED
  BY <1>4, <1>5 DEF TypeStep

\* save_episode, when every row has been taken.
LEMMA SaveStep ==
  ASSUME TypeInv, PlaceInv, Save
  PROVE  TypeStep
<1>1. /\ UNCHANGED <<cfg, recording, dataset, nextSubmit, inFlight, decoded, faults>>
      /\ pc = "save" /\ pc' = "done" /\ buffer' = <<>> /\ outcome' = "converted"
      /\ Len(stored') = 1 /\ stored' # <<>>
  <2>1. \A x : Len(<<x>>) = 1 /\ <<x>> # <<>>
    OBVIOUS
  <2> QED
    BY <2>1 DEF Save, End, pool
<1>2. Taken' = Taken /\ buffer' \in Seq(Frame0) /\ Len(buffer') <= Taken
  BY <1>1, Numbers, EmptySeq DEF Taken
<1>3. 1 .. nextSubmit - 1 \subseteq decoded
  <2>1. 1 .. Taken \subseteq decoded /\ Taken = recording.rows
    BY <1>1 DEF PlaceInv
  <2>2. nextSubmit - 1 <= recording.rows
    BY Numbers DEF TypeInv
  <2> QED
    BY <2>1, <2>2, Numbers
<1>4. TypeInv'
  BY <1>1, <1>2, Stable DEF TypeInv
<1>5. PlaceInv'
  BY <1>1, <1>2, <1>3, Stable DEF PlaceInv
<1> QED
  BY <1>4, <1>5 DEF TypeStep

\* Take removes the oldest row of the window, and its frame joins the buffer
\* or the conversion fails.
LEMMA TakeEffect ==
  ASSUME TypeInv, PlaceInv, Take
  PROVE  LET row == Taken + 1
         IN  /\ row \in Rows /\ Head(inFlight) = row
             /\ inFlight' \in Seq(Nat) /\ Len(inFlight') = Len(inFlight) - 1
             /\ Taken' = row
             /\ \A k \in 1 .. Len(inFlight') : inFlight'[k] = row + k
             /\ \/ /\ row \in decoded /\ row <= recording.actions /\ Fault(row) = "none"
                   /\ pc' = "fill" /\ outcome' = "pending"
                   /\ buffer' = Append(buffer, Frame(row, row))
                \/ /\ row > recording.actions \/ Fault(row) # "none"
                   /\ pc' = "unwind" /\ outcome' \in {"refused", "escaped"} /\ buffer' = buffer
<1> DEFINE row == Taken + 1
<1>1. /\ Len(inFlight) \in Nat /\ Len(inFlight) >= 1 /\ inFlight # <<>> /\ inFlight \in Seq(Nat)
      /\ Taken \in Nat /\ Taken + Len(inFlight) = nextSubmit - 1 /\ nextSubmit \in Nat
      /\ recording.rows \in Nat /\ nextSubmit <= recording.rows + 1
      /\ outcome = "pending"
  BY Numbers DEF Take, TypeInv, PlaceInv
<1>2. /\ Head(inFlight) = inFlight[1] /\ Tail(inFlight) \in Seq(Nat)
      /\ Len(Tail(inFlight)) = Len(inFlight) - 1
      /\ \A k \in 1 .. Len(Tail(inFlight)) : Tail(inFlight)[k] = inFlight[k + 1]
  BY <1>1, HeadTailProperties
<1>3. Head(inFlight) = row
  <2>1. inFlight[1] = Taken + 1
    BY <1>1 DEF TypeInv
  <2> QED
    BY <1>2, <2>1
<1>4. row \in Rows
  BY <1>1 DEF Rows
<1>5. inFlight' = Tail(inFlight) /\ nextSubmit' = nextSubmit
  BY DEF Take
<1>6. Taken' = row
  BY <1>1, <1>2, <1>5 DEF Taken
<1>7. \A k \in 1 .. Len(inFlight') : inFlight'[k] = row + k
  <2> SUFFICES ASSUME NEW k \in 1 .. Len(inFlight') PROVE inFlight'[k] = row + k
    OBVIOUS
  <2>1. k \in Nat /\ k + 1 \in 1 .. Len(inFlight) /\ k \in 1 .. Len(Tail(inFlight))
    BY <1>1, <1>2, <1>5
  <2>2. inFlight[k + 1] = Taken + (k + 1)
    BY <2>1 DEF TypeInv
  <2> QED
    BY <1>1, <1>2, <1>5, <2>1, <2>2
<1>8. \/ /\ row \in decoded /\ ~(row > recording.actions) /\ Fault(row) = "none"
         /\ pc' = "fill" /\ outcome' = outcome
         /\ buffer' = Append(buffer, Frame(row, row))
      \/ /\ row > recording.actions \/ Fault(row) # "none"
         /\ pc' = "unwind" /\ outcome' \in {"escaped", Fault(row)} /\ buffer' = buffer
         /\ outcome' # "none"
  <2> HIDE DEF row
  <2> QED
    BY <1>3 DEF Take
<1>9. Fault(row) \in {"none", "refused", "escaped"}
  BY DEF Fault
<1>10. ~(row > recording.actions) => row <= recording.actions
  BY <1>1, Numbers
<1> QED
  BY <1>1, <1>2, <1>3, <1>4, <1>5, <1>6, <1>7, <1>8, <1>9, <1>10

\* The oldest future's frame joins the buffer, or its exception is raised.
LEMMA TakeStep ==
  ASSUME TypeInv, PlaceInv, Take
  PROVE  TypeStep
<1> DEFINE row == Taken + 1
<1>1. /\ UNCHANGED <<cfg, recording, dataset, nextSubmit, decoded, stored, faults>>
      /\ pc = "take"
  BY DEF Take
<1>2. /\ row \in Rows /\ Taken \in Nat /\ Len(buffer) = Taken /\ Len(buffer) \in Nat
      /\ 1 .. Taken \subseteq decoded /\ cfg.workers > 0
      /\ stored = <<>> /\ Len(inFlight) \in Nat /\ Len(inFlight) <= Prefetch
      /\ inFlight # <<>> /\ Prefetch \in Int
  BY <1>1, TakeEffect, Numbers DEF TypeInv, PlaceInv
<1>3. \/ buffer' = buffer
      \/ buffer' = Append(buffer, Frame(row, row)) /\ row \in decoded
  BY TakeEffect
<1>4. buffer' \in Seq(Frame0) /\ Len(buffer') <= row
  <2>1. CASE buffer' = buffer
    BY <1>2, <2>1 DEF TypeInv
  <2>2. CASE buffer' = Append(buffer, Frame(row, row))
    BY <1>2, <2>2, FrameType, AppendProperties DEF TypeInv
  <2> QED
    BY <1>3, <2>1, <2>2
<1>5. Len(inFlight') <= nextSubmit' - 1 /\ (inFlight' # <<>> => Len(inFlight') <= Prefetch)
  <2>1. Len(inFlight') = Len(inFlight) - 1
    BY TakeEffect
  <2>2. Len(inFlight) <= nextSubmit - 1 /\ nextSubmit \in Nat
    BY Numbers DEF TypeInv
  <2> QED
    BY <1>1, <1>2, <2>1, <2>2
<1>6. TypeInv'
  BY <1>1, <1>4, <1>5, TakeEffect, Stable DEF TypeInv
<1>7. CASE pc' = "fill"
  <2>1. /\ row \in decoded /\ buffer' = Append(buffer, Frame(row, row)) /\ outcome' = "pending"
        /\ Taken' = row
    BY <1>7, TakeEffect
  <2>2. Len(buffer') = row
    BY <1>2, <2>1, FrameType, AppendProperties DEF TypeInv
  <2>3. 1 .. row \subseteq decoded
    BY <1>2, <2>1
  <2> QED
    BY <1>1, <1>2, <1>6, <1>7, <2>1, <2>2, <2>3, Stable DEF PlaceInv, TypeStep
<1>8. CASE pc' = "unwind"
  <2>1. outcome' \in {"refused", "escaped"}
    BY <1>8, TakeEffect
  <2> QED
    BY <1>1, <1>2, <1>6, <1>8, <2>1 DEF PlaceInv, TypeStep
<1> QED
  BY <1>7, <1>8, TakeEffect

\* A step that changes nothing.
LEMMA StutterStep ==
  ASSUME TypeInv, PlaceInv, UNCHANGED vars
  PROVE  TypeStep
<1>1. UNCHANGED <<cfg, recording, dataset, pc, nextSubmit, inFlight, decoded, buffer, stored, outcome, faults>>
  BY DEF vars, pool
<1>2. Taken' = Taken
  BY <1>1 DEF Taken
<1> QED
  BY <1>1, <1>2, Stable DEF TypeInv, PlaceInv, TypeStep

\* The type invariant is inductive.
LEMMA TypeNext == TypeInv /\ PlaceInv /\ [Next]_vars => TypeInv' /\ PlaceInv'
<1> SUFFICES ASSUME TypeInv, PlaceInv, [Next]_vars PROVE TypeStep
  BY DEF TypeStep
<1> QED
  BY EarlyStep, FillStep, TakeStep, UnwindStep, SaveStep, DecodeStep, WriterFailsStep, StutterStep
  DEF Next, Main

\* The type invariant of _convert_one's loop: the window is bounded by prefetch
\* and its rows are consecutive, for any recording and number of workers.
THEOREM TypeCorrect == Spec => []TypeOK
<1>1. Init => TypeInv /\ PlaceInv
  BY TypeInit
<1>2. TypeInv /\ PlaceInv /\ [Next]_vars => (TypeInv /\ PlaceInv)'
  BY TypeNext
<1>3. TypeInv => TypeOK
  BY TypeImplied
<1> QED
  BY <1>1, <1>2, <1>3, PTL DEF Spec
-----------------------------------------------------------------------------
(* What is in the frames, and in the episode.                              *)

\* Frame k of the buffer, and of the episode, is that of row k; the episode has
\* every row, and the columns that the mode projects to.
FrameInv ==
  /\ \A k \in 1 .. Len(buffer) : buffer[k] = Frame(k, k)
  /\ stored # <<>> =>
       LET e == stored[1]
       IN  /\ e.frames \in Seq(Frame0) /\ Len(e.frames) = recording.rows
           /\ \A k \in 1 .. recording.rows : e.frames[k] = Frame(k, k)
           /\ e.row = Row
           /\ e.stateNames = schema.stateKeys /\ e.actionNames = schema.actionKeys
           /\ e.state = Projected(RecordedState, StateKeys, schema.stateKeys)
           /\ e.action = Projected(RecordedAction, ActionKeys, schema.actionKeys)

\* The frames do not change with the window.
LEMMA FrameStable ==
  ASSUME UNCHANGED <<cfg, recording, dataset>>
  PROVE  /\ \A k : Frame(k, k)' = Frame(k, k)
         /\ Row' = Row /\ schema' = schema
         /\ Projected(RecordedState, StateKeys, schema.stateKeys)'
              = Projected(RecordedState, StateKeys, schema.stateKeys)
         /\ Projected(RecordedAction, ActionKeys, schema.actionKeys)'
              = Projected(RecordedAction, ActionKeys, schema.actionKeys)
BY Stable DEF Frame, Row, Ones

\* The widths of the full rig.
LEMMA RigWidths == Len(StateKeys) = 41 /\ Len(ActionKeys) = 19
<1>1. Len(Columns(12)) = 17 + 2 * 12 /\ Len(Columns(1)) = 17 + 2 * 1
  BY ColumnsFacts
<1> QED
  BY <1>1, KeysAreColumns

\* Has the recording the widths of the full rig?
FullRig ==
  IF recording.version = "2.0" THEN Len(recording.state) = 41 /\ Len(recording.action) = 19
    ELSE recording.joints = 12

\* The converter's width check passes for the widths of the full rig only, which
\* in schema 1.0 are those of 12 gripper joints.
LEMMA ShapeFacts ==
  ASSUME TypeInv
  PROVE  ~OtherShape <=> FullRig
<1>1. CASE recording.version = "2.0"
  BY <1>1, RigWidths DEF OtherShape, FullRig, RecordedState, RecordedAction
<1>2. CASE recording.version # "2.0"
  <2>1. recording.joints \in Nat
    BY RecordingAssumption DEF TypeInv
  <2>2. Len(RecordedState) = 17 + 2 * recording.joints
    BY <1>2, <2>1, ColumnsFacts DEF RecordedState
  <2>3. RecordedAction = ActionKeys
    BY <1>2, KeysAreColumns DEF RecordedAction
  <2> QED
    BY <1>2, <2>1, <2>2, <2>3, RigWidths DEF OtherShape, FullRig
<1> QED
  BY <1>1, <1>2

\* A recording is projected to the channels of the mode just when it has them in
\* place, and one of schema 1.0 that is let through has.
LEMMA ProjectedTrue ==
  ASSUME TypeInv
  PROVE  /\ Projected(RecordedState, StateKeys, schema.stateKeys) = schema.stateKeys
              <=> InPlace(RecordedState, StateKeys, schema.stateKeys)
         /\ Projected(RecordedAction, ActionKeys, schema.actionKeys) = schema.actionKeys
              <=> InPlace(RecordedAction, ActionKeys, schema.actionKeys)
         /\ ~OtherShape /\ recording.version # "2.0" =>
              /\ InPlace(RecordedState, StateKeys, schema.stateKeys)
              /\ InPlace(RecordedAction, ActionKeys, schema.actionKeys)
<1>1. StateKeys \in Seq(FieldNames \X Nat) /\ ActionKeys \in Seq(FieldNames \X Nat)
  BY KeysAreColumns, ColumnsFacts
<1>2. schema.stateKeys \in Seq(ToSet(StateKeys)) /\ schema.actionKeys \in Seq(ToSet(ActionKeys))
  BY SchemaFacts DEF TypeInv
<1>3. ~OtherShape /\ recording.version # "2.0" => RecordedState = StateKeys /\ RecordedAction = ActionKeys
  BY ShapeFacts, KeysAreColumns DEF FullRig, RecordedState, RecordedAction
<1>4. /\ Projected(RecordedState, StateKeys, schema.stateKeys) = schema.stateKeys
           <=> InPlace(RecordedState, StateKeys, schema.stateKeys)
      /\ Projected(RecordedAction, ActionKeys, schema.actionKeys) = schema.actionKeys
           <=> InPlace(RecordedAction, ActionKeys, schema.actionKeys)
  BY <1>1, <1>2, KeysApart, ProjectionFact
<1>5. \A keys, subset : InPlace(keys, keys, subset)
  BY DEF InPlace
<1> QED
  BY <1>3, <1>4, <1>5

\* Every step keeps the frames in row order with their own data.
LEMMA FrameNext == TypeInv /\ PlaceInv /\ FrameInv /\ [Next]_vars => FrameInv'
<1> SUFFICES ASSUME TypeInv, PlaceInv, FrameInv, [Next]_vars PROVE FrameInv'
  OBVIOUS
<1>1. CASE UNCHANGED <<cfg, recording, dataset, buffer, stored>>
  BY <1>1, FrameStable DEF FrameInv
<1>2. CASE Open
  <2>1. buffer = <<>> /\ buffer' = <<>> /\ stored = <<>> /\ stored' = <<>>
    <3>1. Taken = 0 /\ stored = <<>>
      BY <1>2, Numbers, EmptySeq DEF Open, TypeInv, PlaceInv, Taken
    <3> QED
      BY <1>2, <3>1, Numbers, EmptySeq DEF Open, TypeInv
  <2>2. Len(buffer') = 0
    BY <2>1
  <2> QED
    BY <2>1, <2>2 DEF FrameInv
<1>3. CASE Take
  <2> DEFINE row == Taken + 1
  <2>1. /\ UNCHANGED <<cfg, recording, dataset, stored>> /\ stored = <<>>
        /\ Len(buffer) = Taken /\ Taken \in Nat /\ buffer \in Seq(Frame0)
    BY <1>3, Numbers DEF Take, TypeInv, PlaceInv
  <2>2. CASE buffer' = buffer
    BY <2>1, <2>2, FrameStable DEF FrameInv
  <2>3. CASE buffer' = Append(buffer, Frame(row, row))
    <3>1. Frame(row, row) \in Frame0
      BY <1>3, TakeEffect, FrameType
    <3>2. /\ Len(buffer') = row /\ buffer'[row] = Frame(row, row)
          /\ \A k \in 1 .. Taken : buffer'[k] = buffer[k]
      BY <2>1, <2>3, <3>1, AppendProperties
    <3>3. \A k \in 1 .. row : buffer'[k] = Frame(k, k)
      <4> SUFFICES ASSUME NEW k \in 1 .. row PROVE buffer'[k] = Frame(k, k)
        OBVIOUS
      <4>1. CASE k = row
        BY <3>2, <4>1
      <4>2. CASE k # row
        <5>1. k \in 1 .. Taken
          BY <2>1, <4>2
        <5> QED
          BY <2>1, <3>2, <5>1 DEF FrameInv
      <4> QED
        BY <4>1, <4>2
    <3> QED
      BY <2>1, <3>2, <3>3, FrameStable DEF FrameInv
  <2> QED
    BY <1>3, <2>2, <2>3, TakeEffect
<1>4. CASE Unwind
  <2>1. UNCHANGED <<cfg, recording, dataset, stored>> /\ buffer' = <<>>
    BY <1>4 DEF Unwind
  <2>2. Len(buffer') = 0
    BY <2>1
  <2> QED
    BY <2>1, <2>2, FrameStable DEF FrameInv
<1>5. CASE Save
  <2>1. /\ UNCHANGED <<cfg, recording, dataset>> /\ buffer' = <<>>
        /\ stored'[1].frames = buffer /\ stored'[1].row = Row
        /\ stored'[1].stateNames = schema.stateKeys /\ stored'[1].actionNames = schema.actionKeys
        /\ stored'[1].state = Projected(RecordedState, StateKeys, schema.stateKeys)
        /\ stored'[1].action = Projected(RecordedAction, ActionKeys, schema.actionKeys)
    BY <1>5 DEF Save
  <2>2. Len(buffer') = 0 /\ Len(buffer) = recording.rows /\ buffer \in Seq(Frame0)
    BY <1>5, <2>1 DEF Save, TypeInv, PlaceInv
  <2> QED
    BY <2>1, <2>2, FrameStable DEF FrameInv
<1>6. CASE Verify \/ Read \/ Check \/ Fill \/ Pool \/ WriterFails \/ UNCHANGED vars
  <2>1. UNCHANGED <<cfg, recording, dataset, buffer, stored>>
    BY <1>6 DEF Verify, Read, Check, Fill, Pool, Decode, WriterFails, vars
  <2> QED
    BY <2>1, <1>1
<1> QED
  BY <1>2, <1>3, <1>4, <1>5, <1>6 DEF Next, Main
-----------------------------------------------------------------------------
(* Which recordings are converted.                                         *)

\* The parts of ConvertedIsIntact: is it asked for, does each check pass, is a
\* row good?
Wanted == recording.rows > 0 /\ (cfg.filter = "" \/ Task = cfg.filter)
Verified == cfg.verify => recording.sidecar \in {"absent", "right"}
Usable == Wanted /\ ~OtherShape /\ Imageless = {} /\ Missing = {}
GoodRow(row) == row <= recording.actions /\ Fault(row) = "none"

\* What the conversion has found out, wherever it is.
WorkInv ==
  /\ pc \in {"read", "check", "open", "fill", "take", "save"} \/ outcome = "converted" => Verified
  /\ pc \in {"check", "open", "fill", "take", "save"} \/ outcome = "converted" =>
       recording.version # "other"
  /\ pc \in {"open", "fill", "take", "save"} \/ outcome = "converted" => Usable
  /\ pc \in {"fill", "take", "save"} => \A row \in 1 .. Taken : GoodRow(row)
  /\ outcome = "converted" => \A row \in Rows : GoodRow(row)
  /\ Intact /\ Wanted /\ faults = 0 /\ cfg.workers > 0 => outcome \in {"pending", "converted"}

\* The cameras of a mode.
LEMMA CameraFacts == ToSet(schema.imageNames) = {schema.imageNames[k] : k \in DOMAIN schema.imageNames}
BY DEF ToSet

\* A row has no fault exactly if each camera of the mode has a good image of it.
LEMMA FaultFact ==
  ASSUME NEW row
  PROVE  Fault(row) = "none" <=>
           \A camera \in ToSet(schema.imageNames) :
             ~(row > Len(recording.images[camera])) /\ recording.images[camera][row] = "jpeg"
<1> DEFINE images(k) == recording.images[schema.imageNames[k]]
           bad == {k \in DOMAIN schema.imageNames : row > Len(images(k)) \/ images(k)[row] # "jpeg"}
<1>1. Fault(row) = "none" <=> bad = {}
  BY DEF Fault
<1>2. bad = {} <=> \A k \in DOMAIN schema.imageNames : ~(row > Len(images(k))) /\ images(k)[row] = "jpeg"
  OBVIOUS
<1> QED
  BY <1>1, <1>2, CameraFacts

\* The images of a camera are a sequence.
LEMMA ImageFacts ==
  ASSUME TypeInv, NEW camera \in DOMAIN recording.images
  PROVE  /\ recording.images[camera] \in Seq(Images)
         /\ Len(recording.images[camera]) \in Nat
         /\ recording.images[camera] = <<>> <=> Len(recording.images[camera]) = 0
BY RecordingAssumption, EmptySeq DEF TypeInv

\* An intact recording that is wanted passes every check and has no bad row.
LEMMA IntactUsable ==
  ASSUME TypeInv, Intact, Wanted
  PROVE  /\ Verified /\ recording.version # "other" /\ Usable
         /\ \A row \in Rows : GoodRow(row)
<1>n. recording.rows \in Nat /\ recording.actions \in Nat /\ recording.rows > 0
  BY Numbers DEF Wanted
<1>1. 1 \in Rows /\ recording.rows \in Nat /\ recording.actions \in Nat
  BY <1>n DEF Rows
<1>2. \A camera \in ToSet(schema.imageNames) :
        /\ camera \in DOMAIN recording.images
        /\ \A i \in Rows : i <= Len(recording.images[camera]) /\ recording.images[camera][i] = "jpeg"
  BY DEF Intact
<1>3. Missing = {}
  BY <1>1, <1>2 DEF Missing
<1>4. Imageless = {}
  <2> SUFFICES ASSUME NEW camera \in ToSet(schema.imageNames), recording.images[camera] = <<>>
               PROVE  FALSE
    BY DEF Imageless
  <2>1. 1 <= Len(recording.images[camera]) /\ camera \in DOMAIN recording.images
    BY <1>1, <1>2
  <2> QED
    BY <2>1, ImageFacts
<1>5. ~OtherShape
  BY ShapeFacts DEF Intact, FullRig
<1>6. \A row \in Rows : GoodRow(row)
  <2> SUFFICES ASSUME NEW row \in Rows PROVE GoodRow(row)
    OBVIOUS
  <2>1. row \in Nat /\ row <= recording.rows /\ recording.actions >= recording.rows
    BY <1>1 DEF Rows, Intact
  <2>2. \A camera \in ToSet(schema.imageNames) :
          ~(row > Len(recording.images[camera])) /\ recording.images[camera][row] = "jpeg"
    BY <1>2, <2>1, ImageFacts
  <2>3. Fault(row) = "none"
    BY <2>2, FaultFact
  <2> QED
    BY <1>1, <2>1, <2>3 DEF GoodRow
<1>7. Verified /\ recording.version # "other"
  BY DEF Intact, Verified
<1> QED
  BY <1>3, <1>4, <1>5, <1>6, <1>7 DEF Usable

\* What passes every check and has no bad row is intact.
LEMMA UsableIntact ==
  ASSUME TypeInv, Verified, recording.version # "other", Usable, \A row \in Rows : GoodRow(row)
  PROVE  Intact
<1>n. recording.rows \in Nat /\ recording.actions \in Nat /\ recording.rows > 0
  BY Numbers DEF Usable, Wanted
<1>1. recording.rows \in Nat /\ recording.rows > 0 /\ recording.actions \in Nat /\ recording.rows \in Rows
  BY <1>n DEF Rows
<1>2. recording.actions >= recording.rows
  BY <1>1 DEF GoodRow
<1>3. /\ recording.version = "1.0" => recording.joints = 12
      /\ recording.version = "2.0" => Len(recording.state) = 41 /\ Len(recording.action) = 19
      /\ recording.version \in {"1.0", "2.0"}
  BY ShapeFacts, RecordingAssumption DEF Usable, FullRig, TypeInv
<1>4. \A camera \in ToSet(schema.imageNames) :
        /\ camera \in DOMAIN recording.images
        /\ \A i \in Rows : i <= Len(recording.images[camera]) /\ recording.images[camera][i] = "jpeg"
  <2> SUFFICES ASSUME NEW camera \in ToSet(schema.imageNames)
               PROVE  /\ camera \in DOMAIN recording.images
                      /\ \A i \in Rows : i <= Len(recording.images[camera]) /\ recording.images[camera][i] = "jpeg"
    OBVIOUS
  <2>1. camera \in DOMAIN recording.images
    BY DEF Usable, Missing
  <2>2. \A i \in Rows : ~(i > Len(recording.images[camera])) /\ recording.images[camera][i] = "jpeg"
    BY FaultFact DEF GoodRow
  <2>3. \A i \in Rows : i \in Nat
    BY <1>1 DEF Rows
  <2> QED
    BY <2>1, <2>2, <2>3, ImageFacts
<1> QED
  BY <1>2, <1>3, <1>4 DEF Intact, Verified

\* Whether a recording is to be converted does not change on the way.
LEMMA WorkStable ==
  ASSUME UNCHANGED <<cfg, recording>>
  PROVE  /\ Wanted' = Wanted /\ Verified' = Verified /\ Usable' = Usable /\ Intact' = Intact
         /\ \A row : GoodRow(row)' = GoodRow(row)
<1>1. Wanted' = Wanted /\ Verified' = Verified
  BY Stable DEF Wanted, Verified
<1>2. Imageless' = Imageless /\ Missing' = Missing /\ OtherShape' = OtherShape
  BY Stable DEF Imageless, Missing, OtherShape
<1>3. Intact' = Intact
  BY Stable DEF Intact
<1>4. \A row : GoodRow(row)' = GoodRow(row)
  BY Stable DEF GoodRow
<1> QED
  BY <1>1, <1>2, <1>3, <1>4 DEF Usable
\* Every step finds out what it should: see WorkInv.
LEMMA WorkNext == TypeInv /\ PlaceInv /\ WorkInv /\ [Next]_vars => WorkInv'
<1> SUFFICES ASSUME TypeInv, PlaceInv, WorkInv, [Next]_vars PROVE WorkInv'
  OBVIOUS
<1>0. UNCHANGED <<cfg, recording>>
  BY DEF Next, Main, Pool, Verify, Read, Check, Open, Fill, Take, Unwind, Save, Decode, WriterFails, vars
<1>s. /\ Wanted' = Wanted /\ Verified' = Verified /\ Usable' = Usable /\ Intact' = Intact
      /\ Rows' = Rows /\ recording' = recording /\ cfg' = cfg
      /\ \A row : GoodRow(row)' = GoodRow(row)
  BY <1>0, WorkStable, Stable
<1>i. /\ Intact /\ Wanted => /\ Verified /\ recording.version # "other" /\ Usable
                             /\ \A row \in Rows : GoodRow(row)
      /\ recording.rows \in Nat
  BY IntactUsable, Numbers
<1>1. CASE Verify
  <2>1. /\ UNCHANGED <<nextSubmit, inFlight, faults>> /\ outcome = "pending" /\ pc = "verify"
        /\ \/ pc' = "read" /\ outcome' = outcome /\ Verified
           \/ pc' = "done" /\ outcome' \in {"refused", "escaped"} /\ ~Verified
    BY <1>1 DEF Verify, End, pool, TypeInv, PlaceInv, Verified
  <2> QED
    BY <1>s, <1>i, <2>1 DEF WorkInv
<1>2. CASE Read
  <2>1. /\ UNCHANGED <<nextSubmit, inFlight, faults>> /\ outcome = "pending" /\ pc = "read"
        /\ \/ pc' = "check" /\ outcome' = outcome /\ recording.version # "other"
           \/ pc' = "done" /\ outcome' = "refused" /\ recording.version = "other"
    BY <1>2 DEF Read, End, pool, PlaceInv
  <2> QED
    BY <1>s, <1>i, <2>1 DEF WorkInv
<1>3. CASE Check
  <2>1. FilteredOut \/ recording.rows = 0 <=> ~Wanted
    <3>1. recording.rows = 0 <=> ~(recording.rows > 0)
      BY <1>i
    <3>2. FilteredOut <=> ~(cfg.filter = "" \/ Task = cfg.filter)
      BY DEF FilteredOut
    <3> QED
      BY <3>1, <3>2, Zenon DEF Wanted
  <2>2. /\ UNCHANGED <<nextSubmit, inFlight, faults>> /\ outcome = "pending" /\ pc = "check"
        /\ \/ pc' = "open" /\ outcome' = outcome /\ Usable
           \/ pc' = "done" /\ outcome' \in {"skipped", "refused", "escaped"} /\ ~Usable
    BY <1>3, <2>1 DEF Check, End, pool, PlaceInv, Usable
  <2> QED
    BY <1>s, <1>i, <2>2 DEF WorkInv
<1>4. CASE Open
  <2>1. /\ UNCHANGED <<nextSubmit, inFlight, faults>> /\ outcome = "pending" /\ pc = "open"
        /\ \/ pc' = "fill" /\ outcome' = outcome
           \/ pc' = "done" /\ outcome' = Fault(1) /\ Fault(1) # "none"
           \/ pc' = "done" /\ outcome' = "refused" /\ ~(cfg.workers > 0)
    BY <1>4 DEF Open, End, pool, PlaceInv
  <2>2. Taken' = 0
    BY <1>4, <2>1, Numbers, EmptySeq DEF PlaceInv, Taken
  <2>3. Usable /\ Wanted /\ 1 \in Rows
    <3>1. Usable
      BY <2>1 DEF WorkInv
    <3>2. Wanted
      BY <3>1 DEF Usable
    <3>3. recording.rows \in Nat /\ recording.rows > 0
      BY <1>i, <3>2 DEF Wanted
    <3> QED
      BY <3>1, <3>2, <3>3 DEF Rows
  <2>4. Fault(1) \in {"none", "refused", "escaped"}
    BY DEF Fault
  <2>5. Intact => Fault(1) = "none"
    BY <1>i, <2>3 DEF GoodRow
  <2> QED
    BY <1>s, <1>i, <2>1, <2>2, <2>4, <2>5 DEF WorkInv
<1>5. CASE Fill
  <2>1. /\ UNCHANGED <<faults, outcome>> /\ outcome = "pending" /\ pc = "fill"
        /\ pc' \in {"save", "take"} /\ Taken' = Taken
    BY <1>5, FillEffect DEF Fill, PlaceInv
  <2> QED
    BY <1>s, <2>1 DEF WorkInv
<1>6. CASE Take
  <2> DEFINE row == Taken + 1
  <2>1. faults' = faults /\ pc = "take" /\ outcome = "pending" /\ Taken \in Nat /\ row \in Rows
    BY <1>6, TakeEffect, Numbers DEF Take, PlaceInv
  <2>2. CASE /\ row <= recording.actions /\ Fault(row) = "none"
             /\ pc' = "fill" /\ outcome' = "pending" /\ Taken' = row
    <3>1. \A k \in 1 .. row : GoodRow(k)
      <4>1. \A k \in 1 .. row : k \in 1 .. Taken \/ k = row
        BY <2>1
      <4> QED
        BY <2>1, <2>2, <4>1 DEF WorkInv, GoodRow
    <3> QED
      BY <1>s, <2>1, <2>2, <3>1 DEF WorkInv
  <2>3. CASE /\ row > recording.actions \/ Fault(row) # "none"
             /\ pc' = "unwind" /\ outcome' \in {"refused", "escaped"}
    <3>1. recording.actions \in Nat /\ row \in Nat
      BY <2>1, Numbers
    <3>2. ~GoodRow(row)
      BY <2>3, <3>1 DEF GoodRow
    <3> QED
      BY <1>s, <1>i, <2>1, <2>3, <3>2 DEF WorkInv
  <2> QED
    BY <1>6, <2>2, <2>3, TakeEffect
<1>7. CASE Unwind
  <2>1. UNCHANGED <<outcome, faults>> /\ pc = "unwind" /\ pc' = "done" /\ outcome # "converted"
    BY <1>7 DEF Unwind, PlaceInv
  <2> QED
    BY <1>s, <2>1 DEF WorkInv
<1>8. CASE Save
  <2>1. faults' = faults /\ pc = "save" /\ pc' = "done" /\ outcome' = "converted" /\ Taken = recording.rows
    BY <1>8 DEF Save, End, PlaceInv
  <2> QED
    BY <1>s, <2>1 DEF WorkInv, Rows
<1>9. CASE WriterFails
  <2>1. faults' = faults + 1 /\ pc' = "unwind" /\ outcome' = "refused" /\ faults \in Nat
    BY <1>9, BoundsAssumption DEF WriterFails, TypeInv
  <2>2. faults' # 0
    BY <2>1
  <2> QED
    BY <1>s, <2>1, <2>2 DEF WorkInv
<1>10. CASE Pool \/ UNCHANGED vars
  <2>1. UNCHANGED <<pc, nextSubmit, inFlight, faults, outcome>>
    BY <1>10 DEF Pool, Decode, vars, pool
  <2>2. Taken' = Taken
    BY <2>1 DEF Taken
  <2> QED
    BY <1>s, <2>1, <2>2 DEF WorkInv
<1> QED
  BY <1>1, <1>2, <1>3, <1>4, <1>5, <1>6, <1>7, <1>8, <1>9, <1>10 DEF Next, Main

Inv == TypeInv /\ PlaceInv /\ FrameInv /\ WorkInv

\* The inductive invariant holds at the call.
LEMMA InvInit == Init => Inv
<1> SUFFICES ASSUME Init PROVE Inv
  OBVIOUS
<1>1. TypeInv /\ PlaceInv
  BY TypeInit
<1>2. Len(buffer) = 0 /\ stored = <<>>
  BY DEF Init
<1>3. FrameInv
  BY <1>2 DEF FrameInv
<1>4. WorkInv
  BY DEF Init, WorkInv
<1> QED
  BY <1>1, <1>3, <1>4 DEF Inv

\* The inductive invariant is kept by every step.
LEMMA InvNext == Inv /\ [Next]_vars => Inv'
<1> SUFFICES ASSUME Inv, [Next]_vars PROVE Inv'
  OBVIOUS
<1>1. TypeInv' /\ PlaceInv'
  BY TypeNext DEF Inv
<1>2. FrameInv'
  BY FrameNext DEF Inv
<1>3. WorkInv'
  BY WorkNext DEF Inv
<1> QED
  BY <1>1, <1>2, <1>3 DEF Inv

\* The inductive invariant holds always.
LEMMA InvSpec == Spec => []Inv
BY InvInit, InvNext, PTL DEF Spec

\* The intervention flag of a row (hdf5_episode.py's intervention rule).
LEMMA FlagFact ==
  ASSUME TypeInv, NEW k \in Rows
  PROVE  /\ Flags[k] = IF Len(recording.flags) = recording.rows THEN recording.flags[k] ELSE 0
         /\ DOMAIN Flags = Rows
<1>1. recording.flags \in Seq({0, 1})
  BY RecordingAssumption DEF TypeInv
<1> QED
  BY <1>1, LenProperties DEF Flags, Rows

\* Frame k is made of row k whatever order the workers finish in, and has the
\* recorder's flag of that row (_convert_one's loop).
THEOREM FramesCorrect == Spec => []FramesTrue
<1>1. Inv => FramesTrue
  <2> SUFFICES ASSUME Inv PROVE FramesTrue
    OBVIOUS
  <2>1. /\ Frames \in Seq(Frame0) /\ Len(Frames) <= recording.rows
        /\ \A k \in 1 .. Len(Frames) : Frames[k] = Frame(k, k)
    <3>1. CASE stored = <<>>
      <4>1. Len(buffer) <= recording.rows
        BY Numbers DEF Inv, TypeInv
      <4> QED
        BY <3>1, <4>1 DEF Inv, TypeInv, FrameInv, Frames
    <3>2. CASE stored # <<>>
      BY <3>2, Numbers DEF Inv, FrameInv, Frames
    <3> QED
      BY <3>1, <3>2
  <2> SUFFICES ASSUME NEW k \in DOMAIN Frames
               PROVE  /\ Frames[k].state = k /\ Frames[k].action = k /\ Frames[k].image = k
                      /\ Frames[k].flag \subseteq
                           {IF Len(recording.flags) = recording.rows THEN recording.flags[k] ELSE 0}
    BY DEF FramesTrue
  <2>2. k \in 1 .. Len(Frames) /\ k \in Rows
    BY <2>1, Numbers, LenProperties DEF Inv, Rows
  <2>3. Frames[k] = Frame(k, k)
    BY <2>1, <2>2
  <2> QED
    BY <2>2, <2>3, FlagFact DEF Frame, Inv
<1> QED
  BY <1>1, InvSpec, PTL

\* An episode is stored whole, with the right counts in its manifest row, or not
\* at all, and nothing is left half-built or running when _convert_one has
\* ended.
THEOREM WholeCorrect == Spec => []AllOrNothing
<1>1. Inv => AllOrNothing
  <2> SUFFICES ASSUME Inv PROVE AllOrNothing
    OBVIOUS
  <2>1. stored # <<>> <=> outcome = "converted"
    BY DEF Inv, PlaceInv
  <2>2. pc = "done" => buffer = <<>> /\ 1 .. nextSubmit - 1 \subseteq decoded
    BY DEF Inv, PlaceInv
  <2>3. ASSUME NEW e \in ToSet(stored)
        PROVE  /\ Len(e.frames) = recording.rows /\ e.row.frames = recording.rows
               /\ dataset = "new" =>
                    e.row.interventions = Cardinality({k \in DOMAIN e.frames : e.frames[k].flag = {1}})
    <3>1. stored # <<>> /\ e = stored[1]
      BY DEF ToSet, Inv, TypeInv
    <3>2. /\ e.frames \in Seq(Frame0) /\ Len(e.frames) = recording.rows
          /\ \A k \in Rows : e.frames[k] = Frame(k, k)
          /\ e.row = Row
      BY <3>1 DEF Inv, FrameInv, Rows
    <3>3. DOMAIN e.frames = Rows /\ DOMAIN Flags = Rows
      <4>1. DOMAIN e.frames = 1 .. recording.rows
        BY <3>2, LenProperties
      <4>2. DOMAIN Flags = Rows
        <5>1. recording.flags \in Seq({0, 1})
          BY RecordingAssumption DEF Inv, TypeInv
        <5> QED
          BY <5>1, LenProperties DEF Flags, Rows
      <4> QED
        BY <4>1, <4>2 DEF Rows
    <3>4. ASSUME dataset = "new"
          PROVE  {k \in DOMAIN e.frames : e.frames[k].flag = {1}} = {k \in DOMAIN Flags : Flags[k] = 1}
      <4>0. \A k : Frame(k, k).flag = {Flags[k]}
        BY <3>4 DEF Frame
      <4>1. \A k \in Rows : e.frames[k].flag = {Flags[k]}
        BY <3>2, <4>0
      <4> QED
        BY <3>3, <4>1
    <3>5. Row.frames = recording.rows /\ Row.interventions = Ones(Flags)
      BY DEF Row
    <3> QED
      BY <3>2, <3>4, <3>5 DEF Ones
  <2> QED
    BY <2>1, <2>2, <2>3 DEF AllOrNothing
<1> QED
  BY <1>1, InvSpec, PTL

\* Each stored column was recorded from the channel it is named for, in every
\* mode, just when the recording has the mode's channels in the schema's place,
\* which the width check makes sure of in schema 1.0, and not in schema 2.0.
THEOREM ChannelsCorrect == Spec => []ChannelsTrue
<1>1. Inv => ChannelsTrue
  <2> SUFFICES ASSUME Inv, stored # <<>> PROVE ChannelsTrue
    BY DEF ChannelsTrue
  <2>1. ~OtherShape
    BY DEF Inv, PlaceInv, WorkInv, Usable
  <2> QED
    BY <2>1, ProjectedTrue DEF Inv, FrameInv, ChannelsTrue
<1> QED
  BY <1>1, InvSpec, PTL

\* Exactly the intact and wanted recordings are converted, but for a failing
\* writer and a pool without workers (_convert_one's checks and errors).
THEOREM IntactCorrect == Spec => []ConvertedIsIntact
<1>1. Inv => ConvertedIsIntact
  <2> SUFFICES ASSUME Inv, pc = "done"
               PROVE  /\ outcome = "converted" => Intact /\ Wanted
                      /\ Intact /\ Wanted /\ faults = 0 /\ cfg.workers > 0 => outcome = "converted"
    BY DEF ConvertedIsIntact, Wanted
  <2>1. outcome = "converted" => Intact /\ Wanted
    BY UsableIntact DEF Inv, WorkInv, Usable
  <2>2. outcome # "pending"
    BY DEF Inv, PlaceInv
  <2> QED
    BY <2>1, <2>2 DEF Inv, WorkInv
<1> QED
  BY <1>1, InvSpec, PTL
=============================================================================
