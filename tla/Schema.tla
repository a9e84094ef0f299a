------------------------------- MODULE Schema -------------------------------
(***************************************************************************)
(* The observation and action channels of the rig (common/schema.py): the  *)
(* full layout, the subset every --mode exposes, and the projection of a   *)
(* recording to a subset.  A channel is a field and an index in it,        *)
(* <<"arm_left", 0>> for arm_left_0.                                       *)
(***************************************************************************)
EXTENDS Naturals, SequencesExt

Cols(field, indices) == [k \in DOMAIN indices |-> <<field, indices[k]>>]
UpTo(n) == [k \in 1 .. n |-> k - 1]

StateKeys ==
  Cols("arm_left", UpTo(7)) \o Cols("arm_right", UpTo(7)) \o Cols("head", UpTo(2))
    \o Cols("lift", UpTo(1)) \o Cols("gripper_left", UpTo(12)) \o Cols("gripper_right", UpTo(12))
ActionKeys ==
  Cols("arm_left", UpTo(7)) \o Cols("arm_right", UpTo(7)) \o Cols("head", UpTo(2))
    \o Cols("lift", UpTo(1)) \o Cols("gripper_left", UpTo(1)) \o Cols("gripper_right", UpTo(1))

Grippers == {"gripper_left", "gripper_right"}

\* Finger joints of the reduced grippers.
J1J2 == UpTo(8)
J1J3 == <<0, 1, 2, 3, 8, 9, 10, 11>>

ArmOnly(keys) == SelectSeq(keys, LAMBDA key : key[1] \notin {"head", "lift"})
ArmAndGripper(side, joints) == Cols("arm_" \o side, UpTo(7)) \o Cols("gripper_" \o side, joints)

ActionKeysHandover == ArmAndGripper("left", UpTo(1)) \o Cols("gripper_right", UpTo(1))

\* A ModeSchema, without what only the robot's side looks at.
ModeSchema(stateKeys, actionKeys) ==
  [stateKeys |-> stateKeys, actionKeys |-> actionKeys,
   imageNames |-> <<"head", "left_wrist", "right_wrist">>]

ModeSchemas ==
  LET left31 == ArmAndGripper("left", UpTo(12)) \o Cols("gripper_right", UpTo(12))
      left23 == ArmAndGripper("left", J1J3) \o Cols("gripper_right", J1J2)
      leftAction == ArmAndGripper("left", UpTo(1))
  IN  [full         |-> ModeSchema(StateKeys, ActionKeys),
       arm_only     |-> ModeSchema(ArmOnly(StateKeys), ArmOnly(ActionKeys)),
       left_only    |-> ModeSchema(ArmAndGripper("left", UpTo(12)), leftAction),
       handover     |-> ModeSchema(ArmOnly(StateKeys), ActionKeysHandover),
       handover_31  |-> ModeSchema(left31, ActionKeysHandover),
       handover_23  |-> ModeSchema(left23, ActionKeysHandover),
       insertion_15 |-> ModeSchema(ArmAndGripper("left", J1J3), leftAction),
       cable_insertion_first |->
         ModeSchema(ArmAndGripper("right", J1J2), ArmAndGripper("right", UpTo(1)))]

Modes == DOMAIN ModeSchemas
ModeChoices == Modes \cup {"insertion"}

\* resolve_mode: the deprecated spelling stands for left_only.
ResolveMode(mode) == IF mode = "insertion" THEN "left_only" ELSE mode
GetSchema(mode) == ModeSchemas[ResolveMode(mode)]

\* Mutant: as many columns, but the first ones.
FirstColumns(full, subset) == [k \in DOMAIN subset |-> k]

\* projection_indices: where each channel of subset is in full.
ProjectionIndices(full, subset) ==
  [k \in DOMAIN subset |-> CHOOSE i \in DOMAIN full : full[i] = subset[k]]

\* The continuous channels of the action.
ContActionKeys(s) == SelectSeq(s.actionKeys, LAMBDA key : key[1] \notin Grippers)

\* The arguments of _check: state, action and continuous channels.
Sizes ==
  [full |-> <<41, 19, 17>>, arm_only |-> <<38, 16, 14>>, left_only |-> <<19, 8, 7>>,
   handover |-> <<38, 9, 7>>, handover_31 |-> <<31, 9, 7>>, handover_23 |-> <<23, 9, 7>>,
   insertion_15 |-> <<15, 8, 7>>, cable_insertion_first |-> <<15, 8, 7>>]

-----------------------------------------------------------------------------
Fields(keys) == {keys[k][1] : k \in DOMAIN keys}

\* What a schema's two vectors must agree on: it drives nothing it cannot
\* observe, and both are subsets of the full ones, each channel once.
Agrees(s) ==
  /\ Fields(s.actionKeys) \subseteq Fields(s.stateKeys)
  /\ s.stateKeys \in Seq(ToSet(StateKeys)) /\ s.actionKeys \in Seq(ToSet(ActionKeys))
  /\ \A keys \in {s.stateKeys, s.actionKeys} :
       \A i, j \in DOMAIN keys : keys[i] = keys[j] => i = j

\* What schema.py asserts of its table when it is imported, and what it relies
\* on: the hand-written parts of every mode agree with each other.
ASSUME SchemaConsistent ==
  \A mode \in Modes :
    LET s == ModeSchemas[mode]
    IN  /\ Agrees(s)
        /\ <<Len(s.stateKeys), Len(s.actionKeys), Len(ContActionKeys(s))>> = Sizes[mode]
=============================================================================
