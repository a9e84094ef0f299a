---------------------------- MODULE MCConversion ----------------------------
(* A good recording and others with one thing different; every mode, and    *)
(* every other option in one mode.                                          *)
EXTENDS Conversion

Same(image, n) == [i \in 1 .. n |-> image]

Good ==
  [sidecar |-> "right", version |-> "1.0", task |-> "pick", rows |-> 5, actions |-> 5, joints |-> 12,
   state |-> StateKeys, action |-> ActionKeys, flags |-> <<0, 1, 1, 0, 1>>,
   images |-> [camera \in {"head", "left_wrist", "right_wrist"} |-> Same("jpeg", 5)]]

\* Schema 2.0: the two arms the other way round, lift before head, the fields
\* of one mode only, and a narrower action.
Flat(state, action) == [Good EXCEPT !.version = "2.0", !.state = state, !.action = action]
RightArmFirst(keys) == SubSeq(keys, 8, 14) \o SubSeq(keys, 1, 7) \o SubSeq(keys, 15, Len(keys))
LiftFirst(keys) ==
  SubSeq(keys, 1, 14) \o SubSeq(keys, 17, 17) \o SubSeq(keys, 15, 16) \o SubSeq(keys, 18, Len(keys))

WithHead(images) == [Good EXCEPT !.images["head"] = images]

MCRecordings ==
  {Good}
    \cup {[Good EXCEPT !.sidecar = s] : s \in {"absent", "wrong", "blank"}}
    \cup {[Good EXCEPT !.version = "other"]}
    \cup {Flat(StateKeys, ActionKeys), Flat(RightArmFirst(StateKeys), ActionKeys),
          Flat(LiftFirst(StateKeys), LiftFirst(ActionKeys)), Flat(ArmOnly(StateKeys), ActionKeys),
          Flat(StateKeys, ArmOnly(ActionKeys))}
    \cup {[Good EXCEPT !.task = t] : t \in {"", "place"}}
    \cup {[Good EXCEPT !.rows = n] : n \in {0, 1, 6}}
    \cup {[Good EXCEPT !.actions = n] : n \in {3, 6}}
    \cup {[Good EXCEPT !.flags = f] : f \in {<<>>, <<0, 1, 1, 0>>, <<0, 1, 1, 0, 1, 1>>}}
    \cup {[Good EXCEPT !.joints = 8]}
    \cup {WithHead(images) :
            images \in {<<>>, Same("jpeg", 2), Same("empty", 5)}
                         \cup {[Same("jpeg", 5) EXCEPT ![i] = bad] : i \in {1, 4}, bad \in {"corrupt", "empty"}}}
    \cup {[Good EXCEPT !.images = [camera \in {"left_wrist", "right_wrist"} |-> Same("jpeg", 5)]],
          [Good EXCEPT !.images = [camera \in Cameras |-> Same(IF camera = "third" THEN "empty" ELSE "jpeg", 5)]]}

Plain(mode) == [mode |-> mode, verify |-> TRUE, filter |-> "", default |-> "pick", workers |-> 2]

MCConfigs ==
  {Plain(mode) : mode \in ModeChoices}
    \cup {[Plain("insertion_15") EXCEPT !.workers = n] : n \in {0, 1, 3}}
    \cup {[Plain("insertion_15") EXCEPT !.verify = FALSE],
          [Plain("insertion_15") EXCEPT !.filter = "pick"],
          [Plain("insertion_15") EXCEPT !.filter = "place", !.default = ""]}
=============================================================================
