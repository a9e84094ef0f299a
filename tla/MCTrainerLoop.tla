--------------------------- MODULE MCTrainerLoop ----------------------------
(* TrainerLoop on small instances: see README.md for the bounds.           *)
EXTENDS TrainerLoop

\* The first episodes run without any intervention, and the first loader that
\* can be built has no full batch.
LateInterventions == [e \in EpisodeIds |-> e >= 2]
LateBatches == [n \in 0 .. MaxEpisodes |-> IF n >= 3 THEN 1 ELSE 0]

Dagger(n, start) ==
  [dagger |-> TRUE, baseline |-> TRUE, dir |-> TRUE, ratio |-> 50, steps |-> n,
   publishFreq |-> 2, gradAccum |-> 1, publishAtStart |-> start]
Single(n) == [Dagger(n, TRUE) EXCEPT !.dagger = FALSE, !.baseline = FALSE, !.dir = FALSE]

\* Command lines that are refused, one for each reason.
Refused == {[Single(5) EXCEPT !.publishFreq = 0], [Single(5) EXCEPT !.gradAccum = 0],
            [Dagger(5, TRUE) EXCEPT !.baseline = FALSE], [Dagger(5, TRUE) EXCEPT !.dir = FALSE],
            [Dagger(5, TRUE) EXCEPT !.ratio = 0], [Dagger(5, TRUE) EXCEPT !.ratio = 100]}

\* Capped and endless rounds; a single shot whose last period is short, whole
\* or empty.
AllLoops == {Dagger(7, TRUE), Dagger(0, FALSE), Single(5), Single(4), Single(0), Single(-1)} \cup Refused
=============================================================================
