---------------------------- MODULE MCConverter ----------------------------
(* Converter on small instances: see README.md for the bounds.             *)
EXTENDS Converter

MixedKinds == <<"good", "refused", "good", "poison">>
DrainKinds == <<"good", "skipped", "good">>
OneBadApple == <<"poison", "good">>

RoundsOf(n) == [rounds |-> TRUE, capped |-> TRUE, numDemos |-> n, once |-> FALSE, mode |-> TRUE,
                task |-> TRUE, target |-> FALSE, pause |-> 60, resume |-> 40]
SingleOf(n) == [rounds |-> FALSE, capped |-> TRUE, numDemos |-> n, once |-> TRUE, mode |-> TRUE,
                task |-> FALSE, target |-> TRUE, pause |-> 60, resume |-> 40]

\* Command lines that are refused, one for each reason.
Refused == {RoundsOf(0), [RoundsOf(1) EXCEPT !.capped = FALSE], [RoundsOf(1) EXCEPT !.task = FALSE],
            [SingleOf(1) EXCEPT !.target = FALSE], [SingleOf(1) EXCEPT !.resume = 70],
            [RoundsOf(1) EXCEPT !.mode = FALSE]}

\* Rounds of two episodes; one dataset capped at two, filled by run_once jobs.
CrashConfigs == {RoundsOf(2), SingleOf(2)} \cup Refused
\* The same with rounds of one, so that every episode rolls over.
ServiceConfigs == {RoundsOf(1), SingleOf(2)} \cup Refused
PoisonConfigs == {RoundsOf(2)}

Machine(file, util) == [pauseFile |-> file, util |-> util]
Idle == {Machine(FALSE, 0)}
\* Below, between and above the thresholds, unreadable, and the pause-file.
Shared == {Machine(FALSE, u) : u \in {40, 50, 60, NoReading}} \cup {Machine(TRUE, 50)}
=============================================================================
