---------------------------- MODULE TrainerLoop -----------------------------
(***************************************************************************)
(* The trainer's two loops (common/trainer.py).  The DAgger loop,          *)
(* _run_dagger_loop: wait for new episodes in the round datasets, rebuild  *)
(* the data loader, train publish_freq steps, publish the adapter, and     *)
(* again.  The converter appends episodes to the datasets meanwhile; the   *)
(* two processes share nothing but the files.  The single-shot loop of     *)
(* train(): a fixed dataset, a publish every publish_freq steps and at the *)
(* end.                                                                    *)
(*                                                                         *)
(* Episodes are numbered in conversion order; episode e is in round        *)
(* RoundOf(e).  A crash forgets everything: the loops' counters are not    *)
(* saved, and a new trainer process starts from the base adapter.          *)
(***************************************************************************)
EXTENDS Integers

CONSTANTS
  MaxEpisodes,     \* bound: episodes the converter ever appends
  NumDemos,        \* the converter's episodes per round
  HasIntervention, \* does the human intervene in each episode?
  Batches,         \* the full batches in a loader over the first n episodes
  FixedBatches,    \* the full batches in the single-shot dataset
  Configs,         \* command lines: see ConfigAssumption
  MaxTorn,         \* bound: counts that meet an info.json being rewritten
  MaxTornBuilds,   \* bound: builds that meet one
  MaxCrashes,      \* bound: crashes of the trainer
  MaxInterrupts    \* bound: SIGINT (Ctrl-C)

EpisodeIds == 1 .. MaxEpisodes

ASSUME DataAssumption ==
  /\ MaxEpisodes \in Nat /\ NumDemos \in Nat \ {0}
  /\ HasIntervention \in [EpisodeIds -> BOOLEAN]
  /\ Batches \in [0 .. MaxEpisodes -> Nat] /\ FixedBatches \in Nat
\* baseline, dir: are baseline_dataset_repo_id and dagger_datasets_dir set?
\* ratio: dagger_sampling_ratio in percent.
ASSUME ConfigAssumption ==
  Configs \subseteq [dagger : BOOLEAN, baseline : BOOLEAN, dir : BOOLEAN, ratio : Int, steps : Int,
                     publishFreq : Int, gradAccum : Int, publishAtStart : BOOLEAN]
ASSUME BoundsAssumption ==
  MaxTorn \in Nat /\ MaxTornBuilds \in Nat /\ MaxCrashes \in Nat /\ MaxInterrupts \in Nat

\* LoRATrainerConfig.__post_init__, which ends the program for any other
\* command line.
Accepted(c) ==
  /\ c.gradAccum >= 1 /\ c.publishFreq >= 1
  /\ c.dagger => c.baseline /\ c.dir /\ 0 < c.ratio /\ c.ratio < 100

VARIABLES
  cfg,             \* the configuration, the same at every start
  visible,         \* episodes in the round datasets
  pc,              \* where the trainer is, "down" when it is not running
  have,            \* have: the last count of episodes
  trainedThrough,  \* trained_through
  mix,             \* episodes in the current data loader
  left,            \* steps left in this round
  globalStep,      \* global_step, or step of the single-shot loop
  version,         \* the next version to publish
  published,       \* the adapter being served: version, step, episodes seen
  torn, tornBuilds, crashes, interrupts

loop == <<pc, have, trainedThrough, mix, left, globalStep, version, published>>
counters == <<torn, tornBuilds, crashes, interrupts>>
vars == <<cfg, visible, loop, counters>>

Nothing == [version |-> 0, step |-> 0, mix |-> 0]

Init ==
  /\ cfg \in {c \in Configs : Accepted(c)}
  /\ visible = 0
  /\ pc = "down" /\ have = 0 /\ trainedThrough = 0 /\ mix = 0 /\ left = 0
  /\ globalStep = 0 /\ version = 1 /\ published = Nothing
  /\ torn = 0 /\ tornBuilds = 0 /\ crashes = 0 /\ interrupts = 0

-----------------------------------------------------------------------------
\* The converter finalizes one more episode.
AddEpisode ==
  /\ visible < MaxEpisodes
  /\ visible' = visible + 1
  /\ UNCHANGED <<cfg, loop, counters>>

\* The adapter served from now on.
Serve(step, data) ==
  /\ published' = [version |-> version, step |-> step, mix |-> data]
  /\ version' = version + 1

\* Mutant: the version is not incremented after the identity adapter.
StartStays ==
  /\ pc = "down"
  /\ pc' = IF cfg.dagger THEN "check" ELSE "single"
  /\ have' = 0 /\ trainedThrough' = 0 /\ globalStep' = 0 /\ mix' = 0 /\ left' = 0
  /\ version' = 1
  /\ published' = IF cfg.publishAtStart THEN [Nothing EXCEPT !.version = 1] ELSE Nothing
  /\ UNCHANGED <<cfg, visible, counters>>

\* train(), up to the loop: the identity adapter may be published.
Start ==
  /\ pc = "down"
  /\ pc' = IF cfg.dagger THEN "check" ELSE "single"
  /\ have' = 0 /\ trainedThrough' = 0 /\ globalStep' = 0 /\ mix' = 0 /\ left' = 0
  /\ IF cfg.publishAtStart
       THEN version' = 2 /\ published' = [Nothing EXCEPT !.version = 1]
       ELSE version' = 1 /\ published' = Nothing
  /\ UNCHANGED <<cfg, visible, counters>>

Gone == pc' = "down" /\ published' = Nothing

Crash ==
  /\ pc # "down" /\ crashes < MaxCrashes
  /\ crashes' = crashes + 1
  /\ Gone
  /\ UNCHANGED <<cfg, visible, have, trainedThrough, mix, left, globalStep, version, torn, tornBuilds>>
  /\ UNCHANGED interrupts

\* A KeyboardInterrupt ends the DAgger loop wherever it is, and the trainer goes
\* on serving the latest adapter; anywhere else it ends the trainer.
Interrupt ==
  /\ pc # "down" /\ interrupts < MaxInterrupts
  /\ interrupts' = interrupts + 1
  /\ \/ pc \in {"check", "wait", "train"} /\ pc' = "interrupted" /\ UNCHANGED published
     \/ pc \notin {"check", "wait", "train"} /\ Gone
  /\ UNCHANGED <<cfg, visible, have, trainedThrough, mix, left, globalStep, version>>
  /\ UNCHANGED <<torn, tornBuilds, crashes>>

-----------------------------------------------------------------------------
(* The DAgger loop.                                                        *)

RoundOf(e) == (e - 1) \div NumDemos + 1

\* Mutant: a round counts as full while its info.json is rewritten.
SettledFull == IF visible = 0 THEN 0 ELSE RoundOf(visible) * NumDemos

\* The episodes of the rounds before the one that is growing.
Settled == IF visible = 0 THEN 0 ELSE (RoundOf(visible) - 1) * NumDemos

\* have = _dagger_total_episodes: the sum of total_episodes over the rounds;
\* a round whose info.json does not parse counts as nothing.
Count ==
  \/ have' = visible /\ UNCHANGED torn
  \/ torn < MaxTorn /\ torn' = torn + 1 /\ have' = Settled

\* The loop condition, and the first count of this round.
Check ==
  /\ pc = "check"
  /\ IF cfg.steps > 0 /\ globalStep >= cfg.steps
       THEN pc' = "done" /\ UNCHANGED <<have, torn>>
       ELSE pc' = "wait" /\ Count
  /\ UNCHANGED <<cfg, visible, trainedThrough, mix, left, globalStep, version, published,
                 tornBuilds, crashes, interrupts>>

\* Mutant: one new episode is not enough to start a round.
AlmostNothingNew == have <= trainedThrough + 1

NothingNew == have <= trainedThrough \/ have = 0

\* Nothing new: sleep and count again.
Wait ==
  /\ pc = "wait" /\ NothingNew
  /\ Count
  /\ UNCHANGED <<cfg, visible, pc, trainedThrough, mix, left, globalStep, version, published,
                 tornBuilds, crashes, interrupts>>

\* Mutant: the last round is as long as the others.
RoundLenUncapped == cfg.publishFreq

RoundLen ==
  IF cfg.steps <= 0 \/ cfg.publishFreq <= cfg.steps - globalStep
    THEN cfg.publishFreq ELSE cfg.steps - globalStep

Interventions(n) == {e \in 1 .. n : HasIntervention[e]}

\* build_dagger_dataloader reads the datasets as they are now.
Build ==
  /\ pc = "wait" /\ ~NothingNew
  /\ Interventions(visible) # {}
  /\ mix' = visible /\ left' = RoundLen /\ pc' = "train"
  /\ UNCHANGED <<cfg, visible, have, trainedThrough, globalStep, version, published, counters>>

\* A ValueError: SIRIUSDataset (external) has no intervention frame to sample
\* from, or an info.json does not parse (a JSONDecodeError is a ValueError).
BuildFails ==
  /\ pc = "wait" /\ ~NothingNew
  /\ \/ Interventions(visible) = {} /\ UNCHANGED tornBuilds
     \/ tornBuilds < MaxTornBuilds /\ tornBuilds' = tornBuilds + 1
  /\ trainedThrough' = have /\ pc' = "check"
  /\ UNCHANGED <<cfg, visible, have, mix, left, globalStep, version, published, torn>>
  /\ UNCHANGED <<crashes, interrupts>>

\* One optimizer step.
Train ==
  /\ pc = "train" /\ left > 0 /\ Batches[mix] > 0
  /\ left' = left - 1 /\ globalStep' = globalStep + 1
  /\ UNCHANGED <<cfg, visible, pc, have, trainedThrough, mix, version, published, counters>>

\* Not one full batch (drop_last): next() on the new iterator raises
\* StopIteration, which nothing catches.
Starve ==
  /\ \/ pc = "train" /\ left > 0 /\ Batches[mix] = 0
     \/ pc = "single" /\ globalStep < cfg.steps /\ FixedBatches = 0
  /\ Gone
  /\ UNCHANGED <<cfg, visible, have, trainedThrough, mix, left, globalStep, version, counters>>

\* Mutant: what is behind the loop is counted after the round, not before.
PublishRecounts ==
  /\ pc = "train" /\ left = 0
  /\ Serve(globalStep, mix)
  /\ trainedThrough' = visible /\ pc' = "check"
  /\ UNCHANGED <<cfg, visible, have, mix, left, globalStep, counters>>

Publish ==
  /\ pc = "train" /\ left = 0
  /\ Serve(globalStep, mix)
  /\ trainedThrough' = have /\ pc' = "check"
  /\ UNCHANGED <<cfg, visible, have, mix, left, globalStep, counters>>

-----------------------------------------------------------------------------
(* The single-shot loop.                                                   *)

\* Mutant: the period is tested before the step is counted.
SingleStepEarly ==
  /\ pc = "single" /\ globalStep < cfg.steps /\ FixedBatches > 0
  /\ globalStep' = globalStep + 1
  /\ IF globalStep % cfg.publishFreq = 0
       THEN Serve(globalStep', 0) ELSE UNCHANGED <<version, published>>
  /\ UNCHANGED <<cfg, visible, pc, have, trainedThrough, mix, left, counters>>

\* One optimizer step, and the publish that ends a period.
SingleStep ==
  /\ pc = "single" /\ globalStep < cfg.steps /\ FixedBatches > 0
  /\ globalStep' = globalStep + 1
  /\ IF globalStep' % cfg.publishFreq = 0
       THEN Serve(globalStep', 0) ELSE UNCHANGED <<version, published>>
  /\ UNCHANGED <<cfg, visible, pc, have, trainedThrough, mix, left, counters>>

\* The last publish, also when the last step has just published the same.
SingleEnd ==
  /\ pc = "single" /\ globalStep >= cfg.steps
  /\ Serve(cfg.steps, 0)
  /\ pc' = "done"
  /\ UNCHANGED <<cfg, visible, have, trainedThrough, mix, left, globalStep, counters>>

-----------------------------------------------------------------------------
DaggerLoop == Check \/ Wait \/ Build \/ BuildFails \/ Train \/ Publish
Loop == DaggerLoop \/ SingleStep \/ SingleEnd \/ Starve

\* At the end, or once interrupted, the trainer keeps serving.
Next == AddEpisode \/ Start \/ Crash \/ Interrupt \/ Loop

Spec == Init /\ [][Next]_vars

\* The training loop runs, and somebody restarts a trainer that is down.
Fairness == WF_vars(Start) /\ WF_vars(Loop)

FairSpec == Spec /\ Fairness

-----------------------------------------------------------------------------
(* Properties.                                                             *)

\* The type invariant of the loops.
TypeOK ==
  /\ cfg \in {c \in Configs : Accepted(c)}
  /\ visible \in 0 .. MaxEpisodes
  /\ pc \in {"down", "check", "wait", "train", "single", "interrupted", "done"}
  /\ have \in 0 .. MaxEpisodes /\ trainedThrough \in 0 .. MaxEpisodes
  /\ mix \in 0 .. MaxEpisodes /\ left \in 0 .. cfg.publishFreq
  /\ globalStep \in Nat /\ version \in Nat \ {0}
  /\ published \in [version : Nat, step : Int, mix : 0 .. MaxEpisodes]
  /\ torn \in 0 .. MaxTorn /\ tornBuilds \in 0 .. MaxTornBuilds /\ crashes \in 0 .. MaxCrashes
  /\ interrupts \in 0 .. MaxInterrupts

\* No intervention is skipped: every episode that the loop has put behind it
\* (trained_through) and in which the human intervened was in the data of the
\* adapter being served, though episodes arrive between the count, the build
\* and the publish.  A torn read during the build is taken for a lack of
\* interventions and does put them behind.
NoInterventionSkipped ==
  (pc # "down" /\ tornBuilds = 0) =>
    \A e \in 1 .. trainedThrough : HasIntervention[e] => e <= published.mix

\* "`steps` is the total-step cap across all rounds" (configs.py:124): rounds
\* of publish_freq steps never overshoot it, either loop that ends by itself
\* ends on it exactly with an adapter of that step being served, and an
\* interrupted one serves no step that it did not take.
StepCapExact ==
  /\ cfg.steps > 0 => globalStep <= cfg.steps
  /\ pc = "done" => /\ published.step = cfg.steps
                    /\ globalStep = IF cfg.steps > 0 THEN cfg.steps ELSE 0
  /\ pc = "interrupted" => published.step <= globalStep

\* "steps between adapter publishes" (configs.py:100): between rounds, and in the
\* single-shot loop at any time, as many adapters have been published as there
\* were periods of publish_freq steps, a last short round included, and no other
\* when an interrupt ends the loop; the single-shot loop ends with one more, for
\* the same step if its last period was whole.
PublishesEveryPeriod ==
  LET first == IF cfg.publishAtStart THEN 2 ELSE 1
      F == cfg.publishFreq
      Rounds(step) == (step + F - 1) \div F
  IN  /\ pc \in {"check", "wait"} \/ (pc = "done" /\ cfg.dagger) => version = first + Rounds(globalStep)
      /\ pc = "interrupted" => version = first + Rounds(published.step)
      /\ pc = "single" => version = first + globalStep \div F
      /\ pc = "done" /\ ~cfg.dagger => version = first + globalStep \div F + 1

\* What AdapterSync relies on: while a trainer runs, every adapter it publishes
\* has the next version and at least the step of the one before.
VersionsAdvance ==
  [][(pc # "down" /\ pc' # "down" /\ published' # published) =>
       /\ published'.version = published.version + 1
       /\ published'.step >= published.step \/ cfg.steps < 0]_vars

\* Every intervention reaches a published adapter, across restarts and through
\* a loader that is too short at first, unless the step cap or an interrupt ends
\* the loop before, the data never make up a batch, or a torn build has put it behind
\* and no episode comes after.
InterventionsAreTrained ==
  cfg.dagger =>
    \A e \in EpisodeIds :
      (HasIntervention[e] /\ visible >= e) ~>
        \/ published.mix >= e \/ pc \in {"done", "interrupted"} \/ Batches[visible] = 0
        \/ tornBuilds > 0 /\ trainedThrough = visible
=============================================================================
