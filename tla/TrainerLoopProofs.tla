------------------------- MODULE TrainerLoopProofs -------------------------
(***************************************************************************)
(* What TrainerLoop promises, proved for any number of episodes, crashes   *)
(* and torn reads, any configuration that __post_init__ accepts and any    *)
(* data.  The runs of TrainerLoop check the same on small instances.       *)
(***************************************************************************)
EXTENDS TrainerLoop, TLAPS

-----------------------------------------------------------------------------
(* Integer division.                                                       *)

\* Division with remainder.
LEMMA Division ==
  ASSUME NEW a \in Int, NEW n \in Nat \ {0}
  PROVE  /\ a \div n \in Int /\ a % n \in 0 .. n - 1
         /\ a = n * (a \div n) + (a % n)
OBVIOUS

\* Products of naturals are ordered as their factors.
LEMMA Product ==
  ASSUME NEW n \in Nat \ {0}, NEW x \in Int, NEW y \in Int, n * x < n * y
  PROVE  x < y
<1> SUFFICES ASSUME x >= y PROVE FALSE
  OBVIOUS
<1>1. n * (x - y) >= 0
  OBVIOUS
<1>2. n * (x - y) = n * x - n * y
  OBVIOUS
<1> QED
  BY <1>1, <1>2

\* The quotient is the only number that leaves a remainder below the divisor.
LEMMA Quotient ==
  ASSUME NEW a \in Int, NEW n \in Nat \ {0}, NEW q \in Int, n * q <= a, a < n * q + n
  PROVE  a \div n = q
<1> DEFINE d == a \div n
<1>1. d \in Int /\ n * d <= a /\ a < n * d + n
  BY Division
<1> HIDE DEF d
<1>2. n * d < n * (q + 1) /\ n * q < n * (d + 1)
  BY <1>1
<1>3. d < q + 1
  BY <1>1, <1>2, Product
<1>4. q < d + 1
  BY <1>1, <1>2, Product
<1> QED
  BY <1>1, <1>3, <1>4 DEF d

\* A period ends at the next multiple.
LEMMA NextMultiple ==
  ASSUME NEW a \in Int, NEW n \in Nat \ {0}, NEW k \in Int, n * k < a, a <= n * k + n
  PROVE  a % n = 0 <=> a = n * k + n
<1> DEFINE d == a \div n
           r == a % n
<1>1. d \in Int /\ r \in 0 .. n - 1 /\ a = n * d + r
  BY Division
<1> HIDE DEF d, r
<1>2. n * (k + 1) = n * k + n /\ n * (k + 2) = n * k + n + n /\ n * (d + 1) = n * d + n
  <2>1. \A x \in Int : n * (x + 1) = n * x + n
    OBVIOUS
  <2>2. n * ((k + 1) + 1) = n * (k + 1) + n /\ (k + 1) + 1 = k + 2
    BY <2>1
  <2> QED
    BY <1>1, <2>1, <2>2
<1>3. ASSUME r = 0 PROVE a = n * k + n
  <2>1. n * k < n * d /\ n * d < n * (k + 2)
    BY <1>1, <1>2, <1>3
  <2>2. k < d /\ d < k + 2
    BY <1>1, <2>1, Product
  <2>3. d = k + 1
    BY <1>1, <2>2
  <2> QED
    BY <1>1, <1>2, <1>3, <2>3
<1>4. ASSUME a = n * k + n PROVE r = 0
  <2>1. n * d < n * (k + 2) /\ n * k < n * (d + 1)
    BY <1>1, <1>2, <1>4
  <2>2. n * (k + 1) < n * (d + 1) /\ n * d < n * (k + 2)
    BY <1>1, <1>2, <1>4
  <2>3. k + 1 < d + 1 /\ d < k + 2
    BY <1>1, <2>2, Product
  <2>4. d = k + 1
    BY <1>1, <2>3
  <2> QED
    BY <1>1, <1>2, <1>4, <2>4
<1> QED
  BY <1>3, <1>4 DEF r
-----------------------------------------------------------------------------
(* The inductive invariant.                                                *)

\* The version of the first adapter of the loop, and how many were published.
First == IF cfg.publishAtStart THEN 2 ELSE 1
Periods == version - First

\* The count of episodes lags behind the datasets, and the loader behind no
\* count that it was built after.
DataInv ==
  /\ have <= visible
  /\ pc = "train" => have <= mix
  /\ pc = "single" => trainedThrough = 0
  /\ NoInterventionSkipped

\* What global_step says of the cap and of the adapter being served.
StepInv ==
  /\ StepCapExact
  /\ pc \in {"check", "wait"} => published.step = globalStep
  /\ pc \in {"train", "single", "interrupted"} => published.step <= globalStep
  /\ pc = "single" /\ cfg.steps <= 0 => globalStep = 0

VersionInv == pc # "down" => version = published.version + 1

\* Which loop it is, and where global_step is between the last publish and the
\* next.
PeriodInv ==
  LET F == cfg.publishFreq
      Whole(step) == F * Periods >= step /\ F * Periods < step + F
  IN  /\ pc \in {"check", "wait", "train", "interrupted"} => cfg.dagger
      /\ pc = "single" => ~cfg.dagger
      /\ pc \in {"check", "wait"} \/ (pc = "done" /\ cfg.dagger) => Whole(globalStep)
      /\ pc \in {"check", "wait"} =>
           globalStep = F * Periods \/ (cfg.steps > 0 /\ globalStep = cfg.steps)
      /\ pc = "wait" => globalStep = F * Periods /\ (cfg.steps > 0 => globalStep < cfg.steps)
      /\ pc = "train" =>
           /\ published.step = F * Periods
           /\ F * Periods <= globalStep /\ (cfg.steps > 0 => F * Periods < cfg.steps)
           /\ globalStep + left = IF cfg.steps <= 0 \/ F <= cfg.steps - F * Periods
                                    THEN F * Periods + F ELSE cfg.steps
      /\ pc = "interrupted" => Whole(published.step)
      /\ pc = "single" => F * Periods <= globalStep /\ globalStep < F * Periods + F
      /\ pc = "done" /\ ~cfg.dagger =>
           F * (Periods - 1) <= globalStep /\ globalStep < F * (Periods - 1) + F

IInv == TypeOK /\ DataInv /\ StepInv /\ VersionInv /\ PeriodInv

\* What __post_init__ of the configuration has checked, and the numbers.
LEMMA Numbers ==
  ASSUME TypeOK
  PROVE  /\ cfg.steps \in Int /\ cfg.publishFreq \in Nat \ {0}
         /\ globalStep \in Nat /\ version \in Nat \ {0} /\ left \in Nat
         /\ published.step \in Int /\ published.version \in Nat
         /\ First \in {1, 2} /\ Periods \in Int
<1>1. /\ cfg.steps \in Int /\ cfg.publishFreq \in Nat \ {0}
  BY ConfigAssumption DEF TypeOK, Accepted
<1>2. /\ globalStep \in Nat /\ version \in Nat \ {0} /\ left \in Nat
      /\ published.step \in Int /\ published.version \in Nat
  BY <1>1 DEF TypeOK
<1>3. First \in {1, 2}
  BY DEF First
<1> QED
  BY <1>1, <1>2, <1>3 DEF Periods

\* The rounds before the one that is growing hold a part of the episodes.
LEMMA SettledFew == visible \in 0 .. MaxEpisodes => Settled \in 0 .. visible
<1> SUFFICES ASSUME visible \in 0 .. MaxEpisodes, visible # 0 PROVE Settled \in 0 .. visible
  BY DEF Settled
<1> DEFINE q == (visible - 1) \div NumDemos
<1>1. visible \in Nat /\ visible >= 1 /\ NumDemos \in Nat \ {0}
  BY DataAssumption
<1>2. q \in Int /\ NumDemos * q <= visible - 1 /\ visible - 1 < NumDemos * q + NumDemos
  <2>1. visible - 1 \in Int /\ NumDemos \in Nat \ {0}
    BY <1>1
  <2>2. \A a \in Int : /\ a \div NumDemos \in Int
                       /\ NumDemos * (a \div NumDemos) <= a
                       /\ a < NumDemos * (a \div NumDemos) + NumDemos
    BY <2>1
  <2> QED
    BY <2>1, <2>2
<1>3. Settled = NumDemos * q
  <2>1. Settled = ((q + 1) - 1) * NumDemos
    BY <1>1 DEF Settled, RoundOf
  <2> HIDE DEF q
  <2> QED
    BY <1>1, <1>2, <2>1
<1> HIDE DEF q
<1>4. NumDemos * (0 - 1) < NumDemos * q
  BY <1>1, <1>2
<1>5. 0 - 1 < q
  BY <1>1, <1>2, <1>4, Product
<1>6. NumDemos * q >= 0 /\ NumDemos * q \in Int
  BY <1>1, <1>2, <1>5
<1> QED
  BY <1>1, <1>2, <1>3, <1>6

\* A count never exceeds the episodes that are there.
LEMMA CountFew ==
  ASSUME TypeOK, Count
  PROVE  /\ have' \in 0 .. MaxEpisodes /\ have' <= visible
         /\ torn' \in 0 .. MaxTorn
<1>1. visible \in 0 .. MaxEpisodes /\ MaxEpisodes \in Nat /\ torn \in 0 .. MaxTorn /\ MaxTorn \in Nat
  BY DataAssumption, BoundsAssumption DEF TypeOK
<1>2. Settled \in 0 .. visible
  BY <1>1, SettledFew
<1> QED
  BY <1>1, <1>2 DEF Count

\* The first state is well typed.
LEMMA TypeInit == Init => TypeOK
BY DataAssumption, ConfigAssumption, BoundsAssumption DEF Init, TypeOK, Nothing, Accepted

\* A step keeps the types; that a round has a length of 0 .. publish_freq takes
\* the cap.
LEMMA TypeStep ==
  ASSUME TypeOK, PeriodInv, Next
  PROVE  TypeOK'
<1> USE DataAssumption, BoundsAssumption
<1>1. cfg' = cfg
  BY DEF Next, AddEpisode, Start, Crash, Interrupt, Loop, DaggerLoop, Check, Wait, Build, BuildFails, Train,
     Publish, SingleStep, SingleEnd, Starve
<1>2. /\ cfg.steps \in Int /\ cfg.publishFreq \in Nat \ {0}
      /\ globalStep \in Nat /\ version \in Nat \ {0}
  BY Numbers
<1>3. CASE AddEpisode
  BY <1>3 DEF AddEpisode, TypeOK, loop, counters
<1>4. CASE Start \/ Crash \/ Interrupt \/ Starve
  <2>1. Nothing \in [version : Nat, step : Int, mix : 0 .. MaxEpisodes]
        /\ [Nothing EXCEPT !.version = 1] \in [version : Nat, step : Int, mix : 0 .. MaxEpisodes]
    BY DEF Nothing
  <2>2. CASE Start
    <3>1. /\ UNCHANGED <<cfg, visible, counters>> /\ pc' \in {"check", "single"}
          /\ have' = 0 /\ trainedThrough' = 0 /\ globalStep' = 0 /\ mix' = 0 /\ left' = 0
          /\ version' \in {1, 2} /\ published' \in {Nothing, [Nothing EXCEPT !.version = 1]}
      BY <2>2 DEF Start
    <3>2. /\ left' \in 0 .. cfg.publishFreq /\ mix' \in 0 .. MaxEpisodes
          /\ have' \in 0 .. MaxEpisodes /\ trainedThrough' \in 0 .. MaxEpisodes
          /\ globalStep' \in Nat /\ version' \in Nat \ {0}
      BY <1>2, <3>1
    <3>3. published' \in [version : Nat, step : Int, mix : 0 .. MaxEpisodes]
      BY <2>1, <3>1
    <3> QED
      BY <3>1, <3>2, <3>3 DEF TypeOK, counters
  <2>3. CASE Crash
    <3>1. /\ UNCHANGED <<cfg, visible, have, trainedThrough, mix, left, globalStep, version>>
          /\ UNCHANGED <<torn, tornBuilds, interrupts>> /\ pc' = "down" /\ published' = Nothing
      BY <2>3 DEF Crash, Gone
    <3>2. crashes' \in 0 .. MaxCrashes
      BY <2>3 DEF Crash, TypeOK
    <3> QED
      BY <2>1, <3>1, <3>2 DEF TypeOK
  <2>4. CASE Starve
    BY <2>1, <2>4 DEF Starve, Gone, TypeOK, counters
  <2>5. CASE Interrupt
    <3>1. /\ UNCHANGED <<cfg, visible, have, trainedThrough, mix, left, globalStep, version>>
          /\ UNCHANGED <<torn, tornBuilds, crashes>>
          /\ pc' \in {"down", "interrupted"} /\ published' \in {published, Nothing}
      BY <2>5 DEF Interrupt, Gone
    <3>2. interrupts' \in 0 .. MaxInterrupts
      BY <2>5 DEF Interrupt, TypeOK
    <3> QED
      BY <2>1, <3>1, <3>2 DEF TypeOK
  <2> QED
    BY <1>4, <2>2, <2>3, <2>4, <2>5
<1>5. CASE Check \/ Wait
  <2>1. /\ have' \in 0 .. MaxEpisodes /\ torn' \in 0 .. MaxTorn
    <3>1. have \in 0 .. MaxEpisodes /\ torn \in 0 .. MaxTorn
      BY DEF TypeOK
    <3> QED
      BY <1>5, <3>1, CountFew DEF Check, Wait
  <2>2. /\ UNCHANGED <<cfg, visible, trainedThrough, mix, left, globalStep, version, published,
                       tornBuilds, crashes, interrupts>>
        /\ pc' \in {"done", "wait"}
    BY <1>5 DEF Check, Wait
  <2> QED
    BY <2>1, <2>2 DEF TypeOK
<1>6. CASE Build
  <2>1. RoundLen \in 0 .. cfg.publishFreq
    <3>1. cfg.steps > 0 => globalStep < cfg.steps
      BY <1>6 DEF Build, PeriodInv
    <3> QED
      BY <1>2, <3>1 DEF RoundLen
  <2>2. /\ UNCHANGED <<cfg, visible, have, trainedThrough, globalStep, version, published, counters>>
        /\ mix' = visible /\ left' = RoundLen /\ pc' = "train"
    BY <1>6 DEF Build
  <2> QED
    BY <2>1, <2>2 DEF TypeOK, counters
<1>7. CASE BuildFails
  BY <1>7 DEF BuildFails, TypeOK
<1>8. CASE Train
  BY <1>2, <1>8 DEF Train, TypeOK, counters
<1>9. CASE Publish \/ SingleStep \/ SingleEnd
  <2>1. /\ UNCHANGED <<cfg, visible, have, mix, left, counters>> /\ globalStep' \in Nat
        /\ trainedThrough' \in 0 .. MaxEpisodes /\ pc' \in {"check", "single", "done"}
    <3>1. /\ UNCHANGED <<cfg, visible, have, mix, left, counters>>
          /\ globalStep' \in {globalStep, globalStep + 1}
          /\ trainedThrough' \in {trainedThrough, have} /\ pc' \in {"check", "single", "done"}
      BY <1>9, Zenon DEF Publish, SingleStep, SingleEnd
    <3>2. have \in 0 .. MaxEpisodes /\ trainedThrough \in 0 .. MaxEpisodes
      BY DEF TypeOK
    <3> QED
      BY <1>2, <3>1, <3>2
  <2>2. \/ UNCHANGED <<version, published>>
        \/ \E step \in Int, data \in 0 .. MaxEpisodes : Serve(step, data)
    BY <1>2, <1>9, <2>1 DEF Publish, SingleStep, SingleEnd, TypeOK
  <2>3. version' \in Nat \ {0} /\ published' \in [version : Nat, step : Int, mix : 0 .. MaxEpisodes]
    <3>1. CASE UNCHANGED <<version, published>>
      BY <3>1 DEF TypeOK
    <3>2. CASE \E step \in Int, data \in 0 .. MaxEpisodes : Serve(step, data)
      BY <1>2, <3>2 DEF Serve
    <3> QED
      BY <2>2, <3>1, <3>2
  <2> QED
    BY <2>1, <2>3 DEF TypeOK, counters
<1> QED
  BY <1>3, <1>4, <1>5, <1>6, <1>7, <1>8, <1>9 DEF Next, Loop, DaggerLoop

\* Every step keeps the loops from putting an intervention behind them.
LEMMA DataStep ==
  ASSUME TypeOK, TypeOK', DataInv, Next
  PROVE  DataInv'
<1>1. /\ have \in Nat /\ visible \in Nat /\ mix \in Nat /\ trainedThrough \in Nat
      /\ tornBuilds \in Nat /\ published.mix \in Nat
  BY DEF TypeOK
<1>2. CASE AddEpisode
  BY <1>1, <1>2 DEF AddEpisode, loop, counters, DataInv, NoInterventionSkipped
<1>3. CASE Start
  BY <1>1, <1>3 DEF Start, DataInv, NoInterventionSkipped
<1>4. CASE Crash \/ Interrupt \/ Starve
  BY <1>1, <1>4 DEF Crash, Interrupt, Starve, Gone, DataInv, NoInterventionSkipped
<1>5. CASE Check \/ Wait
  <2>1. have' <= visible
    BY <1>5, CountFew DEF Check, Wait, DataInv
  <2>2. /\ UNCHANGED <<visible, trainedThrough, mix, published, tornBuilds>>
        /\ pc' \in {"done", "wait"} /\ pc # "down"
    BY <1>5 DEF Check, Wait
  <2> QED
    BY <2>1, <2>2 DEF DataInv, NoInterventionSkipped
<1>6. CASE Build
  BY <1>1, <1>6 DEF Build, counters, DataInv, NoInterventionSkipped
<1>7. CASE BuildFails
  <2>1. /\ UNCHANGED <<visible, have, mix, published>> /\ trainedThrough' = have /\ pc' = "check"
        /\ \/ Interventions(visible) = {} /\ UNCHANGED tornBuilds
           \/ tornBuilds' = tornBuilds + 1
    BY <1>7 DEF BuildFails
  <2>2. Interventions(visible) = {} => \A e \in 1 .. have : ~HasIntervention[e]
    BY <1>1 DEF DataInv, Interventions
  <2> QED
    BY <1>1, <2>1, <2>2 DEF DataInv, NoInterventionSkipped
<1>8. CASE Train
  BY <1>1, <1>8 DEF Train, counters, DataInv, NoInterventionSkipped
<1>9. CASE Publish
  <2>1. published'.mix = mix /\ trainedThrough' = have /\ pc' = "check" /\ UNCHANGED <<visible, have>>
    BY <1>9 DEF Publish, Serve
  <2>2. \A e \in 1 .. trainedThrough' : e <= published'.mix
    BY <1>1, <1>9, <2>1 DEF Publish, DataInv
  <2> QED
    BY <2>1, <2>2 DEF DataInv, NoInterventionSkipped
<1>10. CASE SingleStep \/ SingleEnd
  BY <1>1, <1>10 DEF SingleStep, SingleEnd, Serve, counters, DataInv, NoInterventionSkipped
<1> QED
  BY <1>2, <1>3, <1>4, <1>5, <1>6, <1>7, <1>8, <1>9, <1>10 DEF Next, Loop, DaggerLoop

\* Every step keeps global_step below the cap, and ends on it.
LEMMA StepStep ==
  ASSUME TypeOK, StepInv, PeriodInv, Next
  PROVE  StepInv'
<1>1. /\ cfg.steps \in Int /\ cfg.publishFreq \in Nat \ {0}
      /\ globalStep \in Nat /\ left \in Nat /\ published.step \in Int /\ Periods \in Int
  BY Numbers
<1>2. CASE AddEpisode
  BY <1>2 DEF AddEpisode, loop, StepInv, StepCapExact
<1>3. CASE Start
  BY <1>1, <1>3 DEF Start, StepInv, StepCapExact, Nothing
<1>4. CASE Crash \/ Interrupt \/ Starve
  BY <1>1, <1>4 DEF Crash, Interrupt, Starve, Gone, StepInv, StepCapExact
<1>5. CASE Check \/ Wait \/ Build \/ BuildFails
  BY <1>1, <1>5 DEF Check, Wait, Build, BuildFails, StepInv, StepCapExact, counters
<1>6. CASE Train
  <2>1. cfg.steps > 0 => globalStep + 1 <= cfg.steps
    BY <1>1, <1>6 DEF Train, PeriodInv
  <2> QED
    BY <1>1, <1>6, <2>1 DEF Train, StepInv, StepCapExact
<1>7. CASE Publish
  BY <1>1, <1>7 DEF Publish, Serve, StepInv, StepCapExact
<1>8. CASE SingleStep \/ SingleEnd
  BY <1>1, <1>8 DEF SingleStep, SingleEnd, Serve, StepInv, StepCapExact
<1> QED
  BY <1>2, <1>3, <1>4, <1>5, <1>6, <1>7, <1>8 DEF Next, Loop, DaggerLoop

\* Every publish takes the next version.
LEMMA VersionStep ==
  ASSUME TypeOK, VersionInv, Next
  PROVE  VersionInv'
BY DEF TypeOK, VersionInv, Next, AddEpisode, Start, Crash, Interrupt, Loop, DaggerLoop, Check, Wait, Build,
   BuildFails, Train, Publish, SingleStep, SingleEnd, Starve, Serve, Gone, Nothing, loop

\* Every step keeps the count of publishes in time with global_step.
LEMMA PeriodStep ==
  ASSUME TypeOK, TypeOK', StepInv, PeriodInv, Next
  PROVE  PeriodInv'
<1> DEFINE F == cfg.publishFreq
<1>1. /\ cfg.steps \in Int /\ F \in Nat \ {0}
      /\ globalStep \in Nat /\ left \in Nat /\ Periods \in Int /\ First \in {1, 2}
  BY Numbers
<1>2. UNCHANGED <<cfg, First>>
  BY DEF First, Next, AddEpisode, Start, Crash, Interrupt, Loop, DaggerLoop, Check, Wait, Build, BuildFails,
     Train, Publish, SingleStep, SingleEnd, Starve
<1>3. version \in Nat /\ (version' = version => Periods' = Periods)
      /\ (version' = version + 1 => Periods' = Periods + 1)
  BY <1>1, <1>2, Numbers DEF Periods
<1>4. F * (Periods + 1) = F * Periods + F /\ F * Periods \in Int
  BY <1>1
<1>5. CASE AddEpisode
  BY <1>2, <1>3, <1>5 DEF AddEpisode, loop, PeriodInv
<1>6. CASE Start
  <2>1. Periods' = 0 /\ globalStep' = 0
    BY <1>2, <1>6 DEF Start, Periods, First
  <2>2. \/ pc' = "check" /\ cfg.dagger
        \/ pc' = "single" /\ ~cfg.dagger
    BY <1>6 DEF Start
  <2>3. F * 0 = 0
    BY <1>1
  <2> QED
    BY <1>1, <1>2, <2>1, <2>2, <2>3 DEF PeriodInv
<1>7. CASE Crash \/ Starve \/ Interrupt
  <2>1. CASE pc' = "down"
    BY <2>1 DEF PeriodInv
  <2>2. CASE Interrupt /\ pc' # "down"
    <3>1. /\ pc \in {"check", "wait", "train"} /\ pc' = "interrupted"
          /\ UNCHANGED <<cfg, version, globalStep, published>>
      BY <2>2 DEF Interrupt, Gone
    <3>2. F * Periods >= published.step /\ F * Periods < published.step + F
      BY <1>1, <1>4, <3>1 DEF StepInv, PeriodInv
    <3> QED
      BY <1>2, <1>3, <3>1, <3>2 DEF PeriodInv
  <2> QED
    BY <1>7, <2>1, <2>2 DEF Crash, Starve, Gone
<1>8. CASE Check \/ Wait \/ BuildFails
  BY <1>1, <1>2, <1>3, <1>8 DEF Check, Wait, BuildFails, PeriodInv
<1>9. CASE Build
  BY <1>1, <1>2, <1>3, <1>9 DEF Build, RoundLen, StepInv, PeriodInv
<1>10. CASE Train
  BY <1>1, <1>2, <1>3, <1>10 DEF Train, PeriodInv
<1>11. CASE Publish
  <2>1. Periods' = Periods + 1 /\ globalStep' = globalStep /\ pc' = "check" /\ left = 0
    BY <1>3, <1>11 DEF Publish, Serve
  <2> QED
    BY <1>1, <1>2, <1>4, <1>11, <2>1 DEF Publish, PeriodInv
<1>12. CASE SingleStep
  <2>1. /\ globalStep' = globalStep + 1 /\ pc = "single" /\ pc' = pc
        /\ F * Periods <= globalStep /\ globalStep < F * Periods + F /\ ~cfg.dagger
    BY <1>12 DEF SingleStep, PeriodInv
  <2>2. globalStep' % F = 0 <=> globalStep' = F * Periods + F
    <3>1. globalStep' \in Int /\ F * Periods < globalStep' /\ globalStep' <= F * Periods + F
      BY <1>1, <1>4, <2>1
    <3> QED
      BY <1>1, <3>1, NextMultiple
  <2>3. CASE globalStep' % F = 0
    <3>1. Periods' = Periods + 1
      BY <1>3, <1>12, <2>3 DEF SingleStep, Serve
    <3> QED
      BY <1>1, <1>2, <1>4, <2>1, <2>2, <2>3, <3>1 DEF PeriodInv
  <2>4. CASE globalStep' % F # 0
    <3>1. Periods' = Periods
      BY <1>3, <1>12, <2>4 DEF SingleStep
    <3> QED
      <4>1. globalStep' < F * Periods + F /\ F * Periods <= globalStep'
        <5>1. globalStep' # F * Periods + F
          BY <2>2, <2>4
        <5> HIDE DEF F
        <5> QED
          BY <1>1, <1>4, <2>1, <5>1
      <4>2. F' = F /\ pc' = "single" /\ ~cfg'.dagger
        BY <1>2, <2>1
      <4> QED
        BY <3>1, <4>1, <4>2 DEF PeriodInv
  <2> QED
    BY <2>3, <2>4
<1>13. CASE SingleEnd
  <2>1. Periods' = Periods + 1 /\ globalStep' = globalStep /\ pc = "single" /\ pc' = "done"
    BY <1>3, <1>13 DEF SingleEnd, Serve
  <2>2. Periods' - 1 = Periods
    BY <1>1, <2>1
  <2> QED
    BY <1>2, <2>1, <2>2 DEF PeriodInv
<1> QED
  BY <1>5, <1>6, <1>7, <1>8, <1>9, <1>10, <1>11, <1>12, <1>13 DEF Next, Loop, DaggerLoop

-----------------------------------------------------------------------------
(* The invariant, and what follows from it.                                *)

\* The invariant holds at the first start.
LEMMA InitInv == Init => IInv
<1> SUFFICES ASSUME Init PROVE IInv
  OBVIOUS
<1>1. pc = "down" /\ have = 0 /\ visible = 0 /\ globalStep = 0
  BY DEF Init
<1>2. TypeOK
  BY TypeInit
<1>3. cfg.steps \in Int
  BY <1>2, Numbers
<1> QED
  BY <1>1, <1>2, <1>3 DEF IInv, DataInv, NoInterventionSkipped, StepInv, StepCapExact, VersionInv,
     PeriodInv

\* Every step keeps the invariant.
LEMMA InductiveInv == IInv /\ [Next]_vars => IInv'
<1>1. ASSUME IInv, Next PROVE IInv'
  <2>1. TypeOK'
    BY <1>1, TypeStep DEF IInv
  <2>2. DataInv'
    BY <1>1, <2>1, DataStep DEF IInv
  <2>3. StepInv'
    BY <1>1, StepStep DEF IInv
  <2>4. VersionInv'
    BY <1>1, VersionStep DEF IInv
  <2>5. PeriodInv'
    BY <1>1, <2>1, PeriodStep DEF IInv
  <2> QED
    BY <2>1, <2>2, <2>3, <2>4, <2>5 DEF IInv
<1>2. ASSUME IInv, UNCHANGED vars PROVE IInv'
  BY <1>2 DEF vars, loop, counters, IInv, TypeOK, DataInv, NoInterventionSkipped, StepInv,
     StepCapExact, VersionInv, PeriodInv, Periods, First
<1> QED
  BY <1>1, <1>2

\* The invariant holds always.
LEMMA Invariance == Spec => []IInv
BY InitInv, InductiveInv, PTL DEF Spec

\* The state of the loops is always well typed.
THEOREM TypeCorrect == Spec => []TypeOK
<1>1. IInv => TypeOK
  BY DEF IInv
<1> QED
  BY <1>1, Invariance, PTL

\* "`steps` is the total-step cap across all rounds" (configs.py:124): neither
\* loop overshoots it, a loop that ends by itself ends on it with an adapter of
\* that step served, and an interrupted one goes on serving a step it took.
THEOREM CapCorrect == Spec => []StepCapExact
<1>1. IInv => StepCapExact
  BY DEF IInv, StepInv
<1> QED
  BY <1>1, Invariance, PTL

\* No episode with an intervention is put behind the loop (trained_through)
\* before an adapter trained on it is served, whatever arrives meanwhile.
THEOREM InterventionsCorrect == Spec => []NoInterventionSkipped
<1>1. IInv => NoInterventionSkipped
  BY DEF IInv, DataInv
<1> QED
  BY <1>1, Invariance, PTL

\* "Steps between adapter publishes" (configs.py:100): as many adapters have
\* been published as there were periods of publish_freq steps, to the end of
\* either loop and after an interrupt.
THEOREM PeriodsCorrect == Spec => []PublishesEveryPeriod
<1>1. IInv => PublishesEveryPeriod
  <2> SUFFICES ASSUME IInv PROVE PublishesEveryPeriod
    OBVIOUS
  <2> DEFINE F == cfg.publishFreq
  <2>1. /\ F \in Nat \ {0} /\ globalStep \in Nat /\ Periods \in Int
        /\ F * Periods \in Int /\ First \in {1, 2} /\ version \in Nat
    BY Numbers DEF IInv
  <2>2. ASSUME NEW step \in Int, F * Periods >= step, F * Periods < step + F
        PROVE  version = First + (step + F - 1) \div F
    <3>1. /\ step + F - 1 \in Int
          /\ F * Periods <= step + F - 1 /\ step + F - 1 < F * Periods + F
      BY <2>1, <2>2
    <3>2. (step + F - 1) \div F = Periods
      BY <2>1, <3>1, Quotient
    <3> QED
      BY <2>1, <3>2 DEF Periods
  <2>3. ASSUME pc = "single" PROVE version = First + globalStep \div F
    <3>1. F * Periods <= globalStep /\ globalStep < F * Periods + F
      BY <2>3 DEF IInv, PeriodInv
    <3>2. globalStep \div F = Periods
      BY <2>1, <3>1, Quotient
    <3> QED
      BY <2>1, <3>2 DEF Periods
  <2>4. ASSUME pc = "done", ~cfg.dagger PROVE version = First + globalStep \div F + 1
    <3>1. F * (Periods - 1) <= globalStep /\ globalStep < F * (Periods - 1) + F
      BY <2>4 DEF IInv, PeriodInv
    <3>2. Periods - 1 \in Int
      BY <2>1
    <3>3. globalStep \div F = Periods - 1
      BY <2>1, <3>1, <3>2, Quotient
    <3> QED
      BY <2>1, <3>3 DEF Periods
  <2>5. pc \in {"check", "wait"} \/ (pc = "done" /\ cfg.dagger) =>
          version = First + (globalStep + F - 1) \div F
    BY <2>1, <2>2 DEF IInv, PeriodInv
  <2>6. pc = "interrupted" => version = First + (published.step + F - 1) \div F
    <3>1. published.step \in Int
      BY Numbers DEF IInv
    <3> QED
      BY <2>2, <3>1 DEF IInv, PeriodInv
  <2> QED
    BY <2>3, <2>4, <2>5, <2>6 DEF PublishesEveryPeriod, First
<1> QED
  BY <1>1, Invariance, PTL

\* While a trainer runs, every adapter it publishes has the next version and at
\* least the step of the one before.
THEOREM VersionsCorrect == Spec => VersionsAdvance
<1>1. IInv /\ [Next]_vars =>
        [(pc # "down" /\ pc' # "down" /\ published' # published) =>
           /\ published'.version = published.version + 1
           /\ published'.step >= published.step \/ cfg.steps < 0]_vars
  <2> SUFFICES ASSUME IInv, Next, pc # "down", pc' # "down", published' # published
               PROVE  /\ published'.version = published.version + 1
                      /\ published'.step >= published.step \/ cfg.steps < 0
    OBVIOUS
  <2>1. /\ cfg.steps \in Int /\ globalStep \in Nat /\ published.step \in Int
        /\ version = published.version + 1 /\ StepInv
    BY Numbers DEF IInv, VersionInv
  <2>2. Publish \/ SingleStep \/ SingleEnd
    BY DEF Next, AddEpisode, Start, Crash, Interrupt, Loop, DaggerLoop, Check, Wait, Build, BuildFails, Train,
       Starve, Gone, loop
  <2>3. CASE Publish
    BY <2>1, <2>3 DEF Publish, Serve, StepInv
  <2>4. CASE SingleStep
    <3>1. /\ published' = [version |-> version, step |-> globalStep', mix |-> 0]
          /\ globalStep' = globalStep + 1 /\ pc = "single"
      BY <2>4 DEF SingleStep, Serve
    <3> QED
      BY <2>1, <3>1 DEF StepInv
  <2>5. CASE SingleEnd
    BY <2>1, <2>5 DEF SingleEnd, Serve, StepInv, StepCapExact
  <2> QED
    BY <2>2, <2>3, <2>4, <2>5
<1> QED
  BY <1>1, Invariance, PTL DEF Spec, VersionsAdvance
=============================================================================
