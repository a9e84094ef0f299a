SPECIFICATION FairSpec
CONSTANTS
  MaxEpisodes = 5
  NumDemos = 2
  HasIntervention <- LateInterventions
  Batches <- LateBatches
  FixedBatches = 1
  Configs <- AllLoops
  MaxTorn = 1
  MaxTornBuilds = 1
  MaxCrashes = 1
  MaxInterrupts = 2
CHECK_DEADLOCK FALSE
INVARIANTS TypeOK StepCapExact NoInterventionSkipped PublishesEveryPeriod
PROPERTIES VersionsAdvance InterventionsAreTrained
