CONSTANTS
  WorldSize = 3
  Deployments <- TrioJobs
  MaxCrashes = 1
  Timely = FALSE
SPECIFICATION FairSpec
INVARIANTS TypeOK Lockstep ColumnsAddUp
PROPERTIES ContinuesTheJob EveryPartyEnds
