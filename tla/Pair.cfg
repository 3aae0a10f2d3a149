CONSTANTS
  WorldSize = 2
  Foreign <- NoForeign
  Proposals <- NoProposals
  Deployments <- PairJobs
  MaxCrashes = 0
  Timely = TRUE
SPECIFICATION FairSpec
INVARIANTS Agreement OneLabelOwner
PROPERTIES AcceptedIsMutual RefusalIsHeard SameParametersSucceed
