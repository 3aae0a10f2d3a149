CONSTANTS
  WorldSize = 3
  Foreign <- ForeignRank
  Proposals <- ProposalsOf
  Deployments <- NativeFlags
  MaxCrashes = 1
  Timely = TRUE
SPECIFICATION FairSpec
INVARIANTS ResponseWithinProposals
PROPERTIES AcceptedIsMutual EveryPartyEnds
