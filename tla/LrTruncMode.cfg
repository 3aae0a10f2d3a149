CONSTANTS
  WorldSize = 2
  Foreign <- NoForeign
  Proposals <- NoProposals
  Deployments <- TruncFlags
  MaxCrashes = 0
  Timely = TRUE
SPECIFICATION Spec
PROPERTIES AcceptedIsMutual
