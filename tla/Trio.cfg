CONSTANTS
  WorldSize = 3
  Foreign <- NoForeign
  Proposals <- NoProposals
  Deployments <- TrioJobs
  MaxCrashes = 1
  Timely = FALSE
SPECIFICATION Spec
INVARIANTS TypeOK Agreement NoEarlyRun OneLabelOwner FeatureNumsAreTrue RowsMatch
PROPERTIES ImplementsJobAgreement AcceptedIsMutual
