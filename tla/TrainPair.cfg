CONSTANTS
  WorldSize = 2
  Deployments <- PairContexts
  MaxCrashes = 0
  Timely = TRUE
SPECIFICATION FairSpec
INVARIANTS SlicesInBounds TrainedRows
PROPERTIES AgreedJobCompletes
