CONSTANTS
  WorldSize = 2
  Deployments <- PolicyContexts
  MaxCrashes = 0
  Timely = TRUE
SPECIFICATION Spec
INVARIANT PartialBatchIsProcessed
