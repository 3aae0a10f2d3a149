CONSTANTS
  WorldSize = 4
  Requests <- SomeRequests
  Contexts <- SomeContexts
  Enumeration = "SS"
  ParamType = "ss"
SPECIFICATION Spec
INVARIANTS VersionIsAligned ExtractedFromAll CommonIsFound IoIsNegotiated
