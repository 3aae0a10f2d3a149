CONSTANTS
  WorldSize = 2
  Foreign = {}
  Proposals <- NoProposals
  Deployments <- PairDeployments
  Choices <- PairChoices
  MaxCrashes = 0
  Timely = TRUE
  Texts <- AllTexts
  AsciiStrToUpper <- Upper
  StrSplit <- Split
  Stoi <- ToInt
  Stod <- ToDouble
  Base64Decode <- Decoded
  AfterFileScheme <- LocalRoot
  JsonFile <- FileObject
  JsonInts <- IntObject
  PartyName <- Name
SPECIFICATION JobSpec
INVARIANT EnvironmentDecidesRows
