CONSTANTS
  WorldSize = 3
  Process <- Trio
  Settings <- TrioSettings
  MaxFaults = 1
  Texts <- AllTexts
  AsciiStrToUpper <- Upper
  StrSplit <- Split
  Stoi <- ToInt
  Stod <- ToDouble
  Base64Decode <- Decoded
  AfterFileScheme <- LocalRoot
  JsonFile <- FileObject
  JsonInts <- IntObject
  PartyName <- Name
SPECIFICATION FairSpec
INVARIANTS TypeOK OneProcessPerRank LinkIsShared
PROPERTIES EveryProcessStarts UsableSettingsStart
