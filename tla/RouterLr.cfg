CONSTANTS
  NumRounds = 4
  MaxFaults = 2
SPECIFICATION FairSpec
INVARIANTS TypeOK LabelsAreTrue AggregateOfTheRound
PROPERTIES EveryRoundCompletes
CHECK_DEADLOCK FALSE
