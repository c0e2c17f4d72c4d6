SPECIFICATION FairSpec
CONSTANTS
  Foreign = {"hot", "warm"}
  Emitted = {"ping"}
  Rules <- MCRules
  BusCapacity = 2
  FeedCapacity = 3
  MaxConcurrent = 1
  MaxForeign = 2
  MaxTime = 2
INVARIANTS
  TypeOK
  CooldownKept
  Traceable
  OutcomeOnce
  FeedTellsInOrder
PROPERTY DiagnoseAnswered
