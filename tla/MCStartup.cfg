SPECIFICATION FairSpec
CONSTANTS
  short = short
  long = long
  Lifetimes <- TwoLifetimes
  Unset = Unset
  Unparsable = Unparsable
  FifteenMinutes = FifteenMinutes
  SevenDays = SevenDays
  Migrations = 4
  Timeout = 3
  MaxStarts = 3
  MaxOutages = 2
INVARIANTS
  ServesOnlyMigrated
  LifetimesAreMeant
PROPERTIES
  EveryStartEnds
CHECK_DEADLOCK FALSE
