CONSTANTS
  Sites <- TwoSites
  NCands <- TwoCands
  Periods <- TwoPeriods
  Eligible <- SomeEligible
  Height <- Heights
  Recovery = TRUE
  NoSite = NoSite
  MaxSteps = 2
  MaxCalls = 2
SPECIFICATION FairSpec
CHECK_DEADLOCK FALSE
INVARIANTS
  TypeOK
  AssertionsHold
  SourcesAreSingle
  MultiSourceIsLastResort
  UndoIsRight
  AllocationIsKept
  ConfigurationIsRight
PROPERTIES
  RecoveryIsComplete
  CallEnds
