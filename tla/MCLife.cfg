SPECIFICATION Spec
CONSTANTS
  Profiles <- AllProfiles
  Gaps <- PlainGaps
CHECK_DEADLOCK FALSE
INVARIANTS
  TypeOK
  AssertionsHold
  DerivedDataIsCurrent
  AllocationIsConsistent
  OptimizationIsSound
PROPERTIES
  StartsAsAsked
