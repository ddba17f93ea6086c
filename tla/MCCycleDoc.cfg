SPECIFICATION Spec
CONSTANTS
  Profiles <- ExpCycleProfiles
  Gaps <- PlainGaps
INVARIANTS
  PreprocessedHasTables
