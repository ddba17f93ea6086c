SPECIFICATION Spec
CONSTANTS
  Profiles <- ExtOptProfiles
  Gaps <- PlainGaps
INVARIANTS
  NoAssertionFails
