SPECIFICATION Spec
CONSTANTS
  Profiles <- EvalProfiles
  Gaps <- PlainGaps
INVARIANTS
  SoftBoundsCanBeViolated
