SPECIFICATION Spec
CONSTANTS
  NPeriods = 3
  Demands = {"a", "b", "c"}
  MappingIndex <- McMappingIndex
  ShipLate = {"a", "b"}
  ShipLateUB <- McShipLateUB
  SearchInc <- McSearchInc
  Equitabilities = {1, 3}
  DemandVols <- McDemandVols
  Priorities <- McPriorities
  Supplies <- McSupplies
  UserStarts <- McUserStarts
  Lists <- McLists
  MaxCalls = 3
CHECK_DEADLOCK FALSE
INVARIANTS
  TypeOK
  NothingDesiredBefore
  VolumesAddUp
  ShortageIsShared
PROPERTIES
  NothingIsDenied
  PriorityIsRespected
  CallEnds
