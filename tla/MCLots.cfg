SPECIFICATION ModSpec
CONSTANTS
  NPeriods = 2
  Materials = {"A", "X", "W", "C", "P"}
  Capacities = {}
  SortedParts <- McSortedParts
  Operations = {"makeC", "makeP"}
  SortedOpns <- McSortedOpns
  BomEntries = {"cA", "cW", "pX", "pC"}
  SubEntries = {"subX", "subW"}
  BopEntries = {"outC", "outP"}
  Bom <- McBom
  Subs <- McSubs
  Bop <- McBop
  OpnOf <- McOpnOf
  PartOf <- McPartOf
  Impact <- McImpact
  Rate <- McRate
  ExpAllowed = {"outC", "outP"}
  NetAllowed = {"subX", "subW"}
  Producing <- McProducing
  EcEntries = {}
  Earliest <- AllPeriodsFrom
  Latest <- AllPeriodsTo
  UncondSR = {}
  Demands = {"dP", "dW"}
  DemandedPart <- McDemandedPart
  ShipLate = {"dP"}
  BuildAheadUB <- NoBuildAhead
  PrefBuildAhead = {}
  SearchInc <- McSearchInc
  ExecUB <- McExecUB
  LotSizes <- McLotSizes
  StockSLB <- McStockSLB
  PrefHighStockSLBs = FALSE
  SkipFailures = FALSE
  Supplies <- McSupplies
  DemandVols <- McDemandVols
  MaxDesIncVol = 5
  Executable <- McExecutable
  Changes <- McChanges
  MaxSettings = 1
INVARIANTS
  CheckedIsFeasible
  ScheduleIsBalance
PROPERTIES
  CallEnds
