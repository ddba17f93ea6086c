SPECIFICATION Spec
CONSTANTS
  NPeriods = 4
  Materials = {"A", "O", "C", "P"}
  Capacities = {"K"}
  SortedParts <- McSortedParts
  Operations = {"makeC", "makeP"}
  SortedOpns <- McSortedOpns
  BomEntries = {"cA", "cK", "pO", "pC"}
  SubEntries = {}
  BopEntries = {"outC", "outP"}
  Bom <- McBom
  Subs <- McSubs
  Bop <- McBop
  OpnOf <- McOpnOf
  PartOf <- McPartOf
  Impact <- McImpact
  Rate <- McRate
  ExpAllowed = {"outC", "outP"}
  NetAllowed = {}
  Producing <- McProducing
  EcEntries = {"pO"}
  Earliest <- McEarliest
  Latest <- McLatest
  UncondSR = {"C", "P"}
  Demands = {"dP", "dC"}
  DemandedPart <- McDemandedPart
  ShipLate = {"dP"}
  BuildAheadUB <- NoBuildAhead
  PrefBuildAhead = {}
  SearchInc <- McSearchInc
  ExecUB <- NoExecUB
  LotSizes <- NoLotSizes
  StockSLB <- NoStockSLB
  PrefHighStockSLBs = FALSE
  SkipFailures = FALSE
  Supplies <- McSupplies
  DemandVols <- McDemandVols
  MaxDesIncVol = 2
INVARIANTS
  LastDecIsBound
  NothingAllocedAcrossEC
  PromisesAreFeasible
PROPERTIES
  NoReqBehindCursor
