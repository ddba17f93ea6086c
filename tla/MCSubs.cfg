SPECIFICATION Spec
CONSTANTS
  NPeriods = 3
  Materials = {"A", "S", "C", "P"}
  Capacities = {"K"}
  SortedParts <- McSortedParts
  Operations = {"makeC", "makeP"}
  SortedOpns <- McSortedOpns
  BomEntries = {"cA", "pK", "pC"}
  SubEntries = {"pS", "pN"}
  BopEntries = {"outC", "outS", "outP"}
  Bom <- McBom
  Subs <- McSubs
  Bop <- McBop
  OpnOf <- McOpnOf
  PartOf <- McPartOf
  Impact <- McImpact
  Rate <- McRate
  ExpAllowed = {"outC", "outP"}
  NetAllowed = {"pS", "pN"}
  Producing <- McProducing
  EcEntries = {}
  Earliest <- AllPeriodsFrom
  Latest <- AllPeriodsTo
  UncondSR = {}
  Demands = {"dP", "dC"}
  DemandedPart <- McDemandedPart
  ShipLate = {"dP"}
  BuildAheadUB <- McBuildAheadUB
  PrefBuildAhead = {"dC"}
  SearchInc <- McSearchInc
  ExecUB <- NoExecUB
  LotSizes <- NoLotSizes
  StockSLB <- McStockSLB
  PrefHighStockSLBs = TRUE
  SkipFailures = TRUE
  Supplies <- McSupplies
  DemandVols <- McDemandVols
  MaxDesIncVol = 3
INVARIANTS
  TypeOK
  TempCommitsUndo
  PermCommitSucceeds
  SolutionAddsUp
  ReqSchedCleared
