SPECIFICATION Spec
CONSTANTS
  NPeriods = 4
  Materials = {"A", "B", "N", "C", "P"}
  Capacities = {}
  SortedParts <- McSortedParts
  Operations = {"makeB", "makeN", "makeC", "makeP"}
  SortedOpns <- McSortedOpns
  BomEntries = {"bA", "nA", "cB", "pC"}
  SubEntries = {"cN"}
  BopEntries = {"outB", "outN", "outC", "outP"}
  Bom <- McBom
  Subs <- McSubs
  Bop <- McBop
  OpnOf <- McOpnOf
  PartOf <- McPartOf
  Rate <- McRate
  ExpAllowed = {"outB", "outN", "outC", "outP"}
  NetAllowed = {"cN"}
  Producing <- McProducing
  EcEntries = {"bA", "nA", "cB"}
  RawImpact <- McRawImpact
INVARIANTS
  MarksAreJustified
  NoObsoleteStock
CHECK_DEADLOCK FALSE
