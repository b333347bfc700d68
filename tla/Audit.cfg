CONSTANTS
  Files = {"a", "b"}
  Batches <- MCBatches
  MaxBatches = 2
  MaxFaults = 1
  Null = Null
  NaN = NaN
  Missing = Missing
  Text = Text
  None = None
  Passengers <- MCPassengers
  Fares <- MCFares
  Distances <- MCDistances
  Times <- MCTimes
  MinPassenger = 1
  MaxPassenger = 6
  MinFare = 3
  MaxSpeed = 8
  NumRows = 1
  \* Three rules and chunks of two bits: the second chunk is needed.
  Columns <- MCColumns
  Second <- MCSecond
  Asked <- MCAsked
  AliasOf <- MCAliasOf
  Width = 2
  MaxRules = 3
  Root <- MCRoot
  Trees <- MCTrees
  Rules <- MCRules
  Filters <- MCFilters
  Contents <- MCContents
  NoKey = ""
SPECIFICATION AuditSpec
INVARIANTS AuditTypeOK StaticSplitRight RulesAuditRight LakeReportRight PruningRight FilesSummaryRight
CHECK_DEADLOCK FALSE
