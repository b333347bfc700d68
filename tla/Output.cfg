CONSTANTS
  Candidates <- MCCandidates
  Lower <- MCLower
  RowFormats = {"csv"}
  Kinds = {"rows", "header", "broken"}
  Places = {TRUE, FALSE}
  MaxRows = 2
  Limits = {1, 3}
  BatchSizes = {0, 2}
  Formats = {"parquet", "xlsx"}
  Writable = {"parquet"}
  MaxBatches = 3
  MaxParts = 6
SPECIFICATION OutputSpec
INVARIANTS TypeOK LakeRight SplitRight FailureLeavesPrefix
PROPERTIES SplitEnds
