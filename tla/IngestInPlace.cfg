CONSTANTS
  Candidates <- MCCandidates
  Lower <- MCLower
  RowFormats = {"csv"}
  Kinds = {"rows"}
  Places = {TRUE}
  MaxRows = 1
SPECIFICATION Spec
INVARIANT CopiedByteForByte
CHECK_DEADLOCK FALSE
