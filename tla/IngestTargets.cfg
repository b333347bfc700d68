CONSTANTS
  Candidates <- MCColliding
  Lower <- MCLower
  RowFormats = {"csv"}
  Kinds = {"rows"}
  Places = {FALSE}
  MaxRows = 1
SPECIFICATION Spec
INVARIANT TargetsDistinct
CHECK_DEADLOCK FALSE
