CONSTANTS
  Kinds = {"delimited", "ndjson"}
  Strides = {1, 2}
  MaxBytes = 8
  Characters = {"[", "]", "{", "}", ",", "q", "b", " "}
  MaxArray = 6
  MaxText = 4
  MaxOther = 3
  Chunks = {1, 3}
  Plugins = {p}
  Slices = {s}
  MaxRows = 2
  MaxChanges = 2
  NoHandler = none
  Sources = {s1}
  Caches = {t1}
  CacheOf <- MCCacheOf
  Queries = {q1, q2}
  Parts = 2
  MaxVersion = 1
  MaxClock = 2
  MaxFaults = 1
  MaxAsked = 2
SPECIFICATION FilesSpec
SYMMETRY MCSymmetry
INVARIANTS FilesTypeOK TextBlocksRight ArrayRowsRight QuietInspectionRight SliceServed SqlAnswersWhole SqlAnswersCurrent
PROPERTY SqlTranscodedOnce
CHECK_DEADLOCK FALSE
