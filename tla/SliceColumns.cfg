CONSTANTS
  Readers = {"parquet", "ipc", "orc", "delimited", "tsv", "decoded"}
  Tables <- MCTables
  Requests <- MCRequests
SPECIFICATION ProjectionSpec
INVARIANT PresentColumnsFound
CHECK_DEADLOCK FALSE
