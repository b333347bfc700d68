CONSTANTS
  Totals = {0, 1, 5}
  Offsets = {0, 1, 2, 3, 4, 5, 6}
  Limits = {0, 1, 2, 9}
  Kinds = {"lines", "array", "stripes", "sheet", "parquet", "batches"}
  Strides = {1, 2, 3}
  GroupSizes = {0, 1, 3}
  BatchSizes = {0, 1, 3}
  MaxGroups = 3
  MaxObjects = 5
  ObjectStrides = {1, 2}
  ChunkSizes = {1, 3}
  More = 4
  MaxDigits = 3
  Metadata <- MCMetadata
  Data <- MCData
  Paths = {1, 2, 3}
  Layouts <- MCLayouts
  MaxRow = 6
  Readers = {"parquet", "ipc", "orc", "delimited", "tsv", "decoded"}
  Tables <- MCTables
  Requests <- MCRequests
SPECIFICATION SlicesSpec
INVARIANTS SlicesTypeOK LocatorsTile ObjectBlocksRight ChunksRight AvroBlocksRight RowsNumbered ColumnsAsAsked
PROPERTIES KeepsContract
