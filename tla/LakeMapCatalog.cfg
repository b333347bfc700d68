CONSTANTS
  Files = {1}
  Contents = {"a", "b", "c"}
  NoContent = "-"
  SizeOf <- MCSizeOf
  Readable = {"a", "b", "c"}
  OnePass = {}
  Doctors = {}
  Builders = {b}
  Readers = {r}
  Asked = {"metadata", "blake3"}
  FreshStamps = TRUE
  Recurring = TRUE
  MaxClock = 2
  MaxFaults = 1
SPECIFICATION Spec
INVARIANTS NeverTorn MetadataSound QuietSliceRight
