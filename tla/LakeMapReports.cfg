CONSTANTS
  Files = {1, 2}
  Contents = {"a", "b", "bad"}
  NoContent = "-"
  SizeOf <- MCSizeOf
  Readable = {"a", "b"}
  OnePass = {2}
  Doctors = {d}
  Builders = {b}
  Readers = {}
  Asked = {"blake3"}
  FreshStamps = FALSE
  Recurring = FALSE
  MaxClock = 1
  MaxFaults = 0
SPECIFICATION Spec
INVARIANTS DigestSound ReportTrue
