CONSTANTS
  Files = {1}
  Contents = {"a", "bad"}
  NoContent = "-"
  SizeOf <- MCSizeOf
  Readable = {"a"}
  OnePass = {}
  Doctors = {d}
  Builders = {b}
  Readers = {}
  Asked = {"metadata"}
  FreshStamps = TRUE
  Recurring = TRUE
  MaxClock = 2
  MaxFaults = 1
SPECIFICATION FairSpec
PROPERTY Converges
