CONSTANTS
  Plugins = {p}
  Slices = {s}
  MaxRows = 1
  MaxChanges = 2
  NoHandler = none
SPECIFICATION RegistrySpec
INVARIANT OverrideHasNoLocators
CHECK_DEADLOCK FALSE
