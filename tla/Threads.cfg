CONSTANTS
  Callers = {"a", "b"}
  MaxBatches = 3
  MaxCalls = 3
  Jobs = {j1, j2}
  Asked = {none, 0, 1, 2}
  Unasked = none
  MaxFiles = 3
  Widths = {0, 3}
  Ram = 40
  MinRows = 1
  MaxRows = 9
  Cpus = 3
  Workers = {w1, w2, w3}
  Sizes = {1}
  Throttle = 2
  MaxTime = 4
SPECIFICATION ThreadsSpec
INVARIANTS ThreadsTypeOK BatchesRight BudgetKept PoolAsAsked BarRight
PROPERTY CallsReturn ShownBarEnds
CHECK_DEADLOCK FALSE
