CONSTANTS
  product = product
  v2 = v2
  v3 = v3
  None = None
  Nodes = {v2, v3}
  LoggedNodes = {v2, v3}
  LogLimit = 1
  Period = 51
  Runs = 1
  MaxTime = 3
  MaxWarnings = 2
SPECIFICATION Spec
INVARIANTS ReportsSpread
SYMMETRY Symmetry
CHECK_DEADLOCK FALSE
