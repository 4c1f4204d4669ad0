CONSTANTS
  product = product
  v2 = v2
  v3 = v3
  None = None
  Nodes = {product, v2, v3}
  LoggedNodes = {v2, v3}
  LogLimit = 2
  Period = 51
  Runs = 2
  MaxTime = 3
  MaxWarnings = 4
SPECIFICATION Spec
INVARIANTS TypeOK SpreadConfirmed SpreadFound
SYMMETRY Symmetry
CHECK_DEADLOCK FALSE
