SPECIFICATION Spec
CHECK_DEADLOCK FALSE
CONSTANTS
  M = 4  Consts = {2, 3}  Ks = 0  MaxNodes = 5  MaxReal = 1000
  Boxes <- Narrow  Bounds <- MCBounds
INVARIANT NoFalseSafe
