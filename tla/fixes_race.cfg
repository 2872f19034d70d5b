SPECIFICATION Spec
CHECK_DEADLOCK FALSE
CONSTANTS
  ann = ann  f1 = f1  good = good  bad = bad  c1 = c1  c2 = c2  shaft = shaft
  mkUser = mkUser  propose = propose  repropose = repropose  approve = approve
  event = event  event2 = event2  resolve = resolve
  sign = sign
  None = None
  Ops = {mkUser, propose, repropose, approve, sign}
  Users = {ann}  Fixes = {f1}  Patches = {good, bad}  Cases = {c1, c2}  Keys = {shaft}
  TopK = 1  MaxClock = 0  MaxCrashes = 0
  Request <- MCRequest  Near <- MCNear  Dist <- MCDist
  MakesSafe <- MCMakesSafe  Linked0 <- OneLink
INVARIANT ApprovesWhatIsSigned
