SPECIFICATION Spec
CONSTANTS
  v1 = v1  v2 = v2  v3 = v3  b1 = b1  b2 = b2  b3 = b3  p1 = p1  p2 = p2  p3 = p3
  d1 = d1  d2 = d2  zeros = zeros  ZeroData = zeros  h1 = h1  h2 = h2  None = None
  Data = {d1, d2, zeros}
  DataVIOs = {v1, v2, v3}
  LBNs = {b1, b2, b3}
  LBNOf <- MCLBNOf
  HashLocks = {1, 2, 3}
  MaxSlots = 2
  Scenarios <- BypassScenario
PROPERTIES ReturnedLockHoldsNoPBNLock
