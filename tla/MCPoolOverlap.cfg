SPECIFICATION PoolSpec
CONSTANTS
  NoMachine = NoMachine
  Machine = {m1, m2, m3, m4}
  Claim = {c1, c2}
  Reconcile = {}
  Tick = {"tick"}
  Resize = {}
  Mins = {2}
  MaxAttempts = 3
  FailingFlyCalls = {}
  MaxPoolFaults = 0
INVARIANTS
  ClaimsAreExclusive
CHECK_DEADLOCK FALSE
