CONSTANTS
  NoTill = NoTill
  Tills = {t1, t2}
  Rows = {p}
  Deltas = {}
  ProductOf <- MCProductOf
  MaxTime = 2
  MaxTie = 0
  Server = "cloud"
  Refused = {}
  PushBatch = 2
  PullPage = 2
  MaxFaults = 0
SPECIFICATION Spec
INVARIANTS CaughtUp
