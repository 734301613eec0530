CONSTANTS
  NoTill = NoTill
  Tills = {t1, t2}
  Rows = {p}
  Deltas = {d1}
  ProductOf <- MCProductOf
  MaxTime = 2
  MaxTie = 1
  Server = "hub"
  Refused = {}
  PushBatch = 2
  PullPage = 1
  MaxFaults = 1
SPECIFICATION MCSpec
INVARIANTS TypeOK StockCountedOnce HubInv UnsentEditKept CaughtUp
PROPERTIES CursorMovesForward LedgerSpec
