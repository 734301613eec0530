SPECIFICATION MCSpec
CONSTANTS
  t1 = t1
  t2 = t2
  cashier = cashier
  owner = owner
  Threads = {t1, t2}
  Commands <- Saving
  Script <- MCScript
  Locks <- MCLocks
  Rank <- MCRank
  Users = {cashier, owner}
  Nobody = Nobody
  Level <- MCLevel
  MaxCalls = 3
PROPERTY EveryCallReturns
CHECK_DEADLOCK FALSE
