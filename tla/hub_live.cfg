CONSTANTS
  NoTill = NoTill
  Tills = {t1, t2}
  Rows = {p}
  Deltas = {d1}
  ProductOf <- MCProductOf
  MaxTime = 2
  MaxTie = 0
  Server = "hub"
  Refused = {d1}
  PushBatch = 1
  PullPage = 1
  MaxFaults = 1
SPECIFICATION FairSpec
PROPERTIES EventuallyDelivered EventuallyAgree
