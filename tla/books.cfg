CONSTANTS
  Tills = {t1, t2}
  DayTill = t1
  MaxTx = 3
  Carts <- Both
  MaxTime = 3
  MaxShifts = 2
  MaxZ = 2
  MaxAdjusted = 1
SPECIFICATION MCSpec
INVARIANTS ZCoversSince ZMatchesShifts ClosedStaysStable ReturnsAddUp HeldForGoods BooksInv
