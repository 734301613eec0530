CONSTANTS
  Tills = {t1}
  MaxTx = 3
  Carts <- SingleOnly
  MaxTime = 3
  MaxShifts = 2
  MaxZ = 2
  MaxAdjusted = 1
SPECIFICATION ClockSpec
INVARIANTS NothingFallsOut
