SPECIFICATION MCSpec
CONSTANTS
  Sales = {s1, s2, s3}
  Drains = {d1, d2}
  QueueBatch = 2
  MaxJobs = 3
  MaxFaults = 1
  Catalog <- MCCatalog
  ComboItems <- MCCombo
  ComboPrice = 1100
  Rules <- MCRules
  Members <- MCMembers
  Balances = {75}
  PointValue = 10
  MinRedeem = 5
  MaxRedeem = 10000
  PointsPerUnit = 3
  Cents = 100
  Items <- MCItems
  MaxLines = 3
  Moments <- MCMoments
  Tendered <- MCTendered
  MaxTenders = 2
INVARIANTS QueueInv OneOriginal QuoteAddsUp TendersAddUp RulesInTheirWindow
PROPERTIES FirstPrintsInOrder EventuallyPrinted
CHECK_DEADLOCK FALSE
