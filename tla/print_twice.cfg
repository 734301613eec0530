CONSTANTS
  Sales = {s1, s2}
  Drains = {d1, d2}
  QueueBatch = 2
  MaxJobs = 2
  MaxFaults = 0
SPECIFICATION Spec
INVARIANTS OriginalPrintedOnce
