SPECIFICATION MCSpec
CONSTANTS
  t1 = t1
  t2 = t2
  old = old
  new = new
  other = other
  Devices = {t1}
  Rivals = {t2}
  Licenses = {old, new, other}
  NoLicense = NoLicense
  For <- MCFor
  Issued <- MCIssued
  Expires <- MCExpires
  Seats <- MCSeats
  Grace = 2
  MaxNow = 3
  MaxActs = 3
  MaxLost = 1
  Keep = 2
  MaxCommits = 3
  MaxRestores = 2
INVARIANT LicTypeOK NoTimeGained OpensWhole
PROPERTY SeatsHold AsideIsSaved RevokedHalts GoodTillRuns
CHECK_DEADLOCK FALSE
