CONSTANTS
  l1 = l1  l2 = l2  c1 = c1  c2 = c2
  Launchers <- MCLaunchers
  Contents  <- MCContents
  None = None
  MaxStarts = 2
  MaxEdits = 0
  MaxLosses = 0
SPECIFICATION Spec
CHECK_DEADLOCK FALSE
INVARIANT ReportedCacheKept
