SPECIFICATION FairSpec
CONSTANTS
  p1 = p1
  p2 = p2
  p3 = p3
  n1 = n1
  n2 = n2
  n3 = n3
  NoProc = NoProc
  NoLock = NoLock
  Torn = Torn
  Short = {}
  Procs <- MCProcs
  LockIds <- MCLockIds
  Kind <- NoRF
  PreambleTime = 1
  ResetTime = 4
  WriteTime = 2
  Distinct = TRUE
  FileMayFail = FALSE
  SignMayFail = FALSE
  MayCrash = FALSE
INVARIANTS
  QuietShowsDefault
PROPERTIES
  ImplementsOwner
  SignEventuallyDefault
CHECK_DEADLOCK FALSE
