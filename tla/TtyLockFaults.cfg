SPECIFICATION Spec
CONSTANTS
  p1 = p1
  p2 = p2
  p3 = p3
  n1 = n1
  n2 = n2
  n3 = n3
  NoProc = NoProc
  NoLock = NoLock
  Torn = Torn
  Short = {n1}
  Procs <- MCProcs
  LockIds <- MCLockIds
  Kind <- AllKinds
  PreambleTime = 1
  ResetTime = 4
  WriteTime = 2
  Distinct = TRUE
  FileMayFail = TRUE
  SignMayFail = TRUE
  MayCrash = TRUE
INVARIANTS
  TypeOK
PROPERTIES
  ResetSparesHolder
CHECK_DEADLOCK FALSE
