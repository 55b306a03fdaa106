SPECIFICATION Spec
CONSTANTS
  e1 = e1
  e2 = e2
  near = near
  changed = changed
  far = far
  NoEvent = NoEvent
  NoRow = NoRow
  Events <- MCPair
  Details <- MCDetails
  Relevant <- MCRelevant
  OldestFirst = FALSE
  MaxOpen = 2
  MayChange = TRUE
  MayExpire = TRUE
  MaySleep = TRUE
  DbMayFail = TRUE
  RulesMayFail = TRUE
  MayRestart = TRUE
SYMMETRY PairSymmetry
INVARIANTS
  TypeOK
  NewOnce
  ChangeFollowsNew
  CancelIsLast
CHECK_DEADLOCK FALSE
