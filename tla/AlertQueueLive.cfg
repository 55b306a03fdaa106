SPECIFICATION FairSpec
CONSTANTS
  e1 = e1
  e2 = e2
  near = near
  changed = changed
  far = far
  NoEvent = NoEvent
  NoRow = NoRow
  Events <- MCPair
  Details <- MCDetails
  Relevant <- MCRelevant
  OldestFirst = TRUE
  MaxOpen = 2
  MayChange = TRUE
  MayExpire = FALSE
  MaySleep = FALSE
  DbMayFail = FALSE
  RulesMayFail = TRUE
  MayRestart = TRUE
INVARIANTS
  CurrentMatchesRow
PROPERTIES
  EveryPendingAnnounced
  EveryCancelAnnounced
  EveryUpdateShown
CHECK_DEADLOCK FALSE
