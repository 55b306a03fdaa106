SPECIFICATION FairSpec
CONSTANTS
  c1 = c1
  c2 = c2
  c3 = c3
  i1 = i1
  i2 = i2
  u1 = u1
  u2 = u2
  other = other
  NoIncident = NoIncident
  Children <- MCPair
  Incidents <- MCIncidents
  AllUnits <- MCAllUnits
  StationUnits <- MCStation
  Messages <- AllMessages
  DbMayFail = TRUE
  MayCrash = TRUE
  NetAudio = TRUE
INVARIANTS
  TypeOK
  RecordedIsAnnounced
  NoUnitDropped
PROPERTIES
  EveryUnitAnnounced
CHECK_DEADLOCK FALSE
