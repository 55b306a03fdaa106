SPECIFICATION Spec
CONSTANTS
  c1 = c1
  c2 = c2
  c3 = c3
  i1 = i1
  i2 = i2
  u1 = u1
  u2 = u2
  other = other
  NoIncident = NoIncident
  Children <- MCChildren
  Incidents <- MCIncidents
  AllUnits <- MCAllUnits
  StationUnits <- MCStation
  Messages <- OpenMessages
  DbMayFail = FALSE
  MayCrash = TRUE
  NetAudio = FALSE
SYMMETRY Symmetry
INVARIANTS
  ConfirmedIsStored
  AnnouncedIsRecorded
  AnnouncedOnce
CHECK_DEADLOCK FALSE
