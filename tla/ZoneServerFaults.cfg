SPECIFICATION FairSpec
CONSTANTS
  Conn <- MCConn
  Zone = {"z"}
  NoZone = "none"
  zoneOf <- MCZoneOf
  Relays = {"z"}
  Ports = {"z"}
  Fields = {"ZLO", "ZID"}
  Numeric = {"ZID"}
  Lists = {"UNT", "UME"}
  Blank <- MCBlank
  AskLimit <- MCLimit
  DbErrors = 1
INVARIANTS
  TypeOK
  PatientClientsKeepItUp
  RelayEndsOff
PROPERTIES
  ImplementsReplies
  PatientIsAnswered
CHECK_DEADLOCK FALSE
