SPECIFICATION FairSpec
CONSTANTS
  Alerts <- MCAlerts
  Keys <- MCKeys
  Triggers <- MCTriggers
  Event <- MCEvent
  Always = "always"
  Proto <- MCProto
  Channels <- MCChannels
  Enable <- MCEnable
  Reset <- MCReset
  ResetTime <- MCTime
  AnswerTime = 1
  ConnectTime = 1
  NoChild = NoChild
  NoLock = NoLock
  Torn = Torn
  Failures = 1
INVARIANTS
  TypeOK
  QuietIsOff
PROPERTIES
  OffSparesHolder
  OffEventually
CHECK_DEADLOCK FALSE
