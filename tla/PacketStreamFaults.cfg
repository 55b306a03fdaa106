SPECIFICATION FairSpec
CONSTANTS
  a = a
  b = b
  NoConn = NoConn
  Conns <- MCConns
  Isns <- MCIsns
  Length <- MCLength
  Calls <- MCCalls
  SeqSpace = 12
  MaxRepeats = 1
INVARIANTS
  TypeOK
  ForwardedIsOneJob
  ForwardedOnce
CHECK_DEADLOCK FALSE
PROPERTIES
  EveryCallForwarded
