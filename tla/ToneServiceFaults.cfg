SPECIFICATION FairToneSpec
CONSTANTS
  Slot <- MCSlot
  MaxProc = 3
  Polls = FALSE
  Deaths = 1
  Signals = 1
  t1 = t1
  noise = noise
  Tone <- MCTone
  Mapped <- MCMapped
  NoTone = NoTone
  Modes <- MCModes
  Breaks = 1
INVARIANTS
  ToneTypeOK
  ProcessesAreCounted
  SignalIsFinal
  LostInCompany
  AlertedOnce
PROPERTIES
  PortIsServed
  EveryToneIsTaken
CHECK_DEADLOCK FALSE
