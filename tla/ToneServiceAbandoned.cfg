SPECIFICATION FairToneSpec
CONSTANTS
  Slot <- MCSlot
  MaxProc = 3
  Polls = FALSE
  Deaths = 2
  Signals = 0
  t1 = t1
  noise = noise
  Tone = {}
  Mapped = {}
  NoTone = NoTone
  Modes <- MCAuto
  Breaks = 0
PROPERTIES
  ReaderIsRestarted
CHECK_DEADLOCK FALSE
