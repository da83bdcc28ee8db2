\* Two commands and their CANCELs, a channel of one place, two broken streams.
SPECIFICATION FairSpec
CONSTANTS
  Commands = {c1,c2}
  SendBuf = 1
  MaxBeats = 1
  MaxBreaks = 2
INVARIANTS
  TypeOK
  CancelIsNotLost
  ClosedChannelIsQuiet
PROPERTIES
  EveryCommandAnswered
  DrainEnds
CHECK_DEADLOCK FALSE
