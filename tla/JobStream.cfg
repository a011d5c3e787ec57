SPECIFICATION FairSpec
CONSTANTS
  MaxPolls = 2
  MaxEvents = 2
  MaxMoves = 1
  MaxFaults = 1
INVARIANTS
  TypeOK
  NoDoubleSend
  ShownOnce
  EndOfStream
  PostMortemIsWhole
PROPERTIES
  EventsArrive
  BadgeFollows
CHECK_DEADLOCK FALSE
