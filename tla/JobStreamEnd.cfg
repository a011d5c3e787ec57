SPECIFICATION Spec
CONSTANTS
  MaxPolls = 1
  MaxEvents = 1
  MaxMoves = 1
  MaxFaults = 0
INVARIANT DoneFeedIsWhole
CHECK_DEADLOCK FALSE
