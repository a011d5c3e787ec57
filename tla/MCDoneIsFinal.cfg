SPECIFICATION FairSpec
CONSTANTS
  inngest = inngest
  direct = direct
  h1 = h1
  f1 = f1
  f2 = f2
  NoSnapshot = NoSnapshot
  Hosts <- MCHosts
  Durable <- MCAlone
  Untestable <- MCUntestable
  Outcomes <- MCPatched
  Runners <- MCBoth
  HostsOf <- MCBothHostsOf
  Files <- MCTwoFiles
  MaxEntries = 2
  MaxAttempts = 2
  MaxFaults = 0
PROPERTY DoneIsFinal
CHECK_DEADLOCK FALSE
