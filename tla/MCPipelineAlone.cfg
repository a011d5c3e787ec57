SPECIFICATION FairSpec
CONSTANTS
  inngest = inngest
  direct = direct
  h1 = h1
  f1 = f1
  f2 = f2
  NoSnapshot = NoSnapshot
  Hosts <- MCHosts
  Durable <- MCAlone
  Untestable <- MCUntestable
  Outcomes <- Outcome
  Runners <- MCAlone
  HostsOf <- MCAloneHostsOf
  Files <- MCTwoFiles
  MaxEntries = 2
  MaxAttempts = 3
  MaxFaults = 2
INVARIANTS
  TypeOK
  SummaryNeverOverstates
  FinishedRunAuditsItsPatches
  FinishedRunIsWhole
PROPERTIES
  MovesBackOnlyToRetry
  DurableRunFinishes
CHECK_DEADLOCK FALSE
