CONSTANTS
  one = one
  two = two
  server = server
  caller = caller
  browser = browser
  old = old
  none = none
  file = file
  fix = fix
  rework = rework
  original = original
  here = here
  there = there
  Hosts = {here, there}
  HostsOf <- MCHostsOf
  Requests <- MCRequests
  Asks <- MCAsks
  Tasks = {server, caller, browser}
  Sources = {old}
  NoSource = none
  MaxAttempts = 3
  MaxFaults = 1
  ServerTask = server
  Patches = {fix, rework}
  FileOf <- MCFileOf
  Original = original
SPECIFICATION Spec
CHECK_DEADLOCK FALSE
INVARIANTS
  TypeOK
  SessionsAreShared
  AcceptedJobsAreStarted
  RecordsTellTheTruth
  AppliedPatchesAreOnDisk
  DoneMeansAnswered
PROPERTIES
  QuestionsAreAnswered
