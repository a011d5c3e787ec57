CONSTANTS
  wf = wf
  direct = direct
  code = code
  data = data
  stray = stray
  none = none
  Calls <- MCCalls
  Durable <- MCDurable
  Settings <- MCSettings
  MaxRetries = 2
  MaxAttempts = 3
  MaxFaults = 1
  Life = 3
  Margin = 1
  IamDelay = 2
  MaxTime = 3
  PackInputs <- MCPackInputs
  SourceInputs <- MCSourceInputs
  SourceRules <- MCSourceRules
  NoRules = none
  Files <- MCFiles
  Parseable <- MCParseable
  Stray = stray
  Units = 2
  MaxPatches = 2
  MaxCitations = 1
SPECIFICATION Spec
CHECK_DEADLOCK FALSE
INVARIANTS
  TypeOK
  PlansFitTheirKey
  ProposedPatchesWereValidated
  GaveUpIsVisible
  TestedOrReported
PROPERTIES
  PlansAgree
  TokensAreFresh
  CallsEnd
  DurablePackPlans
