SPECIFICATION Spec
CONSTANTS
  inngest = inngest
  direct = direct
  asker = asker
  k1 = k1
  k2 = k2
  NoKek = NoKek
  NoKey = NoKey
  NoRow = NoRow
  Auditors <- MCInngestOnly
  Askers <- MCNoAskers
  Durable <- MCInngestOnly
  Keks <- MCKeks
  KeksOf <- MCPlaintextKeksOf
  MaxAttempts = 3
  MaxFaults = 0
  MaxWork = 1
INVARIANT SignedReportsPassTheForm
CHECK_DEADLOCK FALSE
