SPECIFICATION Spec
CONSTANTS
  inngest = inngest
  direct = direct
  asker = asker
  k1 = k1
  k2 = k2
  NoKek = NoKek
  NoKey = NoKey
  NoRow = NoRow
  Auditors <- MCAuditors
  Askers <- MCNoAskers
  Durable <- MCInngestOnly
  Keks <- MCRotatedKeks
  KeksOf <- MCRotatedKeksOf
  MaxAttempts = 3
  MaxFaults = 0
  MaxWork = 1
INVARIANT RotationIsNonDestructive
CHECK_DEADLOCK FALSE
