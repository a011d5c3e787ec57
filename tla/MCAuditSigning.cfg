SPECIFICATION FairSpec
CONSTANTS
  inngest = inngest
  direct = direct
  asker = asker
  k1 = k1
  k2 = k2
  NoKek = NoKek
  NoKey = NoKey
  NoRow = NoRow
  Auditors <- MCAuditors
  Askers <- MCAskers
  Durable <- MCDurable
  Keks <- MCKeks
  KeksOf <- MCKeksOf
  MaxAttempts = 3
  MaxFaults = 1
  MaxWork = 1
INVARIANTS
  TypeOK
  SignedUnderStoredKey
  ResignCoversEarlier
  ServedReportsVerify
PROPERTIES
  LedgerRefined
  DurableSignersFinish
CHECK_DEADLOCK FALSE
