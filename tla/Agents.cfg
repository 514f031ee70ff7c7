CONSTANTS
  r1 = r1
  k1 = k1
  k2 = k2
  c1 = c1
  c2 = c2
  None = None
  NoUid = NoUid
  Absent = Absent
  Broken = Broken
  NoKey = NoKey
  NoEntry = NoEntry
  Files <- TwoFiles
  Records <- SomeRecords
  Uids <- SomeUids
  Locks <- SomeLocks
  Requests <- OneRequest
  MaxWrites = 1
  MaxLosses = 1
  Families <- TwoFamilies
  ProductOf <- OneProduct
  Keys <- TwoKeys
  Accounts <- TwoAccounts
  Callers <- TwoCallers
  Calls <- SomeCalls
  Startup = c1
  Ttl = 1
  Cooldown = 1
  MaxTime = 1
  MaxSwitches = 1
SPECIFICATION AgentsSpec
INVARIANTS
  ShownIsUsed
  LastGoodServed
  ForcedIsServed
PROPERTIES
  LockHolds
  RefusalsAreCurrent
  AgentsSettle
