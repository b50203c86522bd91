\* Requests that compete for the subscription and find both sources short.
SPECIFICATION FairSpec
CONSTANTS
  r1 = r1
  r2 = r2
  Requests = {r1, r2}
  Profiles <- ContendingProfiles
  Actuals = {0, 1, 3}
  Fees = {0, 1}
  TrustQuota = 3
  TokenUnlimited = FALSE
  WalletQuota = 1
  TokenQuota = 4
  SubTotal = 1
  AllowOverflow = TRUE
  MaxAttempts = 3
  MaxFaults = 1
  MaxCrashes = 1
PROPERTIES NoneStuck KeepsPromise
