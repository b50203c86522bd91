SPECIFICATION Spec
CONSTANTS
  r1 = r1
  r2 = r2
  Requests = {r1, r2}
  Profiles <- AllProfiles
  Actuals = {0, 1, 3}
  Fees = {0, 1}
  TrustQuota = 3
  TokenUnlimited = FALSE
  WalletQuota = 4
  TokenQuota = 4
  SubTotal = 3
  AllowOverflow = TRUE
  MaxAttempts = 3
  MaxFaults = 1
  MaxCrashes = 1
SYMMETRY Symmetry
INVARIANTS IInv ChargedExactly NeverOverRefunded OneFundingSource WithinTotal
