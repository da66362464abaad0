SPECIFICATION Spec
CONSTANTS
    Requests = {r1}
    Profiles <- MCImageProfiles
    Quotas <- MCWideQuotas
    InitWallet = 4
    InitToken = 4
    TokenUnlimited = FALSE
    SubActive = TRUE
    SubTotal = 3
    WalletOverflow = TRUE
    TrustQuota = 3
    MaxReserves = 2
INVARIANT
    RefundReturnsAll
CHECK_DEADLOCK FALSE
