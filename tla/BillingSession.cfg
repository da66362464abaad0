SPECIFICATION Spec
CONSTANTS
    Requests = {r1, r2}
    Profiles <- MCProfiles
    Quotas <- MCQuotas
    InitWallet = 2
    InitToken = 3
    TokenUnlimited = FALSE
    SubActive = TRUE
    SubTotal = 3
    WalletOverflow = TRUE
    TrustQuota = 1
    MaxReserves = 1
SYMMETRY Symmetry
INVARIANTS
    BooksMatchLedgers
    ChargeMatchesUsage
    RejectedIsFree
    RefundIsComplete
    NeverOverRefunded
    DebtIsAccounted
    

    
CHECK_DEADLOCK FALSE
