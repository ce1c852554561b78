\* Two nodes, two sessions: every mix of funding, usage, partial and full settles, fees.
SPECIFICATION Spec
CONSTANTS
    alice = alice
    gov = gov
    NoAccount = NoAccount
    NoNode = NoNode
    NoModel = NoModel
    NoPrice = NoPrice
    NoRate = NoRate
    Accounts <- TwoAccounts
    Nodes = {n1, n2}
    Models = {m1}
    MaxSessions = 2
    MaxCirculating = 3
    MaxUsage = 2
    MaxNative = 3
    MaxUsdcCredited = 0
    Amounts = {1, 2}
    UsdcAmounts = {}
    Gifts = {}
    TokenDeltas <- OneInputToken
    NATIVE_UNIT = 1
    USDC_UNIT = 1
    PRICE_TOKENS = 2
    TOKEN_MOD = 4
    BPS_DENOM = 4
    MIN_TEE_MULTIPLIER_BPS = 4
    MAX_TEE_MULTIPLIER_BPS = 12
    MAX_PROTOCOL_FEE_BPS = 2
    DefaultTeeMultiplierBps = 6
    DefaultFeeBps = 2
    TeeMultiplierChoices = {6}
    FeeBpsChoices = {2}
    DeployedRole = gov
    RoleChoices <- JustGov
    OwnerChoices <- JustGov
    OperatorChoices <- JustGov
    TierChoices <- BestEffortOnly
    PriceChoices <- OneUnitPrice
    RateChoices <- FixedRate
INVARIANTS CirculatingConserved LocksConserved OpenCountsMatch SessionBooks EarningsAttributed
PROPERTIES SessionsOnlyAdvance LedgerRefined
