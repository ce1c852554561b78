\* One session while roles, fees, the TEE multiplier, prices and the registry change
\* under it, with two internal units per native unit, USDC credits and gifts.
SPECIFICATION Spec
CONSTANTS
    alice = alice
    gov = gov
    NoAccount = NoAccount
    NoNode = NoNode
    NoModel = NoModel
    NoPrice = NoPrice
    NoRate = NoRate
    Accounts <- TwoAccounts
    Nodes = {n1}
    Models = {m1}
    MaxSessions = 1
    MaxCirculating = 3
    MaxUsage = 2
    MaxNative = 2
    MaxUsdcCredited = 1
    Amounts = {1, 2, 3}
    UsdcAmounts = {1}
    Gifts = {1}
    TokenDeltas <- WrappingDeltas
    NATIVE_UNIT = 2
    USDC_UNIT = 1
    PRICE_TOKENS = 2
    TOKEN_MOD = 4
    BPS_DENOM = 4
    MIN_TEE_MULTIPLIER_BPS = 4
    MAX_TEE_MULTIPLIER_BPS = 12
    MAX_PROTOCOL_FEE_BPS = 2
    DefaultTeeMultiplierBps = 6
    DefaultFeeBps = 2
    TeeMultiplierChoices = {3, 6}
    FeeBpsChoices = {0, 2, 3}
    DeployedRole = NoAccount
    RoleChoices <- GovOrNobody
    OwnerChoices <- JustGov
    OperatorChoices <- JustGov
    TierChoices <- BothTiers
    PriceChoices <- TwoPrices
    RateChoices <- FixedRate
INVARIANT ShortfallBounded
