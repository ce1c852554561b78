\* The escape hatch against a changing registry, owner, prices and rates.
SPECIFICATION FairSpec
CONSTANTS
    alice = alice
    gov = gov
    NoAccount = NoAccount
    NoNode = NoNode
    NoModel = NoModel
    NoPrice = NoPrice
    NoRate = NoRate
    Accounts <- TwoAccounts
    Nodes = {n1}
    Models = {m1}
    MaxSessions = 1
    MaxCirculating = 2
    MaxUsage = 2
    MaxNative = 2
    MaxUsdcCredited = 2
    Amounts = {2}
    UsdcAmounts = {2}
    Gifts = {}
    TokenDeltas <- SmallDeltas
    NATIVE_UNIT = 1
    USDC_UNIT = 1
    PRICE_TOKENS = 2
    TOKEN_MOD = 4
    BPS_DENOM = 4
    MIN_TEE_MULTIPLIER_BPS = 4
    MAX_TEE_MULTIPLIER_BPS = 12
    MAX_PROTOCOL_FEE_BPS = 2
    DefaultTeeMultiplierBps = 6
    DefaultFeeBps = 2
    TeeMultiplierChoices = {6}
    FeeBpsChoices = {2}
    DeployedRole = gov
    RoleChoices <- JustGov
    OwnerChoices <- AliceOrGov
    OperatorChoices <- GovOrNobody
    TierChoices <- AnyTiers
    PriceChoices <- PricesAndNone
    RateChoices <- RatesAndNone
PROPERTY EscapeHatch
