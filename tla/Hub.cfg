\* One node, two accounts, two sessions in a row, the whole rundown and purge.
SPECIFICATION HubSpec
CONSTANTS
    host = host
    gov = gov
    NoAccount = NoAccount
    HubEscrow = HubEscrow
    NoHash = NoHash
    NoKey = NoKey
    NoUri = NoUri
    NoNode = NoNode
    NoModel = NoModel
    NoPrice = NoPrice
    NoRate = NoRate
    Accounts <- OpAndGov
    Nodes = {n1}
    InitialOwner = gov
    InitialAttestationService = gov
    InitialEscrow = HubEscrow
    OwnerArgs <- ZeroOrGov
    ServiceArgs <- JustGov
    EscrowArgs = {HubEscrow}
    PayoutArgs <- ZeroOrGov
    TierFlags <- AnyFlags
    Hashes = {h1}
    Pubkeys = {k1}
    FeeArgs = {0}
    Uris = {}
    GracePeriods = {0}
    MaxVersion = 1
    MaxTime = 1
    MAX_UINT64 = 1
    MaxOpen = 2
    Models = {m1}
    MaxSessions = 2
    MaxCirculating = 1
    MaxUsage = 1
    MaxNative = 1
    MaxUsdcCredited = 0
    Amounts = {1}
    UsdcAmounts = {}
    Gifts = {}
    TokenDeltas <- OneInputToken
    NATIVE_UNIT = 1
    USDC_UNIT = 1
    PRICE_TOKENS = 2
    TOKEN_MOD = 4
    BPS_DENOM = 4
    MIN_TEE_MULTIPLIER_BPS = 4
    MAX_TEE_MULTIPLIER_BPS = 12
    MAX_PROTOCOL_FEE_BPS = 2
    DefaultTeeMultiplierBps = 6
    DefaultFeeBps = 0
    TeeMultiplierChoices = {6}
    FeeBpsChoices = {0}
    DeployedRole = gov
    RoleChoices <- JustGov
    PriceChoices <- UnitPrice
    RateChoices <- FixedRate
INVARIANT DefunctNodesDrained
PROPERTY EscrowSpec
