\* Two requests on one escrow session, each mode, one trouble.
SPECIFICATION Spec
CONSTANTS
    Requests = {r1, r2}
    ChainIds = {c1}
    NoRequest = NoRequest
    NoSession = NoSession
    NoTx = NoTx
    NoLink = NoLink
    Deposits = {2}
    MaxReported = 12
    Configs <- UngatedConfigs
    ReceiptCadence = 3
    MaxTokens = 2
    MaxTroubles = 1
SYMMETRY Interchangeable
INVARIANTS BillingBounded ProviderPaid SettledUncontested
PROPERTY EndedOnlySettles
