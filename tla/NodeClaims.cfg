\* One request in either tier, behind the block gate or not, two troubles.
SPECIFICATION FairSpec
CONSTANTS
    Requests = {r1}
    ChainIds = {c1}
    NoRequest = NoRequest
    NoSession = NoSession
    NoTx = NoTx
    NoLink = NoLink
    Deposits = {2}
    MaxReported = 12
    Configs <- NodeMetered
    ReceiptCadence = 2
    MaxTokens = 2
    MaxTroubles = 2
INVARIANT DiskAccounts
PROPERTY CompletedGetsSettled
