\* A user settles part of a session while the settle of the node is in flight.
SPECIFICATION Spec
CONSTANTS
    Requests = {r1}
    ChainIds = {c1}
    NoRequest = NoRequest
    NoSession = NoSession
    NoTx = NoTx
    NoLink = NoLink
    Deposits = {2}
    MaxReported = 12
    Configs <- BestEffortOnly
    ReceiptCadence = 2
    MaxTokens = 1
    MaxTroubles = 1
INVARIANT SettledOnChain
