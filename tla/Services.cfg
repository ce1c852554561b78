\* A node that settles or attests, two starts, two wallet requests, the network
\* configuration set, changed and rolled back.
SPECIFICATION MCSpec
CONSTANTS
    Layers <- LayerChoices
    NetworkAddresses = {0, 1}
    MaxUpdates = 2
    Requests = {q1, q2}
    WalletConfigs <- NodeWallets
    CallAmounts = {0, 1}
    InitialPots <- StartingPots
    MaxLost = 1
    MaxOthers = 1
    LoopConfigs <- Periods
    MaxSlept = 4
    MaxBoots = 2
    Hashes = {h1, h2}
    NoHash = NoHash
    AttestationConfigs <- AttestationChoices
    MaxFlow = 1
INVARIANTS AddressesResolved MovedOncePerAnswer ConfirmedTookEffect BatchesOnSchedule HashFresh SnapshotHonest
PROPERTY RefreshAnswered
CHECK_DEADLOCK FALSE
