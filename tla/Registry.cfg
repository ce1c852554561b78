\* Two nodes of two operators: registration, rundown, purge and re-registration, with
\* every history of rotations and revocations of their keys.
SPECIFICATION RegistrySpec
CONSTANTS
    op1 = op1
    op2 = op2
    NoAccount = NoAccount
    HubEscrow = HubEscrow
    NoHash = NoHash
    NoKey = NoKey
    NoUri = NoUri
    Accounts <- TwoOperators
    Nodes = {n1, n2}
    InitialOwner = op1
    InitialAttestationService = op1
    InitialEscrow = HubEscrow
    OwnerArgs <- ZeroOrOp1
    ServiceArgs = {}
    EscrowArgs = {}
    PayoutArgs <- ZeroPayout
    TierFlags <- BestEffortFlags
    Hashes = {}
    Pubkeys = {k1}
    FeeArgs = {}
    Uris = {u1}
    GracePeriods = {1}
    MaxVersion = 2
    MaxTime = 2
    MAX_UINT64 = 2
    MaxOpen = 1
SYMMETRY Alike
INVARIANTS IndexMatchesOperators KeyBookConsistent
PROPERTIES RundownInOrder IssuedKeysOnlyAge
