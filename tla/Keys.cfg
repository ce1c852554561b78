\* Files of an older build or none, two key versions, two registrations, two troubles.
SPECIFICATION Spec
CONSTANTS
    MaxSeeds = 2
    NoFile = NoFile
    Torn = Torn
    NoKey = NoKey
    NoIdentity = NoIdentity
    NoPeer = NoPeer
    NoTx = NoTx
    LegacyStart = TRUE
    MaxVersion = 2
    MaxRegistrations = 2
    MaxRetries = 2
    MaxTroubles = 2
INVARIANTS PublishedKeysRecoverable HeadlineOnDisk
PROPERTY IdentityNeverReplaced
CHECK_DEADLOCK FALSE
