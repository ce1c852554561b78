\* Two requests, two lost attempts or websockets, delays at their limits.
SPECIFICATION Spec
CONSTANTS
    Rids = {r1, r2}
    u1 = u1
    u2 = u2
    Users = {u1, u2}
    NoUser = NoUser
    ChainSession <- Sessions
    RouterConfigs <- EdgeConfigs
    MaxChunks = 1
    MaxDrops = 2
INVARIANTS AnswersWellFormed MintedBearersOpen DelayBounded
PROPERTIES RequestsAnswered TunnelComesBack
CHECK_DEADLOCK FALSE
