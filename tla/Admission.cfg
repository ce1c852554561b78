\* Four requests for two slots and two queue places.
SPECIFICATION FairSpec
CONSTANTS
    m1 = m1
    Models = {m1}
    Requests = {r1, r2, r3, r4}
    ModelOf <- AllLimited
    Concurrency <- TwoSlots
    RATIO_NUM = 1
    RATIO_DEN = 1
INVARIANTS SlotsBounded QueuePlacesAccounted SleepersHaveWaker
PROPERTY EveryRequestAnswered
CHECK_DEADLOCK FALSE
