CONSTANTS
    Producers = {d1, d2}
    Consumer = main
    Events = {h1, h2}
    MaxPushes = 4
SPECIFICATION Spec
INVARIANTS MutualExclusion NothingLost
PROPERTY IsFifoChannel
