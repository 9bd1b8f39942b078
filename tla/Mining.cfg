\* Two mining streams of one device under every change of difficulty, margin,
\* pause and identity, with failing allocations and batches.
SPECIFICATION FairSpec
CONSTANTS
    s1 = s1
    s2 = s2
    own = own
    lease = lease
    Nobody = Nobody
    Streams <- MCStreams
    Salts <- MCSalts
    Costs <- MCCosts
    NetworkCosts <- MCNetworkCosts
    Margins <- MCMargins
    MaxCost = 1000
    DeviceMemory = 100
    DeviceHeadroom = 4
    DefaultReserve = 2
    HipReserveFloor = 3
    Hip = TRUE
    ExplicitBatch = 0
    InitialDifficulty = 8
    InitialMargin = 0
    MaxMoves = 2
CHECK_DEADLOCK FALSE
INVARIANTS
    FindsAreGenuine
    PoolsAreSafe
PROPERTIES
    UnitsFollowDifficulty
