\* Start, run and teardown of the process with every early return, lost finds
\* on every thread, and CPU workers that fail.
SPECIFICATION FairSpec
CONSTANTS
    g1 = g1
    c1 = c1
    c2 = c2
    Drain = Drain
    Devices <- MCDevices
    Workers <- MCWorkers
    NetworkCosts <- MCNetworkCosts
    Configs <- MCConfigs
    MinCpuCost = 8
    MaxCpuCost = 8
    InitialDifficulty = 16
    MaxMoves = 1
    MaxLosses = 1
INVARIANTS
    ConsumersOutliveProducers
    ExitCodeTellsDurability
PROPERTIES
    ShutdownCompletes
