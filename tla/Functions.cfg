SPECIFICATION Spec
CONSTANTS
  PerHour = 72
  OpenBefore = 6
  OpenAfter = 6
  Hardware = 3
  MinParallelFill = 4
  MinParallelFinalize = 3
  KeyLength = 10
  Burst = 4
  FeeCycle = 11
  BlockBytes = 3
  OutBytes = 8
  QwordsInBlock = 4
  WordRange = 64
  DefaultFirstBlocks = FALSE
  Responses <- MCResponses
  Devices <- MCDevices
  Days <- MCDays
  Seconds <- MCSeconds
  Instants <- MCInstants
  Launches <- MCLaunches
  DeviceLists <- MCDeviceLists
  Segments <- MCSegments
  Grids <- MCGrids
  Pauses <- MCPauses
  Envelopes <- Traffic
  capacity = 2
  MAX_LIFETIME = 4
  CLOCK_SKEW = 1
  Addresses = {"A", "B", "C", "0x0"}
  NullAddress = "0x0"
  Binds = {"any", "local"}
  DefaultBind = "any"
  DefaultJournal = "journal"
  MaxPort = 100
  DefaultPort = 42
  MaxKib = 20
  MaxFee = 1000
  MaxQuiesce = 60
  DefaultQuiesce = 5
  DefaultCpuMax = 10
  DefaultStep = 2
  DefaultMax = 8
  LogicalThreads = 4
  StepKib = 2
  MaxMarginKib = 5
  Period = 3
  EvalInterval = 2
  MaxTime = 7
  MaxObeyed = 5
  MaxBatch = 4
  MaxClock = 9
INVARIANTS
  PendingIsOutage
  VerdictHasItsReason
  TimeIsExact
  AccountsBalance
  KernelIsArgon2id
  OnlyVerifiedPathsMine
  TwiceOnlyAtTheEdge
  RelaunchIsStable
  HeadroomCoversRise
  LaneIsArgon2id
CHECK_DEADLOCK FALSE
