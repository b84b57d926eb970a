SPECIFICATION AdcShutdownSpec
CONSTANTS
    Off = Off
    MaxTime = 2
    MaxLate = 1
    MaxCommands = 2
    Digital = {d}
    Pwm = {p}
    DefaultOn = {}
    Guarded = {d, p}
    MAX_DURATION = 2
    MoveCount = 2
    OnTicks = {0, 1}
    CycleTicks = {2}
    Leads = {1, 3}
    InputCount = 2
    SampleTicks = 1
    AnalogRest = 5
    AnalogCounts = {0, 2}
    PerReport = {1}
    Readings = {1, 2}
    MaxValue = 3
    RangeChecks = 1
    Button = {x}
    REPORTS = 2
    COUNTS = 4
    Retransmit = {0, 1}
    MaxStored = 5
    MaxInFlight = 2
    CfgBitTime = 4
    SendDelay = 1
    SyncLimit = 2
    Requests <- MCRequests
    ReplyBits = {0, 3}
    RestTicks = 2
    MonitorTicks = 12
    MonitorMax = 0
    AccelRest = 2
    FifoSize = 4
    BlockSize = 2
    BulkSize = 2
    AngleRest = 2
    AngleSlots = 2
    OVERFLOWS = 4
    Words <- MCWords
    Buffers <- MCBuffers
    SpiMode <- MCModes
    SpiMessages <- MCMessages
    ShutdownMsg <- MCShutdownMsg
    Answer <- MCAnswer
    OidType = {"t", "u"}
    ObjectSize <- MCObjectSize
    MoveSize <- MCMoveSize
    PinsLater = {"u"}
    OidCounts = {0, 2}
    MemorySize = 7
    MaxMoves = 2
    TURN = 6
    StatsTicks = 3
    StatsLate = 2
    PollTicks = 2
    SampleEvery = 3
    ThermoRest = 3
    MaxInvalid = 2
PROPERTIES ShutdownEnds
CHECK_DEADLOCK FALSE
