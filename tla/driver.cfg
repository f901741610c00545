SPECIFICATION DriverSpec
CONSTANTS
    Scripts <- WireScripts
    MaxPush = 2
    RowCounts = {0, 2}
    MaxNotices = 1
    MaxData = 1
    Names = {1}
    WireFaults = 1
    MaxUpsets = 1
    InterruptPoints = {"hook"}
    CopyInTimeouts = FALSE
    Modes = {"allow", "prefer", "require", "disable"}
    ServerKinds <- Tempers
    MaxHosts = 2
    Keys = {"r", "p"}
    Reported = {"r"}
    MaxFrames = 2
    MaxWork = 1
    MaxSets = 2
    ChunkSize = 2
    MaxResult = 3
    MaxChunks = 2
    MaxOthers = 1
    MaxScroll = 4
    Offsets <- SeekOffsets
    Stream <- CopySource
    Receivers = {1, 2}
    Callers = {2}
    ALocks <- LockObjects
    MaxCount = 2
    MaxErrors = 1
    Conns = {1, 2}
    MaxNotifies = 2
    MaxChanges = 1
    MaxStarts = 3
    MaxCrashes = 2
    MaxCalls = 4
    DbChunk = 2
    DbSizes = {3}
    DbPortals = 2
    DbUnits = 1
    Bodies <- FrameBodies
    Pieces = {1, 4, 6}
    FrameLimit = 6
    FromServer <- ServerMsgs
    FromClient <- ClientMsgs
    Opening <- OpeningMsgs
    EnvSamples <- Envs
    BaseSamples <- Bases
    OptionSamples <- CommandLines
    ServiceFiles <- Services
    PassFiles <- Passes
    Super <- Superclasses
    CodeOf <- CodeAttribute
    PgCode <- PgCodes
    SqlStates <- SomeStates
    Arrays <- FilledArrays
INVARIANTS
    DriverTypeOK
    InStep
    NoStandoff
    
    OpenedAsAsked
    NothingLeftOpen
    CacheHonest
    CursorsDeliver
    
    WirePosition
    
    LocksMatchCounts
    EventsOnce
    FetchesDeliver
    ChangesAsTold
    BuffersAgree
    
    
    
    VectorsAgree

    
    
CHECK_DEADLOCK FALSE
