SPECIFICATION DumpLiveSpec
CONSTANTS
    RamRecords = 3
    Batch = 2
    PumpEvery = 3
    ProbeEvery = 2
    Kinds = {"plain", "pump", "probe"}
    PartitionRecords = 4
    MaxRuns = 2
    MaxDropped = 1
INVARIANTS
    TypeOK
    CompleteLogIsExact
    AcceptedDumpIsOneRun
    UndisturbedDumpIsAccepted
PROPERTIES
    ImplementsRecordedLog
    FlashWorkConcludes
CHECK_DEADLOCK FALSE
