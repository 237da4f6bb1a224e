SPECIFICATION Spec
CONSTANTS
    RingRecords = 2
    FrameRecords = 1
    IndexModulus = 4
    SequenceModulus = 64
    MaxSessions = 2
    MaxSamples = 2
    MaxFrames = 4
    MaxDrops = 1
INVARIANTS
    QuietWhileActive
CHECK_DEADLOCK FALSE
