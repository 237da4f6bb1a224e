SPECIFICATION Spec
CONSTANTS
    RingRecords = 2
    FrameRecords = 1
    IndexModulus = 8
    SequenceModulus = 64
    MaxSessions = 2
    MaxSamples = 3
    MaxFrames = 4
    MaxDrops = 1
INVARIANTS
    TraceInv
PROPERTIES
    TraceIsDelivered
CHECK_DEADLOCK FALSE
