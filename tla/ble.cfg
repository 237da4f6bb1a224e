SPECIFICATION Spec
CONSTANTS
    MaxEpochs = 4
    TxRoom = 2
    Scratch = 2
    TextUnits = 1
    Call = 2
    Calls = 2
    FrameUnits = 2
    FrameRoom = 1
    MaxTexts = 1
    MaxDumps = 1
    MaxFrames = 2
INVARIANTS
    LinkIsSound
    FramesAreWhole
    DumpArrivesClean
CHECK_DEADLOCK FALSE
