SPECIFICATION Spec
CONSTANTS
    ImuReady = TRUE
    MissLimit = 2
    Commands = {"MotorConfig", "SwingStart", "LogPrepare", "LogStart"}
INVARIANTS
    NoFlashWriteDuringSwing
