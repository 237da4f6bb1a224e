SPECIFICATION Spec
CONSTANTS
    ImuReady = TRUE
    MissLimit = 2
    Commands = {"MotorVq", "MotorConfig", "MotorCalibrate", "Field", "Stop",
                "FaultClear", "TimingReset", "BalanceConfig", "BalanceStart", "BalanceStop",
                "AttitudeReset", "ImuMap", "ImuCalibrate", "SwingStart", "SwingAbort",
                "LogPrepare", "LogStart", "LogCritical", "LogStop"}
INVARIANTS
    FaultInhibitsMotor
    OneOwner
    FirstFaultIsTheCause
    DrivenOnGoodInputs
    LateTickStopsMotor
    FlashFollowsSwing
PROPERTIES
    OnlyANewStartEnergises
    RunSeesItsFault
