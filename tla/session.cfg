SPECIFICATION Spec
CONSTANTS
    Vertices = {"A", "B", "C"}
    Targets = 4
    ProbeTime = 2
    MaxTime = 16
    TurnConfirm = 1
    MinHalfCycle = 2
    SwingSteps = {1, 2}
    StableDelay = 3
    VqLimit = 2
    Ramp = 1
    LongGap = 3
    StandupSteps = {1, 3}
INVARIANTS
    TypeOK
    ScheduleIsBalanced
    StatusIsEarned
    CommandIsRamped
PROPERTIES
    ProbesAreSeparated
CHECK_DEADLOCK FALSE
