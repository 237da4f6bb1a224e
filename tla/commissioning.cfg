SPECIFICATION CommissioningSpec
CONSTANTS
    MaxJobs = 3
    MaxStops = 2
INVARIANTS
    StopIsReported
PROPERTIES
    StopIsFinal
    ResultsArrive
CHECK_DEADLOCK FALSE
