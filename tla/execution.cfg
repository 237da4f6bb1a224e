SPECIFICATION Spec
CONSTANTS
    Timeout = 2
    ClockModulus = 16
    MaxObservationAge = 1
    Samples = {"good", "wire_error", "not_finite", "stuck"}
    MaxPublishes = 2
    MaxTime = 5
    LastIssue = 2
INVARIANTS
    EnergisedOnlyOnAuthority
    AuthorityIsRecent
    StopIsBinding
    TimeoutIsOldOrAhead
PROPERTIES
    SilenceStopsMotor
CHECK_DEADLOCK FALSE
