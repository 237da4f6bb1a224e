SPECIFICATION SupervisorSpec
CONSTANTS
    RxRoom = 2
    LineRoom = 2
    QueueDepth = 1
    EgressDepth = 1
    UartLengths = {1}
    BleLengths = {1, 3}
    MaxUart = 1
    MaxBle = 3
INVARIANTS
    LineInv
PROPERTY
    CommandsAreAnswered
CHECK_DEADLOCK FALSE
