SPECIFICATION Spec
CONSTANTS
    Sensors = {"encoder", "imu"}
    IrqSensors = {"imu"}
INVARIANTS
    GenerationsNeverMix
PROPERTIES
    JoinIsBounded
    ResynchronisesAfterStall
