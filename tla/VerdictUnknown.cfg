CONSTANTS
    Axis = {"predictive", "incremental", "tradable"}
    Steps = 1
CHECK_DEADLOCK FALSE
SPECIFICATION Spec
PROPERTIES UnknownNeverConvicts
