SPECIFICATION Spec
CONSTANTS
    Readings = {0, 15, 25, 26, 30, 70}
    MaxTemp = 70
    Threshold = 10
    MaxAttempts = 3
    FanAt = 1
    GlowOffAt = 2
    TempAt = 3
    LastPulse = 5
    StartTicks = 7
    WarmTicks = 2
    CoolDowns = {0, 3}
    MaxDepth = 4
INVARIANTS
    TypeOK
    FuelIsSafe
    CabinHeatIsProved
    TimerNeverLights
PROPERTIES
    ControllerReturns
CHECK_DEADLOCK FALSE
