SPECIFICATION Spec
CONSTANTS
    CoolDowns = {0, 3}
    MaxDepth = 4
    WatchdogMax = 2
INVARIANTS
    TypeOK
    TimerTelemetryIntact
    HeatingDoesNotNest
PROPERTIES
    HeatingReturns
CHECK_DEADLOCK FALSE
