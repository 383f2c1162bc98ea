SPECIFICATION Spec
CONSTANTS
    CoolDowns = {3}
    MaxDepth = 4
    WatchdogMax = 2
PROPERTIES
    TimerReturns
CHECK_DEADLOCK FALSE
