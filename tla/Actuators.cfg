SPECIFICATION Spec
CONSTANTS
    Commands = {"fridge", "aux"}
    Lights = {0, 2}
    Statuses = {0, 1}
    PwmLevels = {"low", "dim"}
    HeaterModes = {"OFF", "AUTO", "HOT_MANUAL"}
    MaxAttempts = 1
INVARIANTS
    TypeOK
    LightsAsKept
    CoolingIsKept
PROPERTIES
    PanelSpec
