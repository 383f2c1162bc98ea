SPECIFICATION Spec
CONSTANTS
    Registers <- ProbeRange
    Samples <- TankSamples
    Currents <- FullScale
    Colours <- SomeColours
    Dims <- SomeDims
    Periods <- SomePeriods
INVARIANTS
    AnsweringIsConnected
