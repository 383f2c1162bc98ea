CONSTANTS
    RomBits = 4
    FamilyBits = 2
    Roms <- MCRoms
    Genuine <- MCGenuine
    MaxFaults = 2
    TempProbes <- MCTempProbes
    Resolutions = {9, 10, 12}
SPECIFICATION FairSpec
INVARIANTS TypeOK EachDeviceOnce ConversionsComplete
PROPERTIES ProbesAreAsked
