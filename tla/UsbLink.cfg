\* Two addresses and one repetition: a pool that fills, a retry that is the last.
CONSTANTS
    PoolSize = 3
    Retries = 1
SPECIFICATION FairSpec
INVARIANTS TypeOK AddressIsHeld ReadyIsUsable
PROPERTIES NoAddressLost LinkIsSession ConfiguringEnds DepartureIsNoticed
