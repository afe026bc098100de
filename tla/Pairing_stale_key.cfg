\* A scooter that answers a forgotten key as if it were paired.
SPECIFICATION FairSpec
CONSTANTS
    Keys = {k1, k2, k3, k4}
    NoKey = NoKey
    NameKey = NameKey
    BleKey = BleKey
    Words = 2
    MaxWire = 2
    QueueSize = 2
    ClaimsPaired = TRUE
PROPERTIES
    ForgottenKeyRecovers
