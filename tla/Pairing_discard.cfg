\* A stored key is discarded although the scooter holds it.
SPECIFICATION Spec
CONSTANTS
    Keys = {k1, k2, k3, k4}
    NoKey = NoKey
    NameKey = NameKey
    BleKey = BleKey
    Words = 2
    MaxWire = 2
    QueueSize = 2
    ClaimsPaired = FALSE
SYMMETRY KeySymmetry
PROPERTIES
    DiscardsOnlyForgottenKeys
