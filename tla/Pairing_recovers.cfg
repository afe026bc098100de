\* Every interleaving of faults, restarts and polls, until the scooter stays
\* awake and in range for good.
SPECIFICATION FairSpec
CONSTANTS
    Keys = {k1, k2, k3, k4}
    NoKey = NoKey
    NameKey = NameKey
    BleKey = BleKey
    Words = 2
    MaxWire = 2
    QueueSize = 2
    ClaimsPaired = FALSE
INVARIANTS TypeOK SessionAgreement LiveLinkIsPersisted IdleLinkIsHealthy
PROPERTIES PairedSpec PersistOnlyAgreedKey AskedOnlyWhenUnknown EventuallyPaired
