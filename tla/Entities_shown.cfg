SPECIFICATION Spec
CONSTANTS
    Fills <- MCFills
    Payload <- MCPayload
    Losses <- MCLosses
    HardwareIds = {125, 141}
    DEFAULT_HARDWARE_ID = 141
    None = None
INVARIANTS TypeOK ShownOnceReported RawExplainsValue
PROPERTY IdentityIsKept
