\* Short, empty, lost and late answers; the scooter's words change meanwhile.
SPECIFICATION FairSpec
CONSTANTS
    wide = wide
    narrow = narrow
    NoRegister = NoRegister
    Registers <- MCRegisters
    First <- MCFirst
    Words <- MCWords
    Addresses <- MCAddresses
    Values = {0, 1}
    MaxHeld = 2
    MaxUnderway = 1
INVARIANTS TypeOK NothingLeftBehind
PROPERTIES RegularSpec EveryReadEnds
