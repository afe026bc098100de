SPECIFICATION FairSpec
CONSTANTS
    Intervals = {3, 30, 360}
    Default = 12
    Unset = Unset
    Never = Never
    MaxAge = 361
INVARIANT TypeOK
PROPERTIES LeftAlone PolledAgain
