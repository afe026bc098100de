\* A scooter without every other register, the others of which may stay silent,
\* fail to decode or lose the link until the scooter stays awake and in range.
SPECIFICATION FairSpec
CONSTANTS
    sn = sn
    d1 = d1
    d2 = d2
    d3 = d3
    Static <- MCStatic
    Dynamic <- MCThree
    Narrow = {d1, d2}
    Unsupported = {d1, d3}
    Good = {g1, g2}
    Bad = {b1}
    None = None
    MaxTimeouts = 2
INVARIANTS TypeOK FailuresAreCurrent InfoIsReadPerLink
PROPERTIES AbortsOnlyWhenQuiet SupportedRegistersAppear
