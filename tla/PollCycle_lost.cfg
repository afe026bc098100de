\* The link is lost while a poll runs.
SPECIFICATION Spec
CONSTANTS
    sn = sn
    d1 = d1
    d2 = d2
    d3 = d3
    Static <- MCStatic
    Dynamic <- MCThree
    Narrow = {d1, d2}
    Unsupported = {}
    Good = {g1}
    Bad = {}
    None = None
    MaxTimeouts = 3
PROPERTIES
    LostLinkIsNoticed
