\* Polls and unloads interleave freely over three setups of the entry.
\* The entry may stay unloaded for good, and the system then stops.
SPECIFICATION Spec
CONSTANTS
    Links = {l1, l2, l3, l4}
    NoLink = NoLink
    MaxSetups = 3
SYMMETRY LinkSymmetry
CHECK_DEADLOCK FALSE
INVARIANTS TypeOK NoOrphanLinks ReadsVerifiedLink UnloadedIsClosed
