SPECIFICATION FairSpec
CONSTANTS
    Scooters = {kick, max}
    Others = {lamp}
    Discoveries = {d1, d2}
    Manuals = {m1, m2}
    None = None
INVARIANTS TypeOK OneInvitation
PROPERTIES KeyIsKept FoundOnceAwake
