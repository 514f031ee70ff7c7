SPECIFICATION HomeSpec
CONSTANTS
    Ports = {p1, p2}
    UserUrls = {u1}
    Keys = {k1}
    Builds = {b1, b2}
    MaxEdits = 1
    Crashes = TRUE
    EditWindow = FALSE
    None = None
    Homes = {d, h1}
    Defaults = {d}
    NoHome = NoHome
SYMMETRY Symmetry
INVARIANTS
    ManagedHasClaim
    ClaimHolds
PROPERTIES
    EditsSurvive
    CommandsRestore
    ClaimsAreOwn
