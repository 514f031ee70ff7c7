SPECIFICATION ZcodeSpec
CONSTANTS
    anyFamily = zai
    anyLogin = u1
    Families = {zai, big}
    Logins = {u1, u2}
    Landed = {u2}
    KeyClients = {g1}
    MaxWrites = 3
    Nobody = Nobody
    PlanRoutes = {free}
    KeyRoutes = {k1}
    FreePlan = free
    ZcodeModels = {m1}
    Readers = {c1, c2}
    MaxMoves = 2
    Absent = Absent
    BrokenCache = BrokenCache
    ZcodeRequests = {q1, q2}
    SignKeys = {k1}
    MaxShakes = 2
    MaxRotations = 1
    MaxLegs = 1
    MaxEntries = 1
    Indexes = {0, 1}
    MaxContinued = 1
    MaxBlocks = 5
    NoReason = NoReason
SYMMETRY Symmetry
INVARIANTS
    KeyFollows
    RetryIsFresh
    AnswerCloses
PROPERTIES
    CatalogFollows
CHECK_DEADLOCK FALSE
