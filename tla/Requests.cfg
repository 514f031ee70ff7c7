SPECIFICATION RequestsSpec
CONSTANTS
    Threads = {t1, t2}
    Turns = {u1, u2, u3}
    Connections = {c1}
    MaxTurns = 2
    None = None
    Names = {f1, f2, f3, f4, f5, f6}
    Sockets = {s1, s2}
    Limits = {1, 2}
    SweepInterval = 2
    NoFile = NoFile
SYMMETRY Symmetry
INVARIANTS
    DirectoryBounded
PROPERTIES
    SessionStays
    OfficialNotDiverted
    ImagesFollowTurn
    HeldFilesStay
CHECK_DEADLOCK FALSE
