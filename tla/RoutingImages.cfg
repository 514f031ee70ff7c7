SPECIFICATION Spec
CONSTANTS
    Threads = {t1}
    Turns = {u1, u2}
    Connections = {c1}
    MaxTurns = 1
    None = None
PROPERTY ImagesFollowSession
CHECK_DEADLOCK FALSE
