SPECIFICATION KeySpec
CONSTANTS
    Families = {zai, big}
    Logins = {u1, u2}
    Landed = {u2}
    KeyClients = {c1}
    MaxWrites = 3
    Nobody = Nobody
INVARIANTS
    KeyIsOwn
CHECK_DEADLOCK FALSE
