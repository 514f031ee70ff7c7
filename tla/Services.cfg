SPECIFICATION ServicesSpec
CONSTANTS
    MaxSaves = 2
    MaxUserEdits = 1
    MaxExits = 1
    Overlap = FALSE
    high = high
    mid = mid
    low = low
    solo = solo
    old = old
    Requests = {a1}
    Refreshers = {f1}
    Tiers <- SomeTiers
    Solo = {solo}
    Family = fam
    MovedModels <- SomeMoved
    AgyLists <- SomeLists
    MaxLogins = 1
    NoAccount = NoAccount
    NoList = NoList
    zenFree = zenFree
    zenOther = zenOther
    zenBarred = zenBarred
    ZenCallers = {z1}
    ZenIds = {zenFree, zenOther, zenBarred}
    FreeNamed = {zenFree, zenBarred}
    Barred = {zenBarred}
    ZenLists <- SomeZenLists
    ZenMetas <- SomeZenMetas
    MaxZenChanges = 1
    NoZen = NoZen
    read = read
    spawn = spawn
    wait = wait
    waitFor = waitFor
    other = other
    Bases = {read, spawn, wait, waitFor, other}
    ReadBase = read
    Pairs <- SomePairs
    Declarable <- SomeNames
    MaxDeclared = 3
    MaxTools = 3
INVARIANTS
    SentIsModel
    ToolsRestored
    HomeAtRest
PROPERTIES
    MetadataKeeps
    FailedSaveRestores
CHECK_DEADLOCK FALSE
