SPECIFICATION TranslationSpec
CONSTANTS
    n1 = n1
    n2 = n2
    n3 = n3
    m1 = m1
    m2 = m2
    ToolNames <- SomeNames
    SafeNames <- SomeSafe
    MapName <- SomeMap
    CallIds = {i1, i2}
    Blank = Blank
    MaxMessages = 3
    MaxDeclared = 2
    AgyTools = {t1, t2, t3}
    AgyCustom = {t3}
    Signatures = {s1, s2}
    NoSig = NoSig
    MaxParts = 4
    Calls = {c1, c2}
    Contents = {}
    Reasons = {"tool_calls", "length"}
    MaxTexts = 1
    None = None
SYMMETRY Symmetry
INVARIANTS
    RequestConverted
    TurnReplayed
    TrueCompletion
    CustomInputWhole
CHECK_DEADLOCK FALSE
