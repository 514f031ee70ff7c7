SPECIFICATION AnswersSpec
CONSTANTS
    Calls = {c1}
    Contents = {"text", "refusal"}
    Reasons = {"tool_calls", "length", "other"}
    MaxTexts = 2
    None = None
    Budget = 4
    DelayCap = 2
    MinDelay = 1
    IdleLimit = 3
    Hints <- SomeHints
    CliIds <- OneCliId
    DesktopIds <- OneDesktopId
    Askers <- OneAsker
    Forcers <- OneForcer
    MaxChanges = 2
    NoLogin = NoLogin
    BadLogin = BadLogin
    NoCatalog = NoCatalog
    i1 = i1
    i2 = i2
    a1 = a1
    f1 = f1
INVARIANTS
    AnswerWhole
    QoderServes
PROPERTIES
    StreamOrder
    AnswersEnd
CHECK_DEADLOCK FALSE
