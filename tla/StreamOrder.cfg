SPECIFICATION Spec
CONSTANTS
    Calls = {c1}
    Contents = {"text"}
    Reasons = {"length"}
    MaxTexts = 1
    None = None
PROPERTIES
    TerminalLast
CHECK_DEADLOCK FALSE
