SPECIFICATION Spec
CONSTANTS
    Values = {v, w}
    Default = default
    MaxLines = 2
    MaxEdits = 1
CHECK_DEADLOCK FALSE
PROPERTIES
    ReloadIsRestart
