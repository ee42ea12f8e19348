SPECIFICATION Spec
CONSTANTS
    Epoch = 9
    Period = 1
    Durations = {1, 3}
    MaxAlarms = 3
CHECK_DEADLOCK FALSE
PROPERTIES
    LastsItsDuration
