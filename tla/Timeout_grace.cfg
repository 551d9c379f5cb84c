\* With --kill-after the status may come from a variable nobody set.
SPECIFICATION Spec
CONSTANTS
    Durations = {1}
    KillAfters = {1}
    Signals = {0, 15, 19}
    Strangers = {11, 18}
    Codes = {0, 3}
    IntMax = 2
INVARIANT PreservedExit
