\* Every order of the deadline, the command's end and other processes' signals.
SPECIFICATION Spec
CONSTANTS
    Durations = {0, 1, 2}
    KillAfters = {0, 1}
    Signals = {0, 15, 19}
    Strangers = {11, 18}
    Codes = {0, 3}
    IntMax = 2
INVARIANTS
    TypeOK
    OwnChildOnly
    NeverEarly
    StatusTells
PROPERTIES
    TimeoutEnds
