\* Scripts of all kinds, standard output a terminal or not.
SPECIFICATION Spec
CONSTANTS
    Scripts <- Mixed
    MaxStages = 4
    Capacity = 1
    BufferSize = 2
    CallsFail = TRUE
INVARIANTS
    TypeOK
    PipelinesInOrder
    OutputArrives
PROPERTIES
    EveryScriptEnds
