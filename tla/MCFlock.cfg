\* Two invocations with any of the command lines.
SPECIFICATION FairSpec
CONSTANTS
    Clients = {c1, c2}
    CommandLines <- Mixed
    LoseHolders = FALSE
    Daemons = TRUE
INVARIANTS
    SectionHoldsLock
    OptionsKept
PROPERTIES
    TakesTurns
    EveryoneFinishes
