CONSTANTS
    t1 = t1
    t2 = t2
    a = a
    b = b
    Terminals = {t1, t2}
    Dirs = {a, b}
    Ops = {"add", "remove", "edit", "list"}
    Mishaps = TRUE
    None = None
    MaxVisits = 2
    MaxRuns = 2
SPECIFICATION Spec
INVARIANTS
    TypeOK
    RankWithinVisits
PROPERTIES
    KeepsVisits
