\* Two commands at once; every call may fail and every command be killed.
SPECIFICATION Spec
CONSTANTS
    a = a
    b = b
    c = c
    d = d
    e = e
    p = p
    q = q
    None = None
    Names = {a, b, c, d, e}
    Device <- OneApart
    Procs = {p, q}
    Scenarios <- Pairs
    CallsFail = TRUE
INVARIANTS
    TypeOK
    FilesSurvive
    ReplacedAtOnce
    SuccessIsComplete
