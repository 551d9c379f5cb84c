\* One mv to another file system, where calls may fail.
SPECIFICATION Spec
CONSTANTS
    a = a
    b = b
    c = c
    d = d
    e = e
    p = p
    q = q
    None = None
    Names = {a, b, c, d, e}
    Device <- OneApart
    Procs = {p}
    Scenarios <- AcrossDevices
    CallsFail = TRUE
INVARIANTS
    MoveKeepsData
