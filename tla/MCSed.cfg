\* Any two commands on one file, or files edited in place with mishaps.
SPECIFICATION SedSpec
CONSTANTS
    a = a
    b = b
    c = c
    t = t
    file = file
    other = other
    notes = notes
    saved = saved
    Nil = Nil
    Texts = {a, b, c, t}
    FileNames = {file, other, notes, saved}
    BackupName <- BackupOne
    Jobs <- MCJobs
INVARIANTS
    SedTypeOK
    AsMeant
    EditKept
