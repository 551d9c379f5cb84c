\* One stem, two users with a command each: at the same time, or in turn
\* and with mishaps.
SPECIFICATION Spec
CONSTANTS
    u1 = u1
    u2 = u2
    base = base
    a = a
    b = b
    Users = {u1, u2}
    Stems = {base}
    Names <- OneStem
    Letters = {a, b}
    Hole = Hole
    Wrap = 5
    Scenes <- TwoUsers
INVARIANTS
    TypeOK
    Survives
    SafeToRemove
PROPERTIES
    Ends
