\* Any options; answers are lost, late, doubled and out of order, and SIGINT
\* comes at any time.
SPECIFICATION Spec
CONSTANTS
    Jobs <- PingsAndArpings
    MaxInt = 3
    SizeMod = 64
    MaxProbes = 3
    MaxDups = 1
    MaxStrays = 1
    Forever = Forever
INVARIANTS
    TypeOK
    LossIsTrue
    Punctual
PROPERTIES
    CountEnds
