\* Every option with limits from impossible to ample; `echo` before the items.
SPECIFICATION XargsSpec
CONSTANTS
    Inputs <- UpToThree
    MaxArgs <- OneToFour
    MaxChars <- Limits
    InitialSize = 5
    SizeMax = 100
INVARIANTS
    XargsTypeOK
    NoGap
    LineFits
    OnceUnlessOverflow
PROPERTIES
    EndsWhenItFits
