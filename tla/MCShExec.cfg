SPECIFICATION Spec
CONSTANTS
    Nodes <- MCNodes
    Scripts <- MCScripts
    Statuses = {0, 1, 2}
    MaxAnswers = 7
INVARIANTS
    TypeOK
    OnlyOpenGoOn
    NoFilesLeft
    AsReference
