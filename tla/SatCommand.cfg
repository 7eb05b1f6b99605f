SPECIFICATION CommandSpec
CONSTANTS
    Numbers <- NumberLinesRead
    Declared <- Counts
    MaxLines = 4
    MaxFiles = 2
CHECK_DEADLOCK FALSE
INVARIANTS CommandTypeOK ModelsWellFormed ReadsEveryClause CountsDeclared AnswersTheFile
PROPERTY CommandEnds
