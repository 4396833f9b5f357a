SPECIFICATION FairSpec
CONSTANTS
    s1 = s1
    s2 = s2
    s3 = s3
    a = a
    b = b
    c = c
    x = x
    y = y
    Sessions = {s1, s2, s3}
    Tables = {a, b, c}
    Columns = {x, y}
    Statements <- MCStatements
    Cancellable = {s3}
    Environment = {}
    None = None
    MaxStmts <- MCMaxStmts
INVARIANTS TypeOK SpecWithinTable AlterApplied InfoComplete
PROPERTIES CallsReturn
CHECK_DEADLOCK FALSE
