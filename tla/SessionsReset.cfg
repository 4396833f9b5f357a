SPECIFICATION Spec
CONSTANTS
    s1 = s1
    s2 = s2
    s3 = s3
    a = a
    b = b
    c = c
    x = x
    y = y
    Sessions = {s1, s3}
    Tables = {a, c}
    Columns = {x, y}
    Statements <- MCStatements
    Cancellable = {}
    Environment = {}
    None = None
    MaxStmts <- MCMaxStmts
INVARIANTS NamesStable
CHECK_DEADLOCK FALSE
