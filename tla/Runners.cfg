SPECIFICATION RunnersSpec
CONSTANTS
    Sessions = {s1}
    Kinds = {"table", "view", "function", "tvf"}
    PermNames = {t}
    TempNames = {u}
    Bodies = {b1}
    Modes = {"default", "replace", "ifNotExists", "ifNotExistsAs"}
    NoObj = NoObj
    MaxStmts = 2
    MaxScripts = 1
    Suites <- MCSuites
    NoLine = NoLine
    NoConn = NoConn
    PipeLines = 2
    MaxAttempts = 3
INVARIANTS ReportsExact
PROPERTIES ScriptEnds FileEnds
CHECK_DEADLOCK FALSE
