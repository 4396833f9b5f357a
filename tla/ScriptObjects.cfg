SPECIFICATION Spec
CONSTANTS
    Sessions = {s1}
    Kinds = {"table", "view"}
    PermNames = {t}
    TempNames = {u}
    Bodies = {b1, b2}
    Modes = {"default", "replace", "ifNotExistsAs"}
    NoObj = NoObj
    MaxStmts = 3
    MaxScripts = 2
SYMMETRY MCSymmetry
INVARIANTS TypeOK CleanExit ReplayExact StoresAgree PersistentSurvives TempScoped
CHECK_DEADLOCK FALSE
