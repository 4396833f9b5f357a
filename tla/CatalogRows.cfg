SPECIFICATION Spec
CONSTANTS
    Instances = {c1}
    Paths <- MCPaths
    Bodies = {b1}
    Kinds = {"table", "function"}
    Environment = {"tx", "saveFail", "restart"}
    NoSpec = NoSpec
    NoRow = NoRow
    NoTx = NoTx
    Idle = Idle
    MaxTime = 2
    MaxRegs = 2
INVARIANTS RowsKnown
