SPECIFICATION Spec
CONSTANTS
    Instances = {c1}
    Paths <- MCPaths
    Bodies = {b1}
    Kinds = {"table", "function"}
    Environment = {"tx", "rollback", "cancel", "saveFail", "dropFail", "restart"}
    NoSpec = NoSpec
    NoRow = NoRow
    NoTx = NoTx
    Idle = Idle
    MaxTime = 1
    MaxRegs = 3
INVARIANTS TypeOK IndexConsistent FirstRegistered
PROPERTIES NamesKeepMeaning
