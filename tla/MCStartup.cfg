SPECIFICATION Spec
CONSTANTS
    Apis = {a1, a2, a3}
    Workers = {w1}
    Statements <- TwoFiles
    RunsStatement = 2
    Configs <- AnyConfig
    MaxCrashes = 2
INVARIANTS
    TypeOK
    MarkedIsComplete
    ReadyHasSchema
PROPERTIES
    AllStart
