SPECIFICATION Spec
CONSTANTS
    Programs <- AllPrograms
    Stmts <- AllStmts
    Capacity = 16
    MaxTop = 3
    Statements = {"realize", "others"}
    undef = undef
INVARIANTS
    ScopesKept
    EveryBodyRuns
    ValuesArrive
PROPERTIES
    FirstDeclarationStands
    Terminates
