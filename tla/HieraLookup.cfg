SPECIFICATION Spec
CONSTANTS
    Nodes <- TwoNodes
    Facts <- NodeFacts
    Roles = {"web"}
    Requests <- AllRequests
    Sites <- AllSites
    Modes = {"sequential", "parallel"}
    MaxRequests = 2
    MaxEdits = 1
    MaxFiles = 2
    None = None
INVARIANTS
    AnswersExplained
    OneVersion
PROPERTIES
    Terminates
