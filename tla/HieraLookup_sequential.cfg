SPECIFICATION Spec
CONSTANTS
    Nodes <- TwoNodes
    Facts <- NodeFacts
    Roles = {"web"}
    Requests <- AllRequests
    Sites <- AllSites
    Modes = {"sequential"}
    MaxRequests = 2
    MaxEdits = 1
    MaxFiles = 2
    None = None
INVARIANTS
    SameAsAlone
