SPECIFICATION Spec
CONSTANTS
    Nodes = {web, db}
    Resources = {hostA, hostB}
    web = web
    db = db
    hostA = hostA
    hostB = hostB
    Manifests <- Sites
    Changing = {web}
    MaxFacts = 1
    MaxFaults = 2
    none = none
INVARIANTS
    CatalogsRight
    StoreAhead
PROPERTIES
    ExportsArrive
