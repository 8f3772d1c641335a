SPECIFICATION Spec
CONSTANTS
    k1 = k1
    k2 = k2
    k3 = k3
    k4 = k4
    NoKey = NoKey
    Keys = {k1, k2, k3, k4}
    Catalogs <- AllCatalogs
    MaxDeps = 3
    MaxNotify = 3
    MaxResources = 4
CHECK_DEADLOCK FALSE
INVARIANTS
    TypeOK
    Accounted
    DeclaredOrder
    VisitsEveryEntryOnce
    DependencyOrder
    CycleDetection
    QueueFits
PROPERTIES
    Implements
    ReturnsHavingAppliedAll
