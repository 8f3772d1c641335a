SPECIFICATION Spec
CONSTANTS
    MaxLines = 6
    none = none
    Ids = {2, 3}
    MaxFaults = 2
    MaxEdits = 2
    parent <- MCparent
    confOf <- MCconfOf
    Scenarios <- MCScenarios
    Edits <- MCEdits
INVARIANTS
    RepairsRight
    NoopRight
    ServicesCurrent
PROPERTIES
    Converges
