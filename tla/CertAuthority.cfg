SPECIFICATION Spec
CONSTANTS
    auto = auto
    manual = manual
    Agents <- TwoAgents
    Autosigned = {auto}
    Server = Server
    Cli = Cli
    Missing = Missing
    Torn = Torn
    None = None
    Concurrent = FALSE
    LoseSerial = FALSE
    MaxFaults = 2
    MaxCommands = 2
CHECK_DEADLOCK FALSE
INVARIANTS
    CertificatesSafe
PROPERTIES
    EventuallyCertified
