SPECIFICATION Spec
CONSTANTS
    Facts = {fact}
    Providers = {prov1}
    typeFile = type
    Direct = {helper}
    fact = fact
    prov1 = prov1
    type = type
    Copies <- NoneSomeAll
    Deployed = {fact, helper}
    MaxVersion = 2
    MaxFaults = 2
    none = none
    torn = torn
INVARIANTS
    PluginsWhole
PROPERTIES
    PluginsArrive
    RunsSettle
