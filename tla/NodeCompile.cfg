SPECIFICATION Spec
CONSTANTS
    N = 3
    Sites <- AllSites
    Policy <- PolicyFile
    Modes = {TRUE, FALSE}
    Summaries = {TRUE, FALSE}
    MaxLost = 1
    Classes <- MCClasses
    BodyOf <- MCBodyOf
    ModuleOf <- MCModuleOf
    Missing = {gone}
    Incompatible = {moddb}
    Legacy <- MCLegacy
    Resources <- MCResources
    TypeOf <- MCTypeOf
    Builtin = {file}
    RubyTypes = {vcsrepo, cron}
    RefersTo <- MCRefersTo
    PolicyErrors = {repo}
    web = web
    db = db
    gone = gone
    modweb = modweb
    moddb = moddb
    file = file
    vcsrepo = vcsrepo
    cron = cron
    typo = typo
    conf = conf
    repo = repo
    fiel = fiel
    NoBlock = NoBlock
    NoProgram = NoProgram
    Nobody = Nobody
CHECK_DEADLOCK FALSE
INVARIANTS
    CachesSafe
    ReportRight
    TotalsAgree
PROPERTIES
    ReferencesChecked
    Terminates
