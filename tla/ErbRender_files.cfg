SPECIFICATION Spec
CONSTANTS
    simple = simple
    loop = loop
    a = a
    b = b
    file1 = file1
    file2 = file2
    Disabled = Disabled
    Failed = Failed
    Nothing = Nothing
    Unsupported = Unsupported
    Workers = {a, b}
    Names = {file1, file2}
    ContentsOf <- FileContents
    Native = {simple}
    Deprecated = {loop}
    Unset = {}
    MaxCalls = 2
CHECK_DEADLOCK FALSE
INVARIANTS
    MemorySafe
PROPERTIES
    Implements
    EveryCallReturns
