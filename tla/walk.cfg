SPECIFICATION Spec
CONSTANTS
    a = a
    b = b
    toolong = toolong
    Names <- MCNames
    LongNames = {toolong}
    Paths <- MCPaths
INVARIANTS
    LookupAgrees
    CreateAgrees
    UnregisterAgrees
    CreateThenUnregister
