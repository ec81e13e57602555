SPECIFICATION Spec
CONSTANTS
    Digits <- MCDigits
    Zero = "0"
    Mark = "-"
    Other = "n"
    NUL = "nul"
    Code <- MCCode
    MaxPrinted = 2
    Precision <- MCPrecision
    MapSize = 3
    PodTmp = 4
    Threads = {t1, t2}
    NoCall = NoCall
    NoResult = NoResult
    FileTypes = {"char", "float", "string"}
    Bufs <- MCBufs
    Offsets <- MCOffsets
    Sizes = {2}
    Asked = {"int64", "double", "string"}
    Given <- MCGiven
    Setter = t1
    Behind <- MCBehind
    Liberties = {}
INVARIANTS
    TypeOK
    WithinMapping
    WithinPodtmp
PROPERTIES
    RegisterSpec
