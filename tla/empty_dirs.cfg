SPECIFICATION Spec
CONSTANTS
    Threads = {t1}
    NoThread = NoThread
    NoNode = NoNode
    MaxGen = 1
    Kinds = {"callback", "scalar", "bytes"}
    Liberties = {}
    net = net
    list = list
    add = add
    connections = connections
    Names <- MCNames
    LongNames = {list}
    Paths <- OneFile
INVARIANTS
    NoEmptyDirs
