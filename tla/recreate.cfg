SPECIFICATION Spec
CONSTANTS
    Threads = {t1, t2, t3}
    NoThread = NoThread
    NoNode = NoNode
    MaxGen = 2
    Kinds = {"callback", "scalar", "bytes"}
    Liberties = {"recreate"}
    net = net
    list = list
    add = add
    connections = connections
    Names <- MCNames
    LongNames = {}
    Paths <- OneFile
SYMMETRY MCSymmetry
PROPERTIES
    ReapsExclusively
CHECK_DEADLOCK FALSE
