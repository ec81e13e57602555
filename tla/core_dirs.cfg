SPECIFICATION Spec
CONSTANTS
    Threads = {t1, t2}
    NoThread = NoThread
    NoNode = NoNode
    MaxGen = 2
    Kinds = {"callback", "scalar"}
    Liberties = {"childOfFile", "unlinkDir"}
    net = net
    list = list
    add = add
    connections = connections
    Names <- MCNames
    LongNames = {connections}
    Paths <- ThreeFiles
SYMMETRY MCSymmetry
INVARIANTS
    TreeWellFormed
