SPECIFICATION FairSpec
CONSTANTS
    Threads = {t1, t2}
    NoThread = NoThread
    NoNode = NoNode
    MaxGen = 2
    Kinds = {"callback", "scalar", "bytes"}
    Liberties = {}
    net = net
    list = list
    add = add
    connections = connections
    Names <- MCNames
    LongNames = {connections}
    Paths <- ThreeFiles
INVARIANTS
    HeldFileRegistered
PROPERTIES
    PfLockReleased
