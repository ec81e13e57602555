SPECIFICATION Spec
CONSTANTS
    Threads = {t1, t2, t3}
    NoThread = NoThread
    NoNode = NoNode
    MaxGen = 3
    Kinds = {"callback", "scalar", "bytes"}
    Liberties = {}
    net = net
    list = list
    add = add
    connections = connections
    Names <- MCNames
    LongNames = {}
    Paths <- OneFile
SYMMETRY MCSymmetry
INVARIANTS
    TypeOK
    AccessCounted
    LockHeldAsBelieved
    HeldFileRegistered
    PendingReaped
    OpenNotPending
    NoEmptyDirs
PROPERTIES
    PinsSpec
