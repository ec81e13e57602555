SPECIFICATION FairSpec
CONSTANTS
    Owner = Owner
    Handler = Handler
    Others = {o1}
    NoThread = NoThread
    MaxThreads = 2
    Liberties = {"dtorAfterJoin"}
PROPERTIES
    DtorEnds
