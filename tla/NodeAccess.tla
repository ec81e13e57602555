----------------------------- MODULE NodeAccess -----------------------------
(***************************************************************************)
(* How the threads of a procfuse process share the nodes of the path tree: *)
(* libfuse's workers serving requests and the application's own threads    *)
(* calling the library.  pf->lock guards the tree, a read-write lock per   *)
(* node guards the node, and concurrent_access_counter with                *)
(* pendingforunlink defer the removal of a node somebody is using.         *)
(*                                                                         *)
(* A node is named by its path and a generation: two nodes that live under *)
(* the same path at different times are different nodes, so a thread that  *)
(* still holds the older one is told apart from a user of the newer one.   *)
(* Nodes never move and are never freed (procfuse_freeHashNode returns at  *)
(* once), so a removed node stays usable by the threads that hold it.      *)
(***************************************************************************)
EXTENDS NodeTree, Integers, FiniteSets

CONSTANTS Threads,     \* the threads that call into procfuse.c
          NoThread,
          NoNode,      \* a NULL node pointer
          MaxGen,      \* bound: nodes that exist at once under one path
          Kinds,       \* the types of the files the application creates
          Liberties    \* what the application does although it should not

\* The code refuses none of these calls; "recreate" is a create on a path that
\* is present, "childOfFile" a create below a file, "unlinkDir" an unlink of a
\* directory.
AllLiberties == {"recreate", "childOfFile", "unlinkDir"}

\* "callback": made by procfuse_create (or only as a directory), "scalar": a
\* number, "bytes": a character or a string.
Types == {"callback", "scalar", "bytes"}

Nodes == Paths \X (1..MaxGen)

ASSUME AccessAssumption ==
    /\ IsFiniteSet(Threads)
    /\ NoThread \notin Threads
    /\ MaxGen \in Nat \ {0}
    /\ NoNode \notin Nodes
    /\ Kinds \subseteq Types
    /\ Liberties \subseteq AllLiberties

VARIABLES
    crashed,  \* the process died dereferencing NULL
    pflock,   \* the owner of pf->lock
    tree,     \* per path the generation of the node present there, or 0
    node,     \* the contents of the nodes
    pc,       \* where each thread is
    at,       \* the node a thread has a pointer to
    mode,     \* how the thread holds the node's lock
    todo,     \* the lock modes its handler still goes through
    granted   \* the thread serves an open that was granted

vars == <<crashed, pflock, tree, node, pc, at, mode, todo, granted>>

-----------------------------------------------------------------------------
(* Nodes and the tree                                                      *)

NodeRecord == [subdirs : BOOLEAN, transactions : BOOLEAN, type : Types,
               pendingforunlink : BOOLEAN, concurrent_access_counter : Int,
               writer : Threads \cup {NoThread}, readers : Int]

\* What calloc in procfuse_getNextNode returns.
Blank == [subdirs |-> FALSE, transactions |-> FALSE, type |-> "callback",
          pendingforunlink |-> FALSE, concurrent_access_counter |-> 0,
          writer |-> NoThread, readers |-> 0]

InTree(n) == tree[n[1]] = n[2]

Present == {p \in Paths : tree[p] # 0}
Dirs == {p \in Present : node[<<p, tree[p]>>].subdirs}

\* A node that is neither in the tree nor held by a thread can never be read
\* again; it counts as blank memory from then on.
Swept(recs, tr, holds) ==
    [n \in Nodes |-> IF tr[n[1]] = n[2] \/ \E t \in Threads : holds[t] = n
                     THEN recs[n] ELSE Blank]

\* The tree without the paths that unregistering p removes.
Pruned(p) ==
    LET left == Unregistered(Present, Dirs, p)
    IN  [q \in Paths |-> IF q \in left THEN tree[q] ELSE 0]

-----------------------------------------------------------------------------
(* The read-write lock of a node (glibc, readers preferred)                *)

CanWriteAmongReaders(r) == r.writer = NoThread   \* mutant of CanWrite

CanWrite(r) == r.writer = NoThread /\ r.readers = 0
CanRead(r)  == r.writer = NoThread

CanLock(r, m) == IF m = "W" THEN CanWrite(r) ELSE CanRead(r)

Locked(r, m, t) ==
    IF m = "W" THEN [r EXCEPT !.writer = t] ELSE [r EXCEPT !.readers = @ + 1]

UnlockedReadersStay(r, t) ==   \* mutant of Unlocked: a read lock is leaked
    IF r.writer = t THEN [r EXCEPT !.writer = NoThread] ELSE r

\* pthread_rwlock_unlock decides by the owner field which side it releases.
Unlocked(r, t) ==
    IF r.writer = t THEN [r EXCEPT !.writer = NoThread]
                    ELSE [r EXCEPT !.readers = @ - 1]

\* The fields of a node that change under its lock.
RecountedUpOnly(r, d) ==   \* mutant of Recounted: no decrement
    [r EXCEPT !.concurrent_access_counter = IF d > 0 THEN @ + d ELSE @]

Recounted(r, d) == [r EXCEPT !.concurrent_access_counter = @ + d]
Marked(r)       == [r EXCEPT !.pendingforunlink = TRUE]

-----------------------------------------------------------------------------
(* The handlers, by the lock modes they go through while they hold a node. *)
(* The flags a file was created with are not kept: a handler finds any of  *)
(* them.                                                                   *)

\* Flags are sets of bits.  Has is the test (flags & mask) == mask, which
\* O_RDONLY passes always: it has no bits.
O_RDONLY == {}
O_WRONLY == {"wronly"}
O_RDWR   == {"rdwr"}
O_TRUNC  == {"trunc"}

Flags == {O_RDONLY, O_WRONLY, O_RDWR, O_RDWR \cup O_TRUNC}

Has(flags, mask) == mask \subseteq flags

\* An upgrade and the downgrade that ends it.  Each unlocks before it locks.
UpDown == <<"W", "R">>

\* A write to a number reads the old text through procfuse_onFuseReadPOD, whose
\* downgrade leaves it with the read lock only.
NestedUpDown == <<"W", "R", "W", "W", "R", "R">>

\* procfuse_onFuseOpenPOD would register a transaction under the write lock.
OpenScript(r, flags) ==
    IF Has(flags, O_RDONLY) \/ r.type = "bytes" THEN {<<>>} ELSE {UpDown}

ReadScript(flags) ==
    IF Has(flags, O_RDWR) \/ Has(flags, O_RDONLY) THEN {UpDown} ELSE {<<>>}

\* A write of nothing returns early; the first UpDown looks for a transaction;
\* the second one fails on the offset, or writes bytes.
WriteScript(r, flags) ==
    IF Has(flags, O_RDWR) \/ Has(flags, O_WRONLY)
    THEN {<<>>, UpDown \o UpDown} \cup {s \in {NestedUpDown} : r.type = "scalar"}
    ELSE {<<>>}

\* One UpDown when onModify is absent or refuses.
TruncateScript(flags) ==
    IF Has(flags, O_RDWR) \/ Has(flags, O_WRONLY) \/ Has(flags, O_TRUNC)
    THEN {UpDown, UpDown \o UpDown}
    ELSE {<<>>}

\* The test here is (flags & O_RDWR) == O_RDONLY: no bit of O_RDWR.
ReleaseScript(r, flags) ==
    IF flags \cap O_RDWR = O_RDONLY \/ r.type = "bytes" THEN {<<>>} ELSE {UpDown}

\* exists, isPOD, chmod, chown, utime, utimes, the POD accessors, getattr and
\* readdir only look at the node or set plain fields of it under the read lock.
ProbeScript == {<<>>}

\* What the procfuse_FUSE* functions and the application's calls do with the
\* node they have.  A directory has no handlers, and a callback of the
\* application takes no lock of the node.
Ops == {"probe", "open", "read", "write", "truncate", "release"}

Handler(op, r, flags) ==
    CASE op = "probe"    -> ProbeScript
      [] op = "open"     -> OpenScript(r, flags)
      [] op = "read"     -> ReadScript(flags)
      [] op = "write"    -> WriteScript(r, flags)
      [] op = "truncate" -> TruncateScript(flags)
      [] op = "release"  -> ReleaseScript(r, flags)

Script(op, r) ==
    IF r.subdirs \/ r.type = "callback" THEN {<<>>}
    ELSE UNION {Handler(op, r, flags) : flags \in Flags}

OpenGrantedUnmarked(op, r) == op = "open" /\ ~r.subdirs   \* mutant of OpenGranted

\* procfuse_FUSEopen refuses directories and files waiting to be unlinked.  (It
\* also refuses flags the file has no function for; that is left out, and an
\* open counts as granted then.)
OpenGranted(op, r) == op = "open" /\ ~r.subdirs /\ ~r.pendingforunlink

-----------------------------------------------------------------------------
Init ==
    /\ crashed = FALSE
    /\ pflock = NoThread
    /\ tree = [p \in Paths |-> 0]
    /\ node = [n \in Nodes |-> Blank]
    /\ pc = [t \in Threads |-> "idle"]
    /\ at = [t \in Threads |-> NoNode]
    /\ mode = [t \in Threads |-> "none"]
    /\ todo = [t \in Threads |-> <<>>]
    /\ granted = [t \in Threads |-> FALSE]

\* A call that needs pf->lock starts.  (A call refused because the lookup finds
\* nothing changes no state.)
Enters(t) == ~crashed /\ pc[t] = "idle" /\ pflock = NoThread

Goes(t, label) == pc' = [pc EXCEPT ![t] = label]

(* procfuse_acquireAccessToNode: lookup under pf->lock ...                 *)
Acquire(t, p) ==
    /\ Enters(t)
    /\ Found(Present, Dirs, p)
    /\ pflock' = t
    /\ at' = [at EXCEPT ![t] = <<Target(Dirs, p), tree[Target(Dirs, p)]>>]
    /\ Goes(t, "counting")
    /\ UNCHANGED <<crashed, tree, node, mode, todo, granted>>

(* ... or the process dies in the lookup, of an acquire or of an unlink.   *)
Fault(t, p) ==
    /\ Enters(t)
    /\ Faults(Present, Dirs, p)
    /\ crashed' = TRUE
    /\ UNCHANGED <<pflock, tree, node, pc, at, mode, todo, granted>>

(* ... count the access under the write lock, pf->lock still held ...      *)
Count(t) ==
    /\ ~crashed /\ pc[t] = "counting"
    /\ CanWrite(node[at[t]])
    /\ node' = [node EXCEPT ![at[t]] = Recounted(@, 1)]
    /\ Goes(t, "pinning")
    /\ UNCHANGED <<crashed, pflock, tree, at, mode, todo, granted>>

(* ... take the read lock, release pf->lock; the handler reads the node    *)
(* and decides what it will do.                                            *)
Pin(t) ==
    /\ ~crashed /\ pc[t] = "pinning"
    /\ CanRead(node[at[t]])
    /\ node' = [node EXCEPT ![at[t]] = Locked(@, "R", t)]
    /\ mode' = [mode EXCEPT ![t] = "R"]
    /\ pflock' = NoThread
    /\ \E op \in Ops : \E s \in Script(op, node[at[t]]) :
           /\ todo' = [todo EXCEPT ![t] = s]
           /\ granted' = [granted EXCEPT ![t] = OpenGranted(op, node[at[t]])]
    /\ Goes(t, "held")
    /\ UNCHANGED <<crashed, tree, at>>

(* Upgrade or downgrade, first half: the lock is let go.                   *)
Drop(t) ==
    /\ ~crashed /\ pc[t] = "held" /\ todo[t] # <<>>
    /\ node' = [node EXCEPT ![at[t]] = Unlocked(@, t)]
    /\ mode' = [mode EXCEPT ![t] = "none"]
    /\ Goes(t, "gap")
    /\ UNCHANGED <<crashed, pflock, tree, at, todo, granted>>

(* Upgrade or downgrade, second half: the lock is taken in the other mode. *)
Retake(t) ==
    /\ ~crashed /\ pc[t] = "gap"
    /\ CanLock(node[at[t]], Head(todo[t]))
    /\ node' = [node EXCEPT ![at[t]] = Locked(@, Head(todo[t]), t)]
    /\ mode' = [mode EXCEPT ![t] = Head(todo[t])]
    /\ todo' = [todo EXCEPT ![t] = Tail(@)]
    /\ Goes(t, "held")
    /\ UNCHANGED <<crashed, pflock, tree, at, granted>>

(* procfuse_releaseAccessToNode: the read lock goes first ...              *)
Unpin(t) ==
    /\ ~crashed /\ pc[t] = "held" /\ todo[t] = <<>>
    /\ node' = [node EXCEPT ![at[t]] = Unlocked(@, t)]
    /\ mode' = [mode EXCEPT ![t] = "none"]
    /\ granted' = [granted EXCEPT ![t] = FALSE]
    /\ Goes(t, "leaving")
    /\ UNCHANGED <<crashed, pflock, tree, at, todo>>

(* ... then pf->lock is taken ...                                          *)
Leave(t) ==
    /\ ~crashed /\ pc[t] = "leaving" /\ pflock = NoThread
    /\ pflock' = t
    /\ Goes(t, "uncounting")
    /\ UNCHANGED <<crashed, tree, node, at, mode, todo, granted>>

IdleButOne(r) == r.concurrent_access_counter <= 1   \* mutants of Idle
IdleNever(r)  == r.concurrent_access_counter < 0

\* Nobody accesses the node.
Idle(r) == r.concurrent_access_counter <= 0

ReapsUnmarked(r) == Idle(r) /\ r.transactions   \* mutant of Reaps

\* The last accessor of a node waiting to be unlinked removes it, if the node
\* has a transactions table.  (The table never holds an entry: the test of
\* O_RDONLY, which is 0, makes procfuse_onFuseOpenPOD return at once.)
Reaps(r) == Idle(r) /\ r.pendingforunlink /\ r.transactions

(* ... and under it the counter goes down, and the node is unregistered by *)
(* its absolute path when this was the last access to a pending one.       *)
Uncount(t) ==
    LET n == at[t]
        r == Recounted(node[n], -1)
    IN  /\ ~crashed /\ pc[t] = "uncounting"
        /\ CanWrite(node[n])
        /\ tree' = IF Reaps(r) THEN Pruned(n[1]) ELSE tree
        /\ at' = [at EXCEPT ![t] = NoNode]
        /\ node' = Swept([node EXCEPT ![n] = r], tree', at')
        /\ pflock' = NoThread
        /\ Goes(t, "idle")
        /\ UNCHANGED <<crashed, mode, todo, granted>>

-----------------------------------------------------------------------------
(* procfuse_unlink: lookup under pf->lock ...                              *)
Unlink(t, p) ==
    /\ Enters(t)
    /\ Found(Present, Dirs, p)
    /\ Target(Dirs, p) \in Dirs => "unlinkDir" \in Liberties
    /\ pflock' = t
    /\ at' = [at EXCEPT ![t] = <<Target(Dirs, p), tree[Target(Dirs, p)]>>]
    /\ Goes(t, "unlinking")
    /\ UNCHANGED <<crashed, tree, node, mode, todo, granted>>

(* ... mark the node under its write lock; remove it now if nobody is      *)
(* using it, otherwise leave that to the last accessor.                    *)
Mark(t) ==
    LET n == at[t]
    IN  /\ ~crashed /\ pc[t] = "unlinking"
        /\ CanWrite(node[n])
        /\ tree' = IF Idle(node[n]) THEN Pruned(n[1]) ELSE tree
        /\ at' = [at EXCEPT ![t] = NoNode]
        /\ node' = Swept([node EXCEPT ![n] = Marked(@)], tree', at')
        /\ pflock' = NoThread
        /\ Goes(t, "idle")
        /\ UNCHANGED <<crashed, mode, todo, granted>>

-----------------------------------------------------------------------------
(* procfuse_create and procfuse_createPOD                                  *)

Unused(n) == ~InTree(n) /\ \A t \in Threads : at[t] # n

NewGen(p) == CHOOSE g \in 1..MaxGen : Unused(<<p, g>>)

\* The tree with every path of the walk to p present.
Grown(p) ==
    [q \in Paths |-> IF q \in Made(p) /\ tree[q] = 0 THEN NewGen(q) ELSE tree[q]]

\* The nodes after that walk, the tree being tr.
WithDirs(p, tr) ==
    [n \in Nodes |-> IF n[1] \in MadeDirs(p) /\ tr[n[1]] = n[2]
                     THEN [node[n] EXCEPT !.subdirs = TRUE] ELSE node[n]]

\* The node is set up from scratch, also when it was there before -- but for its
\* subdirs and, unless the new type needs one, its transactions table.
Installed(r, type) ==
    [subdirs |-> r.subdirs, transactions |-> (r.transactions \/ type = "scalar"),
     type |-> type, pendingforunlink |-> FALSE, concurrent_access_counter |-> 0,
     writer |-> NoThread, readers |-> 0]

\* The calls the application makes, by the liberties it takes.
MayCreate(p) ==
    /\ p \in Present => "recreate" \in Liberties
    /\ MadeDirs(p) \cap (Present \ Dirs) # {} => "childOfFile" \in Liberties
    /\ \A q \in Made(p) \ Present : \E g \in 1..MaxGen : Unused(<<q, g>>)

(* The node is made (pf->lock is held throughout and nothing blocks).      *)
Create(t, p, type) ==
    /\ Enters(t)
    /\ MayCreate(p) /\ type \in Kinds
    /\ p \in Made(p)
    /\ tree' = Grown(p)
    /\ node' = [WithDirs(p, tree') EXCEPT ![<<p, tree'[p]>>] = Installed(@, type)]
    /\ UNCHANGED <<crashed, pflock, pc, at, mode, todo, granted>>

(* A component is too long: the call fails after it made those before.     *)
CreateTooLong(t, p) ==
    /\ Enters(t)
    /\ MayCreate(p)
    /\ p \notin Made(p)
    /\ tree' = Grown(p)
    /\ node' = WithDirs(p, tree')
    /\ UNCHANGED <<crashed, pflock, pc, at, mode, todo, granted>>

(* There is no temporary file for a string: the node is unregistered again *)
(* with the directories that are empty now.                                *)
CreateNoFile(t, p) ==
    LET grown == Grown(p)
        recs  == [WithDirs(p, grown) EXCEPT ![<<p, grown[p]>>] = Installed(@, "bytes")]
        here  == Present \cup Made(p)
        left  == Unregistered(here, Dirs \cup MadeDirs(p), p)
    IN  /\ Enters(t)
        /\ MayCreate(p) /\ "bytes" \in Kinds
        /\ p \in Made(p)
        /\ tree' = [q \in Paths |-> IF q \in left THEN grown[q] ELSE 0]
        /\ node' = Swept(recs, tree', at)
        /\ UNCHANGED <<crashed, pflock, pc, at, mode, todo, granted>>

-----------------------------------------------------------------------------
\* The process is gone.
Dead == crashed /\ UNCHANGED vars

\* A call that has begun goes on.
Step(t) ==
    \/ Count(t)
    \/ Pin(t)
    \/ Drop(t)
    \/ Retake(t)
    \/ Unpin(t)
    \/ Leave(t)
    \/ Uncount(t)
    \/ Mark(t)

\* A new call begins.
Call(t) ==
    \E p \in Paths :
        \/ Acquire(t, p)
        \/ Fault(t, p)
        \/ Unlink(t, p)
        \/ \E type \in Types : Create(t, p, type)
        \/ CreateTooLong(t, p)
        \/ CreateNoFile(t, p)

Next == Dead \/ \E t \in Threads : Step(t) \/ Call(t)

Spec == Init /\ [][Next]_vars

\* A thread that runs is scheduled again: it takes a lock that stays free.
FairSpec == Spec /\ \A t \in Threads : WF_vars(Step(t))

-----------------------------------------------------------------------------
(* Properties                                                              *)

\* The steps at which a thread counts as an accessor of its node.
Counted == {"pinning", "held", "gap", "leaving", "uncounting"}

Accessors(n) == {t \in Threads : at[t] = n /\ pc[t] \in Counted}
Readers(n)   == {t \in Threads : at[t] = n /\ mode[t] = "R"}

\* The variables have their types, and a thread points to a node exactly while
\* it runs a call that looked one up (acquireAccessToNode and unlink go on only
\* with node!=NULL).
TypeOK ==
    /\ crashed \in BOOLEAN
    /\ pflock \in Threads \cup {NoThread}
    /\ tree \in [Paths -> 0..MaxGen]
    /\ node \in [Nodes -> NodeRecord]
    /\ pc \in [Threads -> Counted \cup {"idle", "counting", "unlinking"}]
    /\ at \in [Threads -> Nodes \cup {NoNode}]
    /\ \A t \in Threads : at[t] = NoNode <=> pc[t] = "idle"
    /\ mode \in [Threads -> {"none", "R", "W"}]
    /\ todo \in [Threads -> Seq({"R", "W"})]
    /\ \A t \in Threads : pc[t] = "gap" => todo[t] # <<>>
    /\ granted \in [Threads -> BOOLEAN]

\* concurrent_access_counter of every node is the number of threads between the
\* increment in acquireAccessToNode and the decrement in releaseAccessToNode:
\* the removal decisions of unlink and releaseAccessToNode rest on it.
AccessCounted ==
    \A n \in Nodes :
        node[n].concurrent_access_counter = Cardinality(Accessors(n))

\* The lock of every node is in the state its holders believe it is in, and no
\* thread reads a node while another one writes it: upgrades, downgrades and
\* the nested handler calls of onFuseWritePOD always unlock what they locked.
LockHeldAsBelieved ==
    \A n \in Nodes :
        /\ node[n].readers = Cardinality(Readers(n))
        /\ \A t \in Threads : node[n].writer = t <=> at[t] = n /\ mode[t] = "W"
        /\ node[n].writer # NoThread => node[n].readers = 0

\* A file that a thread is accessing stays registered: neither unlink, nor the
\* last accessor of another node, nor the pruning of emptied directories takes
\* it out of the tree before the access ends.
HeldFileRegistered ==
    \A t \in Threads :
        pc[t] \in Counted /\ ~node[at[t]].subdirs => InTree(at[t])

\* An unlinked file that has a transactions table is gone from the tree as soon
\* as nobody accesses it: whoever decides last, unlink or releaseAccessToNode,
\* the removal is not lost between the two.
PendingReaped ==
    \A n \in Nodes :
        InTree(n) /\ node[n].pendingforunlink /\ node[n].transactions
            => node[n].concurrent_access_counter > 0

\* While FUSEopen serves an open it has granted, the file is not waiting to be
\* unlinked: the check and the grant happen under one hold of the read lock,
\* and unlink marks under the write lock.
OpenNotPending ==
    \A t \in Threads : granted[t] => ~node[at[t]].pendingforunlink

\* Everything on the way to a present path is a present directory: no walk
\* creates, detaches or prunes a directory under something that stays.
TreeWellFormed ==
    \A p \in Present : \A k \in 1..(Len(p) - 1) : Upto(p, k) \in Dirs

\* Directories exist only to hold something ("clean up unneeded tree
\* structures"): unregistering and failed creates leave no empty one behind.
NoEmptyDirs == \A d \in Dirs : Below(d) \cap Present # {}

\* releaseAccessToNode: "we're the only ones having absolute exclusive access to
\* the node" when it is unlinked there -- a file that leaves the tree in Uncount
\* is in use by no other thread.
ReapsExclusively ==
    [][\A t \in Threads : Uncount(t) =>
          \A n \in Nodes :
              InTree(n) /\ ~node[n].subdirs /\ Accessors(n) \ {t} # {} => tree'[n[1]] = n[2]]_vars

\* Whoever holds pf->lock while it waits for a node's lock gets on with it: no
\* handler keeps a node locked until something under pf->lock happens, and a
\* holder that goes through its upgrades cannot keep the waiter out for ever.
PfLockReleased == \A t \in Threads : pflock = t ~> pflock # t

-----------------------------------------------------------------------------
(* The accesses implement the registry of NodePins: a file in the tree is  *)
(* registered, a pending one is doomed, an access to a file is a pin.      *)

Registered == {n \in Nodes : InTree(n) /\ ~node[n].subdirs}

Pins == INSTANCE NodePins WITH
    Files      <- Nodes,
    None       <- NoNode,
    registered <- Registered,
    reapable   <- {n \in Registered : node[n].transactions},
    doomed     <- {n \in Registered : node[n].pendingforunlink},
    pins       <- [t \in Threads |->
                      IF pc[t] \in Counted /\ ~node[at[t]].subdirs
                      THEN at[t] ELSE NoNode]

\* Every step of the library on the tree is a step of that registry: files are
\* removed only when unpinned, and a doomed one by its last accessor.
PinsSpec == Pins!Spec
=============================================================================
