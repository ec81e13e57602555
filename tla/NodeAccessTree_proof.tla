------------------------ MODULE NodeAccessTree_proof ------------------------
(***************************************************************************)
(* What the calls of any number of threads do to the path tree: its shape, *)
(* the removal of unlinked files, and the registration of accessed ones.   *)
(***************************************************************************)
EXTENDS NodeAccess_proof, NodeTree_proof

\* Memory of a node that nobody can reach is blank, so a create finds it blank.
UnusedBlank == \A n \in Nodes : Unused(n) => node[n] = Blank

-----------------------------------------------------------------------------
(* How a step changes the sets the tree consists of                        *)

Same     == Present' = Present /\ Dirs' = Dirs
Shrinks(p) ==
    /\ Present' = Unregistered(Present, Dirs, p)
    /\ Dirs' = Dirs \cap Present'
Grows(p) ==
    /\ Present' = Present \cup Made(p)
    /\ Dirs' = Dirs \cup MadeDirs(p)
GrowsAndShrinks(p) ==
    /\ Present' = Unregistered(Present \cup Made(p), Dirs \cup MadeDirs(p), p)
    /\ Dirs' = (Dirs \cup MadeDirs(p)) \cap Present'

LEMMA DirsPresent == Present \in SUBSET Paths /\ Dirs \in SUBSET Present
BY DEF Present, Dirs

LEMMA PresentNode ==
    ASSUME TypeOK, NEW p \in Present
    PROVE  p \in Paths /\ <<p, tree[p]>> \in Nodes
BY AccessAssumption DEF TypeOK, Present, Nodes

LEMMA InTreePresent ==
    ASSUME TypeOK, NEW n \in Nodes
    PROVE  /\ n[1] \in Paths /\ n[2] \in 1..MaxGen /\ n = <<n[1], n[2]>>
           /\ InTree(n) => n[1] \in Present /\ n = <<n[1], tree[n[1]]>>
           /\ InTree(n) /\ n[1] \in Dirs => node[n].subdirs
           /\ InTree(n) /\ node[n].subdirs => n[1] \in Dirs
<1>1. n[1] \in Paths /\ n[2] \in 1..MaxGen /\ n = <<n[1], n[2]>>
  BY DEF Nodes
<1>2. n[2] # 0
  BY <1>1, AccessAssumption
<1>3. InTree(n) => n[1] \in Present /\ n = <<n[1], tree[n[1]]>>
  BY <1>1, <1>2 DEF InTree, Present
<1>. QED
  BY <1>1, <1>3 DEF Dirs

\* The path a lookup ends at when it finds something.
LEMMA FoundPresent ==
    ASSUME TypeOK, NEW p \in Paths, Found(Present, Dirs, p)
    PROVE  /\ Target(Dirs, p) \in Present
           /\ <<Target(Dirs, p), tree[Target(Dirs, p)]>> \in Nodes
           /\ InTree(<<Target(Dirs, p), tree[Target(Dirs, p)]>>)
BY FoundNode DEF Found, InTree

\* A step that touches neither the tree nor subdirs of any node.
LEMMA SameShape ==
    ASSUME TypeOK, tree' = tree, \A n \in Nodes : node'[n].subdirs = node[n].subdirs
    PROVE  Same
<1>1. Present' = Present
  BY DEF Present
<1>2. \A p \in Present : node'[<<p, tree'[p]>>].subdirs = node[<<p, tree[p]>>].subdirs
  BY PresentNode
<1>. QED
  BY <1>1, <1>2 DEF Same, Dirs

\* The paths, and the directories, of a tree whose nodes are recs; a tree with
\* only some of its paths left.
PathsOf(tr) == {q \in Paths : tr[q] # 0}
DirsOf(tr, recs) == {q \in PathsOf(tr) : recs[<<q, tr[q]>>].subdirs}
Left(tr, left) == [q \in Paths |-> IF q \in left THEN tr[q] ELSE 0]

LEMMA TreeSets == Present = PathsOf(tree) /\ Dirs = DirsOf(tree, node)
BY DEF Present, Dirs, PathsOf, DirsOf

LEMMA TreeSetsPrimed == Present' = PathsOf(tree') /\ Dirs' = DirsOf(tree', node')
BY DEF Present, Dirs, PathsOf, DirsOf

\* A step that takes paths out of the tree forgets their nodes and no others.
LEMMA SweptShape ==
    ASSUME NEW tr \in [Paths -> 0..MaxGen], NEW recs, NEW left \in SUBSET PathsOf(tr),
           tree' = Left(tr, left), node' = Swept(recs, tree', at')
    PROVE  Present' = left /\ Dirs' = DirsOf(tr, recs) \cap left
<1>1. Present' = left
  BY DEF Present, PathsOf, Left
<1>2. ASSUME NEW q \in left
      PROVE  node'[<<q, tree'[q]>>] = recs[<<q, tr[q]>>]
  <2>1. q \in Paths /\ tree'[q] = tr[q] /\ tr[q] # 0
    BY DEF PathsOf, Left
  <2>2. <<q, tr[q]>> \in Nodes
    BY <2>1, AccessAssumption DEF Nodes
  <2>. QED
    BY <2>1, <2>2 DEF Swept
<1>. QED
  BY <1>1, <1>2 DEF Dirs, DirsOf

LEMMA PrunedShape ==
    ASSUME TypeOK, NEW p \in Paths, NEW recs,
           \A n \in Nodes : recs[n].subdirs = node[n].subdirs,
           tree' = Pruned(p), node' = Swept(recs, tree', at')
    PROVE  Shrinks(p)
<1>. DEFINE left == Unregistered(Present, Dirs, p)
<1>1. left \in SUBSET PathsOf(tree) /\ tree \in [Paths -> 0..MaxGen]
  BY UnregisteredSubset, TreeSets DEF TypeOK
<1>2. DirsOf(tree, recs) = Dirs
  BY TreeSets, PresentNode DEF DirsOf
<1>3. tree' = Left(tree, left)
  BY DEF Pruned, Left
<1>4. Present' = left /\ Dirs' = DirsOf(tree, recs) \cap left
  BY <1>1, <1>3, SweptShape
<1>. QED
  BY <1>2, <1>4 DEF Shrinks

\* What a create does to a path: one that was there keeps its node, a new one
\* has a node that nobody used.
LEMMA GrownNode ==
    ASSUME TypeOK, UnusedBlank, NEW p \in Paths, MayCreate(p), NEW q \in Paths
    PROVE  /\ q \in Present => Grown(p)[q] = tree[q]
           /\ q \notin Present /\ q \in Made(p) =>
                 /\ Grown(p)[q] \in 1..MaxGen /\ Unused(<<q, Grown(p)[q]>>)
                 /\ node[<<q, Grown(p)[q]>>] = Blank
           /\ q \notin Present /\ q \notin Made(p) => Grown(p)[q] = 0
<1>1. CASE q \in Present
  BY <1>1 DEF Present, Grown
<1>2. CASE q \notin Present /\ q \in Made(p)
  <2>1. Grown(p)[q] = NewGen(q)
    BY <1>2 DEF Present, Grown
  <2>2. NewGen(q) \in 1..MaxGen /\ Unused(<<q, NewGen(q)>>)
    BY <1>2, NewGenUnused DEF MayCreate
  <2>3. <<q, NewGen(q)>> \in Nodes
    BY <2>2 DEF Nodes
  <2>. QED
    BY <1>2, <2>1, <2>2, <2>3 DEF UnusedBlank
<1>3. CASE q \notin Present /\ q \notin Made(p)
  BY <1>3 DEF Present, Grown
<1>. QED
  BY <1>1, <1>2, <1>3

LEMMA GrownPaths ==
    ASSUME TypeOK, UnusedBlank, NEW p \in Paths, MayCreate(p)
    PROVE  PathsOf(Grown(p)) = Present \cup Made(p)
<1>1. ASSUME NEW q \in Paths
      PROVE  Grown(p)[q] # 0 <=> q \in Present \cup Made(p)
  <2>1. CASE q \in Present
    BY <2>1, GrownNode DEF Present
  <2>2. CASE q \notin Present /\ q \in Made(p)
    <3>1. Grown(p)[q] \in 1..MaxGen
      BY <2>2, GrownNode
    <3>. QED
      BY <2>2, <3>1, AccessAssumption
  <2>3. CASE q \notin Present /\ q \notin Made(p)
    BY <2>3, GrownNode
  <2>. QED
    BY <2>1, <2>2, <2>3
<1>. QED
  BY <1>1, DirsPresent, MadePaths DEF PathsOf

\* The directories are those that were there and those the walk makes.
LEMMA GrownDirs ==
    ASSUME TypeOK, UnusedBlank, NEW p \in Paths, MayCreate(p),
           NEW recs, \A n \in Nodes : recs[n].subdirs = WithDirs(p, Grown(p))[n].subdirs
    PROVE  DirsOf(Grown(p), recs) = Dirs \cup MadeDirs(p)
<1>1. MadeDirs(p) \subseteq Made(p)
  BY DEF MadeDirs
<1>2. ASSUME NEW q \in Present \cup Made(p)
      PROVE  recs[<<q, Grown(p)[q]>>].subdirs <=> q \in Dirs \cup MadeDirs(p)
  <2>1. PICK n : n = <<q, Grown(p)[q]>>
    OBVIOUS
  <2>2. q \in Paths
    BY DirsPresent, MadePaths
  <2>3. n \in Nodes
    BY <2>1, <2>2, GrownNode, PresentNode DEF Nodes
  <2>4. recs[n].subdirs = WithDirs(p, Grown(p))[n].subdirs /\ node[n] \in NodeRecord
    BY <2>3 DEF TypeOK
  <2>5. CASE q \in MadeDirs(p)
    <3>1. WithDirs(p, Grown(p))[n] = [node[n] EXCEPT !.subdirs = TRUE]
      BY <2>1, <2>3, <2>5 DEF WithDirs
    <3>. QED
      BY <2>1, <2>4, <2>5, <3>1 DEF NodeRecord
  <2>6. CASE q \notin MadeDirs(p)
    <3>1. WithDirs(p, Grown(p))[n] = node[n]
      BY <2>1, <2>3, <2>6 DEF WithDirs
    <3>2. CASE q \in Present
      <4>1. n = <<q, tree[q]>>
        BY <2>1, <2>2, <3>2, GrownNode
      <4>. QED
        BY <2>1, <2>4, <2>6, <3>1, <3>2, <4>1 DEF Dirs
    <3>3. CASE q \notin Present
      <4>1. node[n] = Blank
        BY <2>1, <2>2, <3>3, GrownNode
      <4>. QED
        BY <2>1, <2>4, <2>6, <3>1, <3>3, <4>1, DirsPresent DEF Blank
    <3>. QED
      BY <3>2, <3>3
  <2>. QED
    BY <2>5, <2>6
<1>3. PathsOf(Grown(p)) = Present \cup Made(p)
  BY GrownPaths
<1>. QED
  BY <1>1, <1>2, <1>3, DirsPresent DEF DirsOf

LEMMA InstalledDirs ==
    ASSUME TypeOK, UnusedBlank, NEW p \in Paths, MayCreate(p), p \in Made(p), NEW type,
           NEW recs,
           recs = [WithDirs(p, Grown(p)) EXCEPT ![<<p, Grown(p)[p]>>] = Installed(@, type)]
    PROVE  DirsOf(Grown(p), recs) = Dirs \cup MadeDirs(p)
<1>1. WithDirs(p, Grown(p)) \in [Nodes -> NodeRecord]
  BY WithDirsType
<1>2. \A n \in Nodes : recs[n].subdirs = WithDirs(p, Grown(p))[n].subdirs
  BY <1>1 DEF Installed
<1>. QED
  BY <1>2, GrownDirs

LEMMA GrowsShape ==
    ASSUME TypeOK, UnusedBlank, NEW t \in Threads, NEW p \in Paths,
           \/ \E type \in Types : Create(t, p, type)
           \/ CreateTooLong(t, p)
    PROVE  Grows(p)
<1>1. MayCreate(p) /\ tree' = Grown(p)
  BY DEF Create, CreateTooLong
<1>2. Dirs' = DirsOf(Grown(p), node') /\ Present' = Present \cup Made(p)
  BY <1>1, TreeSetsPrimed, GrownPaths
<1>3. ASSUME NEW type \in Types, Create(t, p, type)
      PROVE  DirsOf(Grown(p), node') = Dirs \cup MadeDirs(p)
  <2>1. /\ p \in Made(p)
        /\ node' = [WithDirs(p, Grown(p)) EXCEPT ![<<p, Grown(p)[p]>>] = Installed(@, type)]
    BY <1>1, <1>3 DEF Create
  <2>. QED
    BY <1>1, <2>1, InstalledDirs
<1>4. ASSUME CreateTooLong(t, p)
      PROVE  DirsOf(Grown(p), node') = Dirs \cup MadeDirs(p)
  <2>1. node' = WithDirs(p, Grown(p))
    BY <1>1, <1>4 DEF CreateTooLong
  <2>. QED
    BY <1>1, <2>1, GrownDirs
<1>. QED
  BY <1>2, <1>3, <1>4 DEF Grows

LEMMA NoFileShape ==
    ASSUME TypeOK, UnusedBlank, NEW t \in Threads, NEW p \in Paths, CreateNoFile(t, p)
    PROVE  GrowsAndShrinks(p)
<1>. PICK recs : recs = [WithDirs(p, Grown(p)) EXCEPT ![<<p, Grown(p)[p]>>] = Installed(@, "bytes")]
  OBVIOUS
<1>. DEFINE left == Unregistered(Present \cup Made(p), Dirs \cup MadeDirs(p), p)
<1>1. MayCreate(p) /\ p \in Made(p) /\ at' = at
  BY DEF CreateNoFile
<1>2. tree' = Left(Grown(p), left) /\ node' = Swept(recs, tree', at')
  BY <1>1 DEF CreateNoFile, Left
<1>3. Grown(p) \in [Paths -> 0..MaxGen]
  BY <1>1, GrownType
<1>4. left \in SUBSET PathsOf(Grown(p))
  BY <1>1, GrownPaths, UnregisteredSubset
<1>5. DirsOf(Grown(p), recs) = Dirs \cup MadeDirs(p)
  BY <1>1, InstalledDirs
<1>6. Present' = left /\ Dirs' = DirsOf(Grown(p), recs) \cap left
  BY <1>2, <1>3, <1>4, SweptShape
<1>. QED
  BY <1>5, <1>6 DEF GrowsAndShrinks

-----------------------------------------------------------------------------
(* What a step of a call changes: the record of the node the thread has,   *)
(* but not what kind of node it is; a step that ends the call may take     *)
(* paths out of the tree and forgets the nodes nobody reaches any more.    *)

Rewrites(t, recs) ==
    /\ recs \in [Nodes -> NodeRecord]
    /\ \A n \in Nodes : n # at[t] => recs[n] = node[n]
    /\ \A n \in Nodes : recs[n].subdirs = node[n].subdirs
    /\ \A n \in Nodes : recs[n].transactions = node[n].transactions
    /\ \A n \in Nodes : recs[n].pendingforunlink <=>
           node[n].pendingforunlink \/ (n = at[t] /\ pc[t] = "unlinking")

GoesOn(t, recs) ==
    UNCHANGED <<tree, at>> /\ node' = recs

EndsAt(t, recs) ==
    /\ pc[t] \in {"uncounting", "unlinking"} /\ pc'[t] = "idle" /\ pflock' = NoThread
    /\ at' = [at EXCEPT ![t] = NoNode]
    /\ tree' \in {tree, Pruned(at[t][1])}
    /\ node' = Swept(recs, tree', at')

LEMMA StepRewrites ==
    ASSUME TypeOK, NEW t \in Threads, Step(t)
    PROVE  /\ at[t] \in Nodes
           /\ \E recs : Rewrites(t, recs) /\ (GoesOn(t, recs) \/ EndsAt(t, recs))
<1>1. at[t] \in Nodes /\ node[at[t]] \in NodeRecord
  BY AtNode DEF Step, Count, Pin, Drop, Retake, Unpin, Leave, Uncount, Mark
<1>2. node \in [Nodes -> NodeRecord]
  BY DEF TypeOK
<1>3. ASSUME NEW r \in NodeRecord, r.subdirs = node[at[t]].subdirs,
             r.transactions = node[at[t]].transactions,
             r.pendingforunlink <=> node[at[t]].pendingforunlink \/ pc[t] = "unlinking"
      PROVE  Rewrites(t, [node EXCEPT ![at[t]] = r])
  BY <1>1, <1>2, <1>3 DEF Rewrites
<1>4. CASE Leave(t)
  <2>1. Rewrites(t, node) /\ GoesOn(t, node)
    BY <1>1, <1>2, <1>4 DEF Leave, Rewrites, GoesOn
  <2>. QED
    BY <1>1, <2>1
<1>5. CASE Count(t) \/ Pin(t) \/ Drop(t) \/ Retake(t) \/ Unpin(t)
  <2>1. PICK r : /\ r \in {Recounted(node[at[t]], 1), Locked(node[at[t]], "R", t),
                           Locked(node[at[t]], Head(todo[t]), t), Unlocked(node[at[t]], t)}
                 /\ node' = [node EXCEPT ![at[t]] = r]
    BY <1>5 DEF Count, Pin, Drop, Retake, Unpin
  <2>2. r \in NodeRecord
    BY <1>1, <2>1, RecountedType, LockedType, UnlockedType
  <2>3. /\ r.subdirs = node[at[t]].subdirs /\ r.transactions = node[at[t]].transactions
        /\ r.pendingforunlink = node[at[t]].pendingforunlink
    BY <1>1, <2>1 DEF Recounted, Locked, Unlocked, NodeRecord
  <2>4. UNCHANGED <<tree, at>> /\ pc[t] # "unlinking"
    BY <1>5 DEF Count, Pin, Drop, Retake, Unpin
  <2>. QED
    BY <1>1, <1>3, <2>1, <2>2, <2>3, <2>4 DEF GoesOn
<1>6. CASE Uncount(t) \/ Mark(t)
  <2>1. PICK r, recs : /\ \/ r = Recounted(node[at[t]], -1) /\ pc[t] # "unlinking"
                          \/ r = Marked(node[at[t]]) /\ pc[t] = "unlinking"
                       /\ recs = [node EXCEPT ![at[t]] = r]
                       /\ node' = Swept(recs, tree', at')
    <3>1. CASE Uncount(t)
      BY <3>1 DEF Uncount
    <3>2. CASE Mark(t)
      BY <3>2 DEF Mark
    <3>. QED
      BY <1>6, <3>1, <3>2
  <2>2. r \in NodeRecord
    BY <1>1, <2>1, RecountedType, MarkedType
  <2>3. /\ r.subdirs = node[at[t]].subdirs /\ r.transactions = node[at[t]].transactions
        /\ r.pendingforunlink <=> node[at[t]].pendingforunlink \/ pc[t] = "unlinking"
    <3>1. CASE r = Recounted(node[at[t]], -1) /\ pc[t] # "unlinking"
      BY <1>1, <3>1 DEF Recounted, NodeRecord
    <3>2. CASE r = Marked(node[at[t]]) /\ pc[t] = "unlinking"
      BY <1>1, <3>2 DEF Marked, NodeRecord
    <3>. QED
      BY <2>1, <3>1, <3>2
  <2>4. /\ pc[t] \in {"uncounting", "unlinking"} /\ pc'[t] = "idle" /\ pflock' = NoThread
        /\ at' = [at EXCEPT ![t] = NoNode]
        /\ tree' \in {tree, Pruned(at[t][1])}
    BY <1>6 DEF Uncount, Mark, Goes, TypeOK
  <2>5. node' = Swept(recs, tree', at')
    BY <2>1
  <2>. QED
    BY <1>1, <1>3, <2>1, <2>2, <2>3, <2>4, <2>5 DEF EndsAt
<1>. QED
  BY <1>4, <1>5, <1>6 DEF Step

LEMMA StepShape ==
    ASSUME TypeOK, NEW t \in Threads, Step(t)
    PROVE  Same \/ \E p \in Paths : Shrinks(p)
<1>1. PICK recs : Rewrites(t, recs) /\ (GoesOn(t, recs) \/ EndsAt(t, recs))
  BY StepRewrites
<1>2. at[t] \in Nodes /\ at[t][1] \in Paths
  BY StepRewrites DEF Nodes
<1>3. CASE GoesOn(t, recs)
  BY <1>1, <1>3, SameShape DEF GoesOn, Rewrites
<1>4. CASE EndsAt(t, recs) /\ tree' = tree
  <2>1. \A n \in Nodes : recs[n].subdirs = node[n].subdirs
    BY <1>1 DEF Rewrites
  <2>2. DirsOf(tree, recs) = Dirs
    BY <2>1, TreeSets, PresentNode DEF DirsOf
  <2>3. tree = Left(tree, Present) /\ Present \in SUBSET PathsOf(tree)
    BY DEF Left, Present, PathsOf, TypeOK
  <2>4. tree' = Left(tree, Present) /\ node' = Swept(recs, tree', at')
    BY <1>4, <2>3 DEF EndsAt
  <2>5. Present' = Present /\ Dirs' = DirsOf(tree, recs) \cap Present
    BY <2>3, <2>4, SweptShape DEF TypeOK
  <2>. QED
    BY <2>2, <2>5, DirsPresent DEF Same
<1>5. CASE EndsAt(t, recs) /\ tree' = Pruned(at[t][1])
  <2>1. node' = Swept(recs, tree', at') /\ \A n \in Nodes : recs[n].subdirs = node[n].subdirs
    BY <1>1, <1>5 DEF EndsAt, Rewrites
  <2>. QED
    BY <1>2, <1>5, <2>1, PrunedShape
<1>. QED
  BY <1>1, <1>3, <1>4, <1>5 DEF EndsAt

LEMMA UnusedBlankStep ==
    ASSUME TypeOK, UnusedBlank, NEW t \in Threads, Step(t)
    PROVE  UnusedBlank'
<1>1. PICK recs : Rewrites(t, recs) /\ (GoesOn(t, recs) \/ EndsAt(t, recs))
  BY StepRewrites
<1>2. CASE GoesOn(t, recs)
  <2>1. \A n \in Nodes : Unused(n)' => Unused(n) /\ n # at[t]
    BY <1>2 DEF GoesOn, Unused, InTree
  <2>. QED
    BY <1>1, <1>2, <2>1 DEF GoesOn, Rewrites, UnusedBlank
<1>3. CASE EndsAt(t, recs)
  BY <1>3 DEF EndsAt, Swept, UnusedBlank, Unused, InTree
<1>. QED
  BY <1>1, <1>2, <1>3

\* A create keeps the present nodes in the tree, and writes only to nodes that
\* are in the tree afterwards.
LEMMA UnusedBlankCall ==
    ASSUME TypeOK, UnusedBlank, NEW t \in Threads, Call(t)
    PROVE  UnusedBlank'
<1>. PICK p \in Paths :
        \/ Acquire(t, p) \/ Fault(t, p) \/ Unlink(t, p)
        \/ \E type \in Types : Create(t, p, type)
        \/ CreateTooLong(t, p) \/ CreateNoFile(t, p)
  BY DEF Call
<1>1. CASE Acquire(t, p) \/ Fault(t, p) \/ Unlink(t, p)
  <2>1. /\ UNCHANGED <<tree, node>>
        /\ \A u \in Threads : at'[u] = at[u] \/ (u = t /\ at[t] = NoNode)
    BY <1>1 DEF Acquire, Fault, Unlink, Enters, TypeOK
  <2>2. \A n \in Nodes : n # NoNode
    BY AccessAssumption
  <2>3. \A n \in Nodes : Unused(n)' => Unused(n)
    BY <2>1, <2>2 DEF Unused, InTree
  <2>. QED
    BY <2>1, <2>3 DEF UnusedBlank
<1>2. CASE (\E type \in Types : Create(t, p, type)) \/ CreateTooLong(t, p)
  <2>1. MayCreate(p) /\ tree' = Grown(p) /\ at' = at
    BY <1>2 DEF Create, CreateTooLong
  <2>2. WithDirs(p, Grown(p)) \in [Nodes -> NodeRecord]
    BY WithDirsType
  <2>3. \A n \in Nodes : ~InTree(n)' => WithDirs(p, Grown(p))[n] = node[n]
    BY <2>1 DEF WithDirs, InTree
  <2>4. \A n \in Nodes : ~InTree(n)' => n # <<p, Grown(p)[p]>>
    BY <2>1 DEF InTree
  <2>5. ASSUME NEW n \in Nodes, ~InTree(n)'
        PROVE  node'[n] = node[n]
    <3>1. ASSUME NEW type \in Types, Create(t, p, type) PROVE node'[n] = node[n]
      <4>1. node' = [WithDirs(p, Grown(p)) EXCEPT ![<<p, Grown(p)[p]>>] = Installed(@, type)]
        BY <2>1, <3>1 DEF Create
      <4>. QED
        BY <2>2, <2>3, <2>4, <2>5, <4>1
    <3>2. CASE CreateTooLong(t, p)
      BY <2>1, <2>3, <2>5, <3>2 DEF CreateTooLong
    <3>. QED
      BY <1>2, <3>1, <3>2
  <2>6. ASSUME NEW n \in Nodes, InTree(n)
        PROVE  InTree(n)'
    <3>1. n[1] \in Present /\ n[1] \in Paths
      BY <2>6, InTreePresent
    <3>. QED
      BY <2>1, <2>6, <3>1, GrownNode DEF InTree
  <2>. QED
    BY <2>1, <2>5, <2>6 DEF UnusedBlank, Unused
<1>3. CASE CreateNoFile(t, p)
  <2>1. PICK recs : node' = Swept(recs, tree', at)
    BY <1>3 DEF CreateNoFile
  <2>2. at' = at
    BY <1>3 DEF CreateNoFile
  <2>. QED
    BY <2>1, <2>2 DEF Swept, UnusedBlank, Unused, InTree
<1>. QED
  BY <1>1, <1>2, <1>3

LEMMA UnusedBlankInit == Init => UnusedBlank
BY DEF Init, UnusedBlank

\* A node that is neither in the tree nor in anybody's hands is blank: calloc and
\* procfuse_create start a node from there.
THEOREM UnusedNodesAreBlank == Spec => []UnusedBlank
<1>1. TypeOK /\ UnusedBlank /\ [Next]_vars => UnusedBlank'
  <2>1. ASSUME UnusedBlank, UNCHANGED vars PROVE UnusedBlank'
    BY <2>1 DEF UnusedBlank, Unused, InTree, vars
  <2>. QED
    BY <2>1, UnusedBlankStep, UnusedBlankCall DEF Next, Dead
<1>. QED
  BY <1>1, UnusedBlankInit, TypeCorrect, PTL DEF Spec

-----------------------------------------------------------------------------
(* The shape of the tree                                                   *)

TreeInv == WellFormed(Present, Dirs) /\ Named(Present)

LEMMA TreeInvMeans == TreeInv => TreeWellFormed
BY DEF TreeInv, WellFormed, TreeWellFormed

LEMMA CallShape ==
    ASSUME TypeOK, UnusedBlank, NEW t \in Threads, Call(t)
    PROVE  Same \/ \E p \in Paths : Grows(p) \/ GrowsAndShrinks(p)
<1>. PICK p \in Paths :
        \/ Acquire(t, p) \/ Fault(t, p) \/ Unlink(t, p)
        \/ \E type \in Types : Create(t, p, type)
        \/ CreateTooLong(t, p) \/ CreateNoFile(t, p)
  BY DEF Call
<1>1. CASE Acquire(t, p) \/ Fault(t, p) \/ Unlink(t, p)
  BY <1>1, SameShape DEF Acquire, Fault, Unlink
<1>2. CASE (\E type \in Types : Create(t, p, type)) \/ CreateTooLong(t, p)
  BY <1>2, GrowsShape
<1>3. CASE CreateNoFile(t, p)
  BY <1>3, NoFileShape
<1>. QED
  BY <1>1, <1>2, <1>3

\* How any step changes the tree.
LEMMA NextShape ==
    ASSUME TypeOK, UnusedBlank, [Next]_vars
    PROVE  \/ Same
           \/ \E p \in Paths : Shrinks(p) \/ Grows(p) \/ GrowsAndShrinks(p)
<1>1. CASE UNCHANGED vars
  BY <1>1 DEF vars, Same, Present, Dirs
<1>. QED
  BY <1>1, StepShape, CallShape DEF Next, Dead

LEMMA UnregisteredTree ==
    ASSUME NEW p \in Paths, NEW present \in SUBSET Paths, NEW dirs \in SUBSET present,
           WellFormed(present, dirs), Named(present),
           NEW left, left = Unregistered(present, dirs, p)
    PROVE  WellFormed(left, dirs \cap left) /\ Named(left)
<1>1. Named(left)
  BY UnregisteredSubset DEF Named
<1>. QED
  BY <1>1, UnregisteredWellFormed

LEMMA MadeTree ==
    ASSUME NEW p \in Paths
    PROVE  Present \cup Made(p) \in SUBSET Paths
           /\ Dirs \cup MadeDirs(p) \in SUBSET (Present \cup Made(p))
BY DirsPresent, MadePaths DEF MadeDirs

LEMMA TreeNext ==
    ASSUME TypeOK, UnusedBlank, TreeInv, [Next]_vars
    PROVE  TreeInv'
<1>1. CASE Same
  BY <1>1 DEF Same, TreeInv, WellFormed, Named
<1>2. ASSUME NEW p \in Paths, Shrinks(p) PROVE TreeInv'
  <2>1. PICK left : left = Unregistered(Present, Dirs, p)
    OBVIOUS
  <2>2. WellFormed(left, Dirs \cap left) /\ Named(left)
    BY <2>1, UnregisteredTree, DirsPresent DEF TreeInv
  <2>. QED
    BY <1>2, <2>1, <2>2 DEF Shrinks, TreeInv, WellFormed, Named
<1>3. ASSUME NEW p \in Paths, Grows(p) PROVE TreeInv'
  <2>1. WellFormed(Present \cup Made(p), Dirs \cup MadeDirs(p)) /\ Named(Present \cup Made(p))
    BY MadeWellFormed, MadeNamed, DirsPresent DEF TreeInv
  <2>. QED
    BY <1>3, <2>1 DEF Grows, TreeInv, WellFormed, Named
<1>4. ASSUME NEW p \in Paths, GrowsAndShrinks(p) PROVE TreeInv'
  <2>1. PICK S, D, left :
            /\ S = Present \cup Made(p) /\ D = Dirs \cup MadeDirs(p)
            /\ left = Unregistered(S, D, p)
    OBVIOUS
  <2>2. WellFormed(S, D) /\ Named(S)
    BY <2>1, MadeWellFormed, MadeNamed, DirsPresent DEF TreeInv
  <2>3. WellFormed(left, D \cap left) /\ Named(left)
    BY <2>1, <2>2, UnregisteredTree, MadeTree
  <2>4. Present' = left /\ Dirs' = D \cap left
    BY <1>4, <2>1 DEF GrowsAndShrinks
  <2>. QED
    BY <2>3, <2>4 DEF TreeInv, WellFormed, Named
<1>. QED
  BY <1>1, <1>2, <1>3, <1>4, NextShape

LEMMA TreeInit == Init => TreeInv
<1>1. Init => Present = {}
  BY DEF Init, Present
<1>. QED
  BY <1>1 DEF TreeInv, WellFormed, Named

\* The inductive invariant of the tree: no path hangs, and no component that is
\* too long ever got a node.
THEOREM TreeKeepsShape == Spec => [](UnusedBlank /\ TreeInv)
<1>1. TypeOK /\ UnusedBlank /\ TreeInv /\ [Next]_vars => TreeInv'
  BY TreeNext
<1>. QED
  BY <1>1, TreeInit, TypeCorrect, UnusedNodesAreBlank, PTL DEF Spec

\* Whatever the threads do, and whatever liberties the application takes,
\* everything above a present path is a present directory: the pruning in
\* unregisterNodeInternal and the walks that create never leave a path hanging.
THEOREM TreeIsWellFormed == Spec => []TreeWellFormed
BY TreeKeepsShape, TreeInvMeans, PTL

-----------------------------------------------------------------------------
(* No empty directory                                                      *)

DirsFilled == Filled(Present, Dirs)

LEMMA FilledNext ==
    ASSUME LongNames = {}, TypeOK, UnusedBlank, DirsFilled, [Next]_vars
    PROVE  DirsFilled'
<1>1. CASE Same
  BY <1>1 DEF Same, DirsFilled, Filled
<1>2. ASSUME NEW p \in Paths, Shrinks(p) PROVE DirsFilled'
  <2>1. PICK left : left = Unregistered(Present, Dirs, p)
    OBVIOUS
  <2>2. Filled(left, Dirs \cap left)
    BY <2>1, UnregisteredFilled, DirsPresent DEF DirsFilled
  <2>. QED
    BY <1>2, <2>1, <2>2 DEF Shrinks, DirsFilled, Filled
<1>3. ASSUME NEW p \in Paths, Grows(p) PROVE DirsFilled'
  <2>1. Filled(Present \cup Made(p), Dirs \cup MadeDirs(p))
    BY MadeFilled, MadeWithoutLongNames DEF DirsFilled
  <2>. QED
    BY <1>3, <2>1 DEF Grows, DirsFilled, Filled
<1>4. ASSUME NEW p \in Paths, GrowsAndShrinks(p) PROVE DirsFilled'
  <2>1. PICK S, D, left :
            /\ S = Present \cup Made(p) /\ D = Dirs \cup MadeDirs(p)
            /\ left = Unregistered(S, D, p)
    OBVIOUS
  <2>2. Filled(S, D)
    BY <2>1, MadeFilled, MadeWithoutLongNames DEF DirsFilled
  <2>3. Filled(left, D \cap left)
    BY <2>1, <2>2, UnregisteredFilled, MadeTree
  <2>4. Present' = left /\ Dirs' = D \cap left
    BY <1>4, <2>1 DEF GrowsAndShrinks
  <2>. QED
    BY <2>3, <2>4 DEF DirsFilled, Filled
<1>. QED
  BY <1>1, <1>2, <1>3, <1>4, NextShape

\* As long as no component is too long for getNextFileName, no call and no
\* failed creation leaves an empty directory behind.
THEOREM DirsAreNeeded ==
    ASSUME LongNames = {}
    PROVE  Spec => []NoEmptyDirs
<1>1. Init => DirsFilled
  BY DEF Init, DirsFilled, Filled, Dirs, Present
<1>2. TypeOK /\ UnusedBlank /\ DirsFilled /\ [Next]_vars => DirsFilled'
  BY FilledNext
<1>3. DirsFilled => NoEmptyDirs
  BY DEF DirsFilled, Filled, NoEmptyDirs
<1>. QED
  BY <1>1, <1>2, <1>3, TypeCorrect, UnusedNodesAreBlank, PTL DEF Spec

-----------------------------------------------------------------------------
(* The removal of unlinked files                                           *)

\* A step takes nothing out of the tree and gives it a new node, and a present
\* path that is unregistered is gone.
LEMMA PrunedTree ==
    ASSUME TypeOK, TreeInv, NEW n \in Nodes, NEW tr, tr = Pruned(n[1])
    PROVE  /\ \A m \in Nodes : tr[m[1]] = m[2] => InTree(m)
           /\ ~(tr[n[1]] = n[2])
<1>. PICK left : left = Unregistered(Present, Dirs, n[1])
  OBVIOUS
<1>1. /\ \A m \in Nodes : m[1] \in Paths /\ m[2] # 0
      /\ n[1] \in Paths
  BY AccessAssumption DEF Nodes
<1>2. \A q \in Paths : tr[q] = IF q \in left THEN tree[q] ELSE 0
  BY DEF Pruned
<1>3. \A m \in Nodes : tr[m[1]] = m[2] => m[1] \in left /\ InTree(m)
  BY <1>1, <1>2 DEF InTree
<1>4. n[1] \in Present => n[1] \notin left
  BY UnregisteredFile, DirsPresent DEF TreeInv
<1>5. left \subseteq Present
  BY UnregisteredSubset
<1>. QED
  BY <1>3, <1>4, <1>5

\* What PendingReaped says of one node.
Awaited(n) ==
    InTree(n) /\ node[n].pendingforunlink /\ node[n].transactions
        => node[n].concurrent_access_counter > 0

LEMMA ReapedStep ==
    ASSUME TypeOK, TreeInv, PendingReaped, NEW t \in Threads, Step(t)
    PROVE  PendingReaped'
<1>1. \A n \in Nodes : Awaited(n)
  BY DEF PendingReaped, Awaited
<1>2. PICK n \in Nodes : n = at[t]
  BY StepRewrites
<1>3. node[n] \in NodeRecord /\ node[n].concurrent_access_counter \in Int
  BY DEF TypeOK, NodeRecord
<1>4. SUFFICES ASSUME NEW m \in Nodes PROVE Awaited(m)'
  BY DEF PendingReaped, Awaited
<1>5. CASE Count(t) \/ Pin(t) \/ Drop(t) \/ Retake(t) \/ Unpin(t)
  <2>1. PICK r : /\ r \in {Recounted(node[n], 1), Locked(node[n], "R", t),
                           Locked(node[n], Head(todo[t]), t), Unlocked(node[n], t)}
                 /\ node' = [node EXCEPT ![n] = r] /\ tree' = tree
    BY <1>2, <1>5 DEF Count, Pin, Drop, Retake, Unpin
  <2>2. /\ r.pendingforunlink = node[n].pendingforunlink
        /\ r.transactions = node[n].transactions
        /\ r.concurrent_access_counter \in {node[n].concurrent_access_counter,
                                            node[n].concurrent_access_counter + 1}
    BY <1>3, <2>1 DEF Recounted, Locked, Unlocked, NodeRecord
  <2>3. node'[m] = IF m = n THEN r ELSE node[m]
    BY <2>1 DEF TypeOK
  <2>4. InTree(m)' <=> InTree(m)
    BY <2>1 DEF InTree
  <2>5. CASE m = n
    <3>1. SUFFICES ASSUME InTree(m), r.pendingforunlink, r.transactions
                   PROVE  r.concurrent_access_counter > 0
      BY <2>3, <2>4, <2>5 DEF Awaited
    <3>2. node[n].concurrent_access_counter > 0
      BY <1>1, <2>2, <2>5, <3>1 DEF Awaited
    <3>. QED
      BY <1>3, <2>2, <3>2
  <2>6. CASE m # n
    BY <1>1, <2>3, <2>4, <2>6 DEF Awaited
  <2>. QED
    BY <2>5, <2>6
<1>6. CASE Leave(t)
  BY <1>1, <1>6 DEF Leave, Awaited, InTree
<1>7. CASE Uncount(t) \/ Mark(t)
  <2>1. PICK r, recs : /\ r = IF Uncount(t) THEN Recounted(node[n], -1) ELSE Marked(node[n])
                       /\ recs = [node EXCEPT ![n] = r]
                       /\ node' = Swept(recs, tree', at')
                       /\ tree' = IF IF Uncount(t) THEN Reaps(r) ELSE Idle(node[n])
                                  THEN Pruned(n[1]) ELSE tree
    <3>1. CASE Uncount(t)
      BY <1>2, <3>1 DEF Uncount
    <3>2. CASE ~Uncount(t) /\ Mark(t)
      BY <1>2, <3>2 DEF Mark
    <3>. QED
      BY <1>7, <3>1, <3>2
  <2>2. r \in NodeRecord
    BY <1>3, <2>1, RecountedType, MarkedType
  <2>3. InTree(m)' => InTree(m) /\ node'[m] = recs[m]
    <3>1. InTree(m)' => node'[m] = recs[m]
      BY <2>1 DEF Swept, InTree
    <3>2. InTree(m)' => InTree(m)
      BY <2>1, PrunedTree DEF InTree
    <3>. QED
      BY <3>1, <3>2
  <2>4. CASE m # n
    BY <1>1, <2>1, <2>3, <2>4 DEF TypeOK, Awaited
  <2>5. CASE m = n /\ tree' # tree
    <3>1. tree' = Pruned(n[1])
      BY <2>1, <2>5
    <3>2. ~InTree(m)'
      BY <2>5, <3>1, PrunedTree DEF InTree
    <3>. QED
      BY <3>2 DEF Awaited
  <2>6. CASE m = n /\ tree' = tree
    <3>1. SUFFICES ASSUME InTree(m)', r.pendingforunlink, r.transactions
                   PROVE  r.concurrent_access_counter > 0
      BY <2>1, <2>3, <2>6 DEF TypeOK, Awaited
    <3>2. tree' # Pruned(n[1])
      BY <2>6, <3>1, PrunedTree DEF InTree
    <3>3. CASE Uncount(t)
      <4>1. ~Reaps(r)
        BY <2>1, <3>2, <3>3
      <4>. QED
        BY <2>2, <3>1, <4>1 DEF Reaps, Idle, NodeRecord
    <3>4. CASE ~Uncount(t)
      <4>1. ~Idle(node[n]) /\ r = Marked(node[n])
        BY <2>1, <3>2, <3>4
      <4>. QED
        BY <1>3, <4>1 DEF Idle, Marked, NodeRecord
    <3>. QED
      BY <3>3, <3>4
  <2>. QED
    BY <2>4, <2>5, <2>6
<1>. QED
  BY <1>5, <1>6, <1>7 DEF Step

\* What a create changes: the subdirs of the nodes on the way, and the node of
\* the path it is for.
Creates(t, p) ==
    \/ \E type \in Types : Create(t, p, type)
    \/ CreateTooLong(t, p)
    \/ CreateNoFile(t, p)

Creation(p, recs) ==
    \A n \in Nodes :
        \/ recs[n] = WithDirs(p, Grown(p))[n]
        \/ /\ p \in Made(p) /\ n = <<p, Grown(p)[p]>>
           /\ \E type \in Types : recs[n] = Installed(WithDirs(p, Grown(p))[n], type)

LEMMA CreateRewrites ==
    ASSUME TypeOK, NEW t \in Threads, NEW p \in Paths, Creates(t, p)
    PROVE  /\ Enters(t) /\ MayCreate(p) /\ UNCHANGED <<pflock, pc, at, mode, todo, granted>>
           /\ \E recs :
                 /\ Creation(p, recs)
                 /\ \/ node' = recs /\ tree' = Grown(p)
                    \/ /\ node' = Swept(recs, tree', at')
                       /\ \A q \in Paths : tree'[q] \in {Grown(p)[q], 0}
<1>1. Enters(t) /\ MayCreate(p) /\ UNCHANGED <<pflock, pc, at, mode, todo, granted>>
  BY DEF Creates, Create, CreateTooLong, CreateNoFile
<1>2. WithDirs(p, Grown(p)) \in [Nodes -> NodeRecord]
  BY WithDirsType
<1>3. ASSUME NEW type \in Types, p \in Made(p), NEW recs,
             recs = [WithDirs(p, Grown(p)) EXCEPT ![<<p, Grown(p)[p]>>] = Installed(@, type)]
      PROVE  Creation(p, recs)
  BY <1>2, <1>3 DEF Creation
<1>4. ASSUME NEW type \in Types, Create(t, p, type)
      PROVE  \E recs : Creation(p, recs) /\ node' = recs /\ tree' = Grown(p)
  <2>1. PICK recs :
            /\ recs = [WithDirs(p, Grown(p)) EXCEPT ![<<p, Grown(p)[p]>>] = Installed(@, type)]
            /\ node' = recs /\ tree' = Grown(p) /\ p \in Made(p)
    BY <1>4 DEF Create
  <2>. QED
    BY <1>3, <2>1
<1>5. ASSUME CreateTooLong(t, p)
      PROVE  \E recs : Creation(p, recs) /\ node' = recs /\ tree' = Grown(p)
  <2>1. node' = WithDirs(p, Grown(p)) /\ tree' = Grown(p)
    BY <1>5 DEF CreateTooLong
  <2>2. Creation(p, WithDirs(p, Grown(p)))
    BY DEF Creation
  <2>. QED
    BY <2>1, <2>2
<1>6. ASSUME CreateNoFile(t, p)
      PROVE  \E recs : /\ Creation(p, recs) /\ node' = Swept(recs, tree', at')
                       /\ \A q \in Paths : tree'[q] \in {Grown(p)[q], 0}
  <2>1. PICK recs :
            /\ recs = [WithDirs(p, Grown(p)) EXCEPT ![<<p, Grown(p)[p]>>] = Installed(@, "bytes")]
            /\ node' = Swept(recs, tree', at) /\ p \in Made(p)
    BY <1>6 DEF CreateNoFile
  <2>2. Creation(p, recs)
    BY <1>3, <2>1 DEF Types
  <2>3. \A q \in Paths : tree'[q] \in {Grown(p)[q], 0}
    BY <1>6 DEF CreateNoFile
  <2>4. node' = Swept(recs, tree', at')
    BY <1>1, <2>1
  <2>. QED
    BY <2>2, <2>3, <2>4
<1>. QED
  BY <1>1, <1>4, <1>5, <1>6 DEF Creates

\* A create makes nodes that are not marked: a new one is blank, and the node of
\* the path it is for is set up from scratch.
LEMMA ReapedCall ==
    ASSUME TypeOK, UnusedBlank, PendingReaped, NEW t \in Threads, Call(t)
    PROVE  PendingReaped'
<1>. PICK p \in Paths : Acquire(t, p) \/ Fault(t, p) \/ Unlink(t, p) \/ Creates(t, p)
  BY DEF Call, Creates
<1>1. \A n \in Nodes : Awaited(n)
  BY DEF PendingReaped, Awaited
<1>2. CASE Acquire(t, p) \/ Fault(t, p) \/ Unlink(t, p)
  BY <1>1, <1>2 DEF Acquire, Fault, Unlink, PendingReaped, Awaited, InTree
<1>3. CASE Creates(t, p)
  <2>1. PICK recs :
            /\ Creation(p, recs)
            /\ \/ node' = recs /\ tree' = Grown(p)
               \/ /\ node' = Swept(recs, tree', at')
                  /\ \A q \in Paths : tree'[q] \in {Grown(p)[q], 0}
    BY <1>3, CreateRewrites
  <2>2. MayCreate(p)
    BY <1>3, CreateRewrites
  <2>3. \A n \in Nodes : n[1] \in Paths /\ n = <<n[1], n[2]>> /\ n[2] # 0
    BY AccessAssumption DEF Nodes
  <2>4. SUFFICES ASSUME NEW m \in Nodes, InTree(m)', node'[m].pendingforunlink,
                        node'[m].transactions
                 PROVE  node'[m].concurrent_access_counter > 0
    BY DEF PendingReaped
  <2>5. Grown(p)[m[1]] = m[2] /\ node'[m] = recs[m]
    BY <2>1, <2>3, <2>4 DEF Swept, InTree
  <2>6. node'[m] = WithDirs(p, Grown(p))[m]
    <3>1. \A type : Installed(WithDirs(p, Grown(p))[m], type).pendingforunlink = FALSE
      BY DEF Installed
    <3>. QED
      BY <2>1, <2>4, <2>5, <3>1 DEF Creation
  <2>7. /\ node[m].pendingforunlink /\ node[m].transactions
        /\ node'[m].concurrent_access_counter = node[m].concurrent_access_counter
    <3>1. node[m] \in NodeRecord
      BY DEF TypeOK
    <3>2. \/ node'[m] = node[m]
          \/ node'[m] = [node[m] EXCEPT !.subdirs = TRUE]
      BY <2>6 DEF WithDirs
    <3>. QED
      BY <2>4, <3>1, <3>2 DEF NodeRecord
  <2>8. InTree(m)
    <3>1. m[1] \in Paths /\ m = <<m[1], m[2]>> /\ Grown(p)[m[1]] = m[2] /\ m[2] # 0
      BY <2>3, <2>5
    <3>2. node[m] # Blank
      BY <2>7 DEF Blank
    <3>3. m[1] \in Present
      BY <2>2, <3>1, <3>2, GrownNode
    <3>. QED
      BY <2>2, <3>1, <3>3, GrownNode DEF InTree
  <2>. QED
    BY <1>1, <2>7, <2>8 DEF Awaited
<1>. QED
  BY <1>2, <1>3

\* Whatever the threads do, an unlinked file with a transactions table is gone
\* as soon as its counter is down: the removal is not lost between unlink and
\* releaseAccessToNode.
THEOREM UnlinkedIsReaped == Spec => []PendingReaped
<1>1. Init => PendingReaped
  BY DEF Init, PendingReaped, Blank
<1>2. TypeOK /\ UnusedBlank /\ TreeInv /\ PendingReaped /\ [Next]_vars => PendingReaped'
  <2>1. ASSUME PendingReaped, UNCHANGED vars PROVE PendingReaped'
    BY <2>1 DEF PendingReaped, InTree, vars
  <2>. QED
    BY <2>1, ReapedStep, ReapedCall DEF Next, Dead
<1>. QED
  BY <1>1, <1>2, TypeCorrect, TreeKeepsShape, PTL DEF Spec
=============================================================================
