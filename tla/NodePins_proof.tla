--------------------------- MODULE NodePins_proof ---------------------------
(***************************************************************************)
(* What an application gets that takes no liberties: a file in use stays   *)
(* registered, its removal is left to the last user, and the accesses of   *)
(* NodeAccess implement the registry of NodePins.                          *)
(***************************************************************************)
EXTENDS NodeAccessTree_proof

\* pf->lock belongs to the thread that is between its lookup and its unlock.
LockOwner ==
    \A t \in Threads :
        pc[t] \in {"counting", "pinning", "uncounting", "unlinking"} <=> pflock = t

\* Only files are marked or have a transactions table ...
DirsPlain ==
    \A n \in Nodes :
        node[n].subdirs => ~node[n].pendingforunlink /\ ~node[n].transactions

\* ... and only files are unlinked.
UnlinksFile ==
    \A t \in Threads : pc[t] = "unlinking" => ~node[at[t]].subdirs

\* A file that a thread points to, counted or not, is registered.
FilesInTree ==
    \A t \in Threads : pc[t] # "idle" /\ ~node[at[t]].subdirs => InTree(at[t])

Orderly == LockOwner /\ DirsPlain /\ UnlinksFile /\ FilesInTree

-----------------------------------------------------------------------------
(* pf->lock                                                                *)

LEMMA OwnerNext ==
    ASSUME TypeOK, LockOwner, [Next]_vars
    PROVE  LockOwner'
<1>. USE DEF LockOwner, Goes
<1>. NoThread \notin Threads
  BY AccessAssumption
<1>1. CASE UNCHANGED vars
  BY <1>1 DEF vars
<1>2. ASSUME NEW t \in Threads, Step(t) PROVE LockOwner'
  <2>1. CASE Count(t) \/ Pin(t) \/ Leave(t)
    BY <2>1 DEF Count, Pin, Leave, TypeOK
  <2>2. CASE Drop(t) \/ Retake(t) \/ Unpin(t)
    BY <2>2 DEF Drop, Retake, Unpin, TypeOK
  <2>3. CASE Uncount(t) \/ Mark(t)
    BY <2>3 DEF Uncount, Mark, TypeOK
  <2>. QED
    BY <1>2, <2>1, <2>2, <2>3 DEF Step
<1>3. ASSUME NEW t \in Threads, Call(t) PROVE LockOwner'
  <2>. PICK p \in Paths : Acquire(t, p) \/ Fault(t, p) \/ Unlink(t, p) \/ Creates(t, p)
    BY <1>3 DEF Call, Creates
  <2>1. CASE Acquire(t, p) \/ Unlink(t, p)
    BY <2>1 DEF Acquire, Unlink, Enters, TypeOK
  <2>2. CASE Fault(t, p)
    BY <2>2 DEF Fault
  <2>3. CASE Creates(t, p)
    BY <2>3, CreateRewrites
  <2>. QED
    BY <2>1, <2>2, <2>3
<1>. QED
  BY <1>1, <1>2, <1>3 DEF Next, Dead

-----------------------------------------------------------------------------
(* A step of a call                                                        *)

\* Where the threads are after a step of t.
LEMMA StepMoves ==
    ASSUME TypeOK, NEW t \in Threads, Step(t)
    PROVE  /\ pc[t] # "idle" /\ pc'[t] # "unlinking"
           /\ \A u \in Threads : u # t => pc'[u] = pc[u] /\ at'[u] = at[u]
           /\ \A u \in Threads : pc'[u] # "idle" => pc[u] # "idle" /\ at'[u] = at[u]
<1>1. /\ pc[t] # "idle" /\ pc'[t] # "unlinking"
      /\ \A u \in Threads : u # t => pc'[u] = pc[u]
  <2>. USE DEF Goes, TypeOK
  <2>1. CASE Count(t) \/ Pin(t) \/ Drop(t) \/ Retake(t)
    BY <2>1 DEF Count, Pin, Drop, Retake
  <2>2. CASE Unpin(t) \/ Leave(t) \/ Uncount(t) \/ Mark(t)
    BY <2>2 DEF Unpin, Leave, Uncount, Mark
  <2>. QED
    BY <2>1, <2>2 DEF Step
<1>2. \E recs : GoesOn(t, recs) \/ EndsAt(t, recs)
  BY StepRewrites
<1>3. CASE \E recs : GoesOn(t, recs)
  BY <1>1, <1>3 DEF GoesOn
<1>4. CASE \E recs : EndsAt(t, recs)
  BY <1>1, <1>4 DEF EndsAt, TypeOK
<1>. QED
  BY <1>2, <1>3, <1>4

\* A node that a thread still has keeps its kind.
LEMMA HeldKeepsKind ==
    ASSUME TypeOK, NEW t \in Threads, Step(t), NEW u \in Threads, pc'[u] # "idle"
    PROVE  /\ at[u] \in Nodes /\ at'[u] = at[u]
           /\ node'[at[u]].subdirs = node[at[u]].subdirs
<1>1. at[u] \in Nodes /\ at'[u] = at[u]
  BY StepMoves, AtNode
<1>2. PICK recs : Rewrites(t, recs) /\ (GoesOn(t, recs) \/ EndsAt(t, recs))
  BY StepRewrites
<1>3. node'[at[u]] = recs[at[u]]
  BY <1>1, <1>2 DEF GoesOn, EndsAt, Swept
<1>. QED
  BY <1>1, <1>2, <1>3 DEF Rewrites

\* A path is unregistered only for a file that nobody else accesses.
LEMMA RemovesUnused ==
    ASSUME TypeOK, AccessCounted, DirsPlain, UnlinksFile, NEW t \in Threads, Step(t),
           tree' # tree
    PROVE  /\ tree' = Pruned(at[t][1]) /\ at[t] \in Nodes /\ ~node[at[t]].subdirs
           /\ Accessors(at[t]) \subseteq {t}
           /\ Uncount(t) \/ Mark(t)
<1>1. PICK n \in Nodes : n = at[t]
  BY StepRewrites
<1>2. Uncount(t) \/ Mark(t)
  BY DEF Step, Count, Pin, Drop, Retake, Unpin, Leave
<1>3. node[n] \in NodeRecord /\ node[n].concurrent_access_counter \in Int
  BY DEF TypeOK, NodeRecord
<1>4. node[n].concurrent_access_counter = Cardinality(Accessors(n))
  BY DEF AccessCounted
<1>5. CASE Uncount(t)
  <2>1. PICK r : r = Recounted(node[n], -1) /\ tree' = IF Reaps(r) THEN Pruned(n[1]) ELSE tree
    BY <1>1, <1>5 DEF Uncount
  <2>2. tree' = Pruned(n[1]) /\ Reaps(r)
    BY <2>1
  <2>3. r.concurrent_access_counter = node[n].concurrent_access_counter - 1
        /\ r.pendingforunlink = node[n].pendingforunlink
    BY <1>3, <2>1 DEF Recounted, NodeRecord
  <2>4. ~node[n].subdirs
    BY <2>2, <2>3 DEF DirsPlain, Reaps
  <2>5. t \in Accessors(n)
    BY <1>1, <1>5 DEF Uncount, Accessors, Counted
  <2>6. Cardinality(Accessors(n) \ {t}) = Cardinality(Accessors(n)) - 1
    BY <2>5, OneLess, SetsOfThreads
  <2>7. Cardinality(Accessors(n) \ {t}) \in Nat
    BY SomeThreadsFinite, SetsOfThreads
  <2>8. Cardinality(Accessors(n) \ {t}) = 0
    BY <1>3, <1>4, <2>2, <2>3, <2>6, <2>7 DEF Reaps, Idle
  <2>9. Accessors(n) \ {t} = {}
    BY <2>8, NobodyThere, SetsOfThreads
  <2>. QED
    BY <1>1, <1>5, <2>2, <2>4, <2>9
<1>6. CASE Mark(t)
  <2>1. tree' = Pruned(n[1]) /\ Idle(node[n]) /\ pc[t] = "unlinking"
    BY <1>1, <1>6 DEF Mark
  <2>2. Cardinality(Accessors(n)) \in Nat
    BY SomeThreadsFinite, SetsOfThreads
  <2>3. Cardinality(Accessors(n)) = 0
    BY <1>4, <2>1, <2>2 DEF Idle
  <2>4. Accessors(n) = {}
    BY <2>3, NobodyThere, SetsOfThreads
  <2>. QED
    BY <1>1, <1>6, <2>1, <2>4 DEF UnlinksFile
<1>. QED
  BY <1>2, <1>5, <1>6

\* Unregistering a file takes no other file out of the tree.
LEMMA PrunedKeepsFiles ==
    ASSUME TypeOK, TreeInv, NEW n \in Nodes, InTree(n), ~node[n].subdirs,
           NEW m \in Nodes, InTree(m), ~node[m].subdirs, m # n
    PROVE  Pruned(n[1])[m[1]] = m[2]
<1>. PICK left : left = Unregistered(Present, Dirs, n[1])
  OBVIOUS
<1>1. /\ n[1] \in Present /\ n[1] \notin Dirs /\ n = <<n[1], tree[n[1]]>>
      /\ m[1] \in Present /\ m[1] \notin Dirs /\ m = <<m[1], tree[m[1]]>>
      /\ m[1] \in Paths
  BY InTreePresent
<1>2. Present \ left \subseteq {n[1]} \cup Dirs
  BY <1>1, UnregisteredFile, DirsPresent DEF TreeInv
<1>3. m[1] \in left
  BY <1>1, <1>2
<1>. QED
  BY <1>1, <1>3 DEF Pruned, InTree

LEMMA OrderlyStep ==
    ASSUME TypeOK, TreeInv, AccessCounted, Orderly, NEW t \in Threads, Step(t)
    PROVE  DirsPlain' /\ UnlinksFile' /\ FilesInTree'
<1>. USE DEF Orderly
<1>1. PICK recs : Rewrites(t, recs) /\ (GoesOn(t, recs) \/ EndsAt(t, recs))
  BY StepRewrites
<1>2. DirsPlain'
  <2>1. ASSUME NEW n \in Nodes, recs[n].subdirs
        PROVE  ~recs[n].pendingforunlink /\ ~recs[n].transactions
    <3>1. node[n].subdirs /\ ~node[n].pendingforunlink /\ ~node[n].transactions
      BY <1>1, <2>1 DEF Rewrites, DirsPlain
    <3>2. ~(n = at[t] /\ pc[t] = "unlinking")
      BY <3>1 DEF UnlinksFile
    <3>. QED
      BY <1>1, <3>1, <3>2 DEF Rewrites
  <2>2. \A n \in Nodes : node'[n] = recs[n] \/ node'[n] = Blank
    BY <1>1 DEF GoesOn, EndsAt, Swept
  <2>. QED
    BY <2>1, <2>2 DEF DirsPlain, Blank
<1>3. UnlinksFile'
  <2>1. SUFFICES ASSUME NEW u \in Threads, pc'[u] = "unlinking"
                 PROVE  ~node'[at'[u]].subdirs
    BY DEF UnlinksFile
  <2>2. pc[u] = "unlinking"
    BY <2>1, StepMoves
  <2>. QED
    BY <2>1, <2>2, HeldKeepsKind DEF UnlinksFile
<1>4. FilesInTree'
  <2>1. SUFFICES ASSUME NEW u \in Threads, pc'[u] # "idle", ~node'[at'[u]].subdirs
                 PROVE  InTree(at[u])' /\ at'[u] = at[u]
    BY DEF FilesInTree, InTree
  <2>2. at[u] \in Nodes /\ at'[u] = at[u] /\ pc[u] # "idle" /\ ~node[at[u]].subdirs
    BY <2>1, HeldKeepsKind, StepMoves
  <2>3. InTree(at[u])
    BY <2>2 DEF FilesInTree
  <2>4. CASE tree' = tree
    BY <2>2, <2>3, <2>4 DEF InTree
  <2>5. CASE tree' # tree
    <3>1. PICK n \in Nodes : n = at[t] /\ tree' = Pruned(n[1])
      BY <2>5, RemovesUnused
    <3>2. /\ ~node[n].subdirs /\ Accessors(n) \subseteq {t}
          /\ Uncount(t) \/ Mark(t)
      BY <2>5, <3>1, RemovesUnused
    <3>3. InTree(n) /\ pflock = t
      BY <3>1, <3>2, StepMoves DEF FilesInTree, LockOwner, Uncount, Mark
    <3>4. u # t
      BY <2>1, <3>2 DEF Uncount, Mark, Goes, TypeOK
    <3>5. at[u] # n
      <4>1. SUFFICES ASSUME at[u] = n PROVE FALSE
        OBVIOUS
      <4>2. pc[u] \notin Counted
        BY <3>2, <3>4, <4>1 DEF Accessors
      <4>3. pc[u] \in {"counting", "unlinking"}
        BY <2>2, <4>2 DEF TypeOK, Counted
      <4>4. pflock = u
        BY <4>3 DEF LockOwner
      <4>. QED
        BY <3>3, <3>4, <4>4
    <3>6. Pruned(n[1])[at[u][1]] = at[u][2]
      BY <2>2, <2>3, <3>2, <3>3, <3>5, PrunedKeepsFiles
    <3>. QED
      BY <2>2, <3>1, <3>6 DEF InTree
  <2>. QED
    BY <2>4, <2>5
<1>. QED
  BY <1>2, <1>3, <1>4

-----------------------------------------------------------------------------
(* A new call                                                              *)

\* The nodes a create makes directories of were directories, or nobody's.
LEMMA CreatedPlain ==
    ASSUME TypeOK, UnusedBlank, DirsPlain, Liberties = {}, NEW p \in Paths, MayCreate(p),
           NEW recs, Creation(p, recs), NEW n \in Nodes, recs[n].subdirs
    PROVE  ~recs[n].pendingforunlink /\ ~recs[n].transactions
<1>. PICK w : w = WithDirs(p, Grown(p))[n]
  OBVIOUS
<1>1. /\ n[1] \in Paths /\ n = <<n[1], n[2]>>
      /\ node[n] \in NodeRecord
  BY InTreePresent DEF TypeOK
<1>2. /\ p \notin Present
      /\ \A q \in MadeDirs(p) : q \in Present => q \in Dirs
  BY DEF MayCreate
<1>3. ASSUME n[1] \in MadeDirs(p), Grown(p)[n[1]] = n[2]
      PROVE  ~node[n].pendingforunlink /\ ~node[n].transactions
  <2>1. CASE n[1] \in Present
    <3>1. InTree(n) /\ n[1] \in Dirs
      BY <1>1, <1>2, <1>3, <2>1, GrownNode DEF InTree
    <3>. QED
      BY <3>1, InTreePresent DEF DirsPlain
  <2>2. CASE n[1] \notin Present
    <3>1. n[1] \in Made(p)
      BY <1>3 DEF MadeDirs
    <3>2. node[n] = Blank
      BY <1>1, <1>3, <2>2, <3>1, GrownNode
    <3>. QED
      BY <3>2 DEF Blank
  <2>. QED
    BY <2>1, <2>2
<1>4. w.subdirs => ~w.pendingforunlink /\ ~w.transactions
  <2>1. CASE n[1] \in MadeDirs(p) /\ Grown(p)[n[1]] = n[2]
    <3>1. w = [node[n] EXCEPT !.subdirs = TRUE]
      BY <2>1 DEF WithDirs
    <3>. QED
      BY <1>1, <1>3, <2>1, <3>1 DEF NodeRecord
  <2>2. CASE ~(n[1] \in MadeDirs(p) /\ Grown(p)[n[1]] = n[2])
    <3>1. w = node[n]
      BY <2>2 DEF WithDirs
    <3>. QED
      BY <3>1 DEF DirsPlain
  <2>. QED
    BY <2>1, <2>2
<1>5. CASE recs[n] = w
  BY <1>4, <1>5
<1>6. CASE recs[n] # w
  <2>1. PICK type \in Types : recs[n] = Installed(w, type)
    BY <1>6 DEF Creation
  <2>2. n = <<p, Grown(p)[p]>> /\ p \in Made(p)
    BY <1>6 DEF Creation
  <2>3. n[1] = p /\ n[1] \notin MadeDirs(p)
    BY <2>2 DEF MadeDirs
  <2>4. w = node[n]
    BY <2>3 DEF WithDirs
  <2>5. node[n] = Blank
    BY <1>2, <2>2, GrownNode
  <2>6. ~recs[n].subdirs
    BY <2>1, <2>4, <2>5 DEF Installed, Blank
  <2>. QED
    BY <2>6
<1>. QED
  BY <1>5, <1>6

\* A create takes no file out of the tree.
LEMMA CreateKeepsFiles ==
    ASSUME TypeOK, UnusedBlank, TreeInv, Liberties = {}, NEW t \in Threads, NEW p \in Paths,
           Creates(t, p), NEW m \in Nodes, InTree(m), ~node[m].subdirs
    PROVE  InTree(m)'
<1>1. /\ m[1] \in Present /\ m[1] \in Paths /\ m[1] \notin Dirs /\ tree[m[1]] = m[2]
      /\ MayCreate(p)
  BY InTreePresent, CreateRewrites DEF InTree
<1>2. Grown(p)[m[1]] = m[2]
  BY <1>1, GrownNode
<1>3. CASE tree' = Grown(p)
  BY <1>2, <1>3 DEF InTree
<1>4. CASE CreateNoFile(t, p)
  <2>1. PICK S, D, left :
            /\ S = Present \cup Made(p) /\ D = Dirs \cup MadeDirs(p)
            /\ left = Unregistered(S, D, p)
    OBVIOUS
  <2>2. tree' = [q \in Paths |-> IF q \in left THEN Grown(p)[q] ELSE 0]
    BY <1>4, <2>1 DEF CreateNoFile
  <2>3. WellFormed(S, D) /\ Named(S)
    BY <2>1, MadeWellFormed, MadeNamed, DirsPresent DEF TreeInv
  <2>4. p \in Made(p) /\ p \notin Present
    BY <1>1, <1>4 DEF CreateNoFile, MayCreate
  <2>5. p \in S /\ p \notin D
    BY <2>1, <2>4, DirsPresent DEF MadeDirs
  <2>6. S \ left \subseteq {p} \cup D
    BY <2>1, <2>3, <2>5, UnregisteredFile, MadeTree
  <2>7. m[1] \notin MadeDirs(p)
    BY <1>1 DEF MayCreate
  <2>8. m[1] \in left
    BY <1>1, <2>1, <2>4, <2>6, <2>7
  <2>. QED
    BY <1>1, <1>2, <2>2, <2>8 DEF InTree
<1>. QED
  BY <1>3, <1>4 DEF Creates, Create, CreateTooLong

LEMMA OrderlyCall ==
    ASSUME TypeOK, UnusedBlank, TreeInv, Liberties = {}, Orderly, NEW t \in Threads, Call(t)
    PROVE  DirsPlain' /\ UnlinksFile' /\ FilesInTree'
<1>. USE DEF Orderly
<1>. PICK p \in Paths : Acquire(t, p) \/ Fault(t, p) \/ Unlink(t, p) \/ Creates(t, p)
  BY DEF Call, Creates
<1>1. CASE Fault(t, p)
  BY <1>1 DEF Fault, DirsPlain, UnlinksFile, FilesInTree, InTree
<1>2. CASE Acquire(t, p) \/ Unlink(t, p)
  <2>1. PICK n : n = <<Target(Dirs, p), tree[Target(Dirs, p)]>>
    OBVIOUS
  <2>2. n \in Nodes /\ InTree(n) /\ n[1] = Target(Dirs, p)
    BY <1>2, <2>1, FoundPresent DEF Acquire, Unlink
  <2>3. /\ UNCHANGED <<tree, node>> /\ at' = [at EXCEPT ![t] = n]
        /\ pc' = [pc EXCEPT ![t] = IF Unlink(t, p) THEN "unlinking" ELSE "counting"]
    <3>1. CASE Unlink(t, p)
      BY <2>1, <3>1 DEF Unlink, Goes
    <3>2. CASE Acquire(t, p) /\ ~Unlink(t, p)
      BY <2>1, <3>2 DEF Acquire, Goes
    <3>. QED
      BY <1>2, <3>1, <3>2
  <2>4. Unlink(t, p) => ~node[n].subdirs
    BY <2>2, InTreePresent DEF Unlink
  <2>5. DirsPlain'
    BY <2>3 DEF DirsPlain
  <2>6. ASSUME NEW u \in Threads
        PROVE  /\ pc'[u] = "unlinking" => ~node'[at'[u]].subdirs
               /\ pc'[u] # "idle" /\ ~node'[at'[u]].subdirs => InTree(at'[u])
    <3>1. CASE u = t
      BY <2>2, <2>3, <2>4, <3>1 DEF TypeOK
    <3>2. CASE u # t
      BY <2>3, <3>2 DEF TypeOK, UnlinksFile, FilesInTree
    <3>. QED
      BY <3>1, <3>2
  <2>7. UnlinksFile' /\ FilesInTree'
    BY <2>3, <2>6 DEF UnlinksFile, FilesInTree, InTree
  <2>. QED
    BY <2>5, <2>7
<1>3. CASE Creates(t, p)
  <2>1. /\ Enters(t) /\ MayCreate(p) /\ UNCHANGED <<pflock, pc, at>>
        /\ \E recs : /\ Creation(p, recs)
                     /\ \/ node' = recs /\ tree' = Grown(p)
                        \/ /\ node' = Swept(recs, tree', at')
                           /\ \A q \in Paths : tree'[q] \in {Grown(p)[q], 0}
    BY <1>3, CreateRewrites
  <2>2. PICK recs : Creation(p, recs) /\ (node' = recs \/ node' = Swept(recs, tree', at'))
    BY <2>1
  <2>3. DirsPlain'
    <3>1. \A n \in Nodes : node'[n] = recs[n] \/ node'[n] = Blank
      BY <2>2 DEF Swept
    <3>. QED
      BY <2>1, <2>2, <3>1, CreatedPlain DEF DirsPlain, Blank
  <2>4. UnlinksFile'
    <3>1. \A u \in Threads : pc[u] # "unlinking"
      BY <2>1, AccessAssumption DEF Enters, LockOwner
    <3>. QED
      BY <2>1, <3>1 DEF UnlinksFile
  <2>5. FilesInTree'
    <3>1. SUFFICES ASSUME NEW u \in Threads, pc[u] # "idle", ~node'[at[u]].subdirs
                   PROVE  InTree(at[u])'
      BY <2>1 DEF FilesInTree, InTree
    <3>2. PICK n \in Nodes : n = at[u]
      BY <3>1, AtNode
    <3>3. node'[n] = recs[n]
      BY <2>1, <2>2, <3>2 DEF Swept
    <3>4. ~node[n].subdirs
      <4>1. node[n] \in NodeRecord
        BY DEF TypeOK
      <4>2. node[n].subdirs => WithDirs(p, Grown(p))[n].subdirs
        BY <4>1 DEF WithDirs, NodeRecord
      <4>3. \A r, type : Installed(r, type).subdirs = r.subdirs
        BY DEF Installed
      <4>. QED
        BY <2>2, <3>1, <3>2, <3>3, <4>2, <4>3 DEF Creation
    <3>5. InTree(n)
      BY <3>1, <3>2, <3>4 DEF FilesInTree
    <3>. QED
      BY <1>3, <2>1, <3>2, <3>4, <3>5, CreateKeepsFiles DEF InTree
  <2>. QED
    BY <2>3, <2>4, <2>5
<1>. QED
  BY <1>1, <1>2, <1>3

-----------------------------------------------------------------------------
(* Files in use                                                            *)

LEMMA OrderlyInit == Init => Orderly
BY AccessAssumption DEF Init, Orderly, LockOwner, DirsPlain, UnlinksFile, FilesInTree, Blank

LEMMA OrderlyNext ==
    ASSUME TypeOK, UnusedBlank, TreeInv, AccessCounted, Liberties = {}, Orderly, [Next]_vars
    PROVE  Orderly'
<1>1. LockOwner'
  BY OwnerNext DEF Orderly
<1>2. CASE UNCHANGED vars
  BY <1>2 DEF Orderly, LockOwner, DirsPlain, UnlinksFile, FilesInTree, InTree, vars
<1>. QED
  BY <1>1, <1>2, OrderlyStep, OrderlyCall DEF Orderly, Next, Dead

\* All that is known of the reachable states.
SafeInv == TypeOK /\ UnusedBlank /\ TreeInv /\ AccessCounted /\ Orderly

\* When the application takes no liberties, files are registered while anybody
\* points to them, only files are marked and unlinked, and pf->lock belongs to
\* the one thread that is between its lookup and its unlock.
THEOREM AllIsOrderly ==
    ASSUME Liberties = {}
    PROVE  Spec => []SafeInv
<1>1. "recreate" \notin Liberties
  OBVIOUS
<1>2. Spec => []AccessCounted
  BY <1>1, CounterTellsTheTruth
<1>3. TypeOK /\ UnusedBlank /\ TreeInv /\ AccessCounted /\ Orderly /\ [Next]_vars => Orderly'
  BY OrderlyNext
<1>. QED
  BY <1>2, <1>3, OrderlyInit, TypeCorrect, TreeKeepsShape, PTL DEF Spec, SafeInv

\* When the application takes no liberties, a file stays registered while any
\* thread accesses it.
THEOREM HeldFilesStay ==
    ASSUME Liberties = {}
    PROVE  Spec => []HeldFileRegistered
<1>1. SafeInv => HeldFileRegistered
  BY DEF SafeInv, Orderly, FilesInTree, HeldFileRegistered, Counted
<1>. QED
  BY <1>1, AllIsOrderly, PTL

\* ... and the thread that removes a file in releaseAccessToNode is the only one
\* that was accessing it.
THEOREM ReapsAlone ==
    ASSUME Liberties = {}
    PROVE  Spec => ReapsExclusively
<1>. DEFINE Alone == \A t \in Threads : Uncount(t) =>
                         \A n \in Nodes :
                             InTree(n) /\ ~node[n].subdirs /\ Accessors(n) \ {t} # {}
                                 => tree'[n[1]] = n[2]
<1>1. ASSUME SafeInv, SafeInv', [Next]_vars
      PROVE  Alone
  <2>1. SUFFICES ASSUME NEW t \in Threads, Uncount(t), NEW n \in Nodes, InTree(n),
                        ~node[n].subdirs, NEW u \in Accessors(n) \ {t}
                 PROVE  tree'[n[1]] = n[2]
    OBVIOUS
  <2>2. u \in Threads /\ u # t /\ at[u] = n /\ pc[u] \in Counted
    BY DEF Accessors
  <2>3. Step(t) /\ TypeOK
    BY <1>1, <2>1 DEF Step, SafeInv
  <2>4. pc'[u] = pc[u] /\ at'[u] = at[u] /\ pc[u] # "idle"
    BY <2>2, <2>3, StepMoves DEF Counted
  <2>5. node'[at[u]].subdirs = node[at[u]].subdirs
    BY <2>2, <2>3, <2>4, HeldKeepsKind
  <2>6. FilesInTree'
    BY <1>1 DEF SafeInv, Orderly
  <2>. QED
    BY <2>1, <2>2, <2>4, <2>5, <2>6 DEF FilesInTree, InTree
<1>. HIDE DEF Alone
<1>2. SafeInv /\ SafeInv' /\ [Next]_vars => [Alone]_vars
  BY <1>1
<1>3. Spec => [][Alone]_vars
  BY <1>2, AllIsOrderly, PTL DEF Spec
<1>. QED
  BY <1>3 DEF Alone, ReapsExclusively

-----------------------------------------------------------------------------
(* The registry: how a step changes the files that are registered          *)

Reapable == {n \in Registered : node[n].transactions}
Doomed   == {n \in Registered : node[n].pendingforunlink}
PinOf(t) == IF pc[t] \in Counted /\ ~node[at[t]].subdirs THEN at[t] ELSE NoNode
PinMap   == [t \in Threads |-> PinOf(t)]

SameFiles == UNCHANGED <<Registered, Reapable, Doomed>>
Forgets(n) ==
    /\ Registered' = Registered \ {n}
    /\ Reapable' = Reapable \ {n}
    /\ Doomed' = Doomed \ {n}

\* The users a file has in the registry are its accessors.
LEMMA PinnedIsAccessed ==
    ASSUME TypeOK, NEW n \in Nodes, ~node[n].subdirs
    PROVE  {t \in Threads : PinMap[t] = n} = Accessors(n)
<1>1. n # NoNode
  BY AccessAssumption
<1>2. \A t \in Threads : PinMap[t] = n <=> at[t] = n /\ pc[t] \in Counted
  BY <1>1 DEF PinMap, PinOf
<1>. QED
  BY <1>2 DEF Accessors

\* The other threads keep their pins.
LEMMA OthersPins ==
    ASSUME TypeOK, NEW t \in Threads, Step(t), NEW u \in Threads, u # t
    PROVE  PinOf(u)' = PinOf(u)
<1>1. pc'[u] = pc[u] /\ at'[u] = at[u]
  BY StepMoves
<1>2. pc'[u] \in Counted => node'[at[u]].subdirs = node[at[u]].subdirs
  BY HeldKeepsKind DEF Counted
<1>. QED
  BY <1>1, <1>2 DEF PinOf

LEMMA GoesOnFiles ==
    ASSUME TypeOK, NEW t \in Threads, NEW recs, Rewrites(t, recs), GoesOn(t, recs),
           pc[t] # "unlinking"
    PROVE  SameFiles
<1>1. \A n \in Nodes : /\ InTree(n)' <=> InTree(n)
                       /\ node'[n].subdirs = node[n].subdirs
                       /\ node'[n].transactions = node[n].transactions
                       /\ node'[n].pendingforunlink <=> node[n].pendingforunlink
  BY DEF Rewrites, GoesOn, InTree
<1>2. Registered' = Registered
  BY <1>1 DEF Registered
<1>. QED
  BY <1>1, <1>2 DEF SameFiles, Reapable, Doomed, Registered

LEMMA EndsAtFiles ==
    ASSUME SafeInv, NEW t \in Threads, Step(t), NEW recs, Rewrites(t, recs), EndsAt(t, recs),
           NEW n \in Nodes, n = at[t]
    PROVE  /\ tree' = tree =>
                 /\ Registered' = Registered /\ Reapable' = Reapable
                 /\ Doomed' = Doomed \cup {m \in Registered : m = n /\ pc[t] = "unlinking"}
           /\ tree' # tree => n \in Registered /\ Forgets(n) /\ Accessors(n) \subseteq {t}
<1>1. \A m \in Nodes : InTree(m)' => /\ node'[m].subdirs = node[m].subdirs
                                     /\ node'[m].transactions = node[m].transactions
                                     /\ node'[m].pendingforunlink <=>
                                            \/ node[m].pendingforunlink
                                            \/ m = n /\ pc[t] = "unlinking"
  BY DEF Rewrites, EndsAt, Swept, InTree
<1>2. CASE tree' = tree
  <2>1. \A m \in Nodes : InTree(m)' <=> InTree(m)
    BY <1>2 DEF InTree
  <2>2. Registered' = Registered
    BY <1>1, <2>1 DEF Registered
  <2>3. Reapable' = Reapable
    BY <1>1, <2>1, <2>2 DEF Reapable, Registered
  <2>4. Doomed' = Doomed \cup {m \in Registered : m = n /\ pc[t] = "unlinking"}
    BY <1>1, <2>1, <2>2 DEF Doomed, Registered
  <2>. QED
    BY <1>2, <2>2, <2>3, <2>4
<1>3. CASE tree' # tree
  <2>1. tree' = Pruned(n[1]) /\ ~node[n].subdirs /\ Accessors(n) \subseteq {t}
    BY <1>3, RemovesUnused DEF SafeInv, Orderly
  <2>2. InTree(n)
    BY <2>1, StepMoves DEF SafeInv, Orderly, FilesInTree
  <2>3. ~InTree(n)' /\ \A m \in Nodes : InTree(m)' => InTree(m)
    BY <2>1, PrunedTree DEF SafeInv, InTree
  <2>4. \A m \in Nodes : InTree(m) /\ ~node[m].subdirs /\ m # n => InTree(m)'
    BY <2>1, <2>2, PrunedKeepsFiles DEF SafeInv, InTree
  <2>5. Registered' = Registered \ {n}
    BY <1>1, <2>3, <2>4 DEF Registered
  <2>6. Reapable' = Reapable \ {n} /\ Doomed' = Doomed \ {n}
    BY <1>1, <2>3, <2>4, <2>5 DEF Reapable, Doomed, Registered
  <2>. QED
    BY <1>3, <2>1, <2>2, <2>5, <2>6 DEF Forgets, Registered
<1>. QED
  BY <1>2, <1>3

\* The nodes a create writes to: directories, and one nobody had.
LEMMA CreatedFiles ==
    ASSUME SafeInv, Liberties = {}, NEW p \in Paths, MayCreate(p),
           NEW recs, Creation(p, recs), NEW n \in Nodes
    PROVE  /\ n \in Registered => Grown(p)[n[1]] = n[2] /\ recs[n] = node[n]
           /\ /\ Grown(p)[n[1]] = n[2] /\ ~recs[n].subdirs
              => n \in Registered \/ (p \in Made(p) /\ n = <<p, Grown(p)[p]>>)
           /\ n = <<p, Grown(p)[p]>> /\ p \in Made(p)
              => Unused(n) /\ ~recs[n].subdirs /\ ~recs[n].pendingforunlink
<1>. USE DEF SafeInv
<1>1. /\ n[1] \in Paths /\ n = <<n[1], n[2]>>
      /\ node[n] \in NodeRecord
  BY InTreePresent DEF TypeOK
<1>2. /\ p \notin Present
      /\ \A q \in MadeDirs(p) : q \in Present => q \in Dirs
  BY DEF MayCreate
<1>3. ASSUME n \in Registered
      PROVE  Grown(p)[n[1]] = n[2] /\ recs[n] = node[n]
  <2>1. n[1] \in Present /\ n[1] \notin Dirs /\ tree[n[1]] = n[2]
    BY <1>3, InTreePresent DEF Registered, InTree
  <2>2. Grown(p)[n[1]] = n[2]
    BY <1>1, <2>1, GrownNode
  <2>3. n[1] \notin MadeDirs(p) /\ n[1] # p
    BY <1>2, <2>1
  <2>4. WithDirs(p, Grown(p))[n] = node[n]
    BY <2>3 DEF WithDirs
  <2>. QED
    BY <2>2, <2>3, <2>4 DEF Creation
<1>4. ASSUME n = <<p, Grown(p)[p]>>, p \in Made(p)
      PROVE  Unused(n) /\ ~recs[n].subdirs /\ ~recs[n].pendingforunlink
  <2>1. Unused(n) /\ node[n] = Blank
    BY <1>2, <1>4, GrownNode
  <2>2. n[1] \notin MadeDirs(p)
    BY <1>4 DEF MadeDirs
  <2>3. WithDirs(p, Grown(p))[n] = Blank
    BY <2>1, <2>2 DEF WithDirs
  <2>4. recs[n] = Blank \/ \E type \in Types : recs[n] = Installed(Blank, type)
    BY <2>3 DEF Creation
  <2>5. ~Blank.subdirs /\ ~Blank.pendingforunlink
    BY DEF Blank
  <2>6. \A type : ~Installed(Blank, type).subdirs /\ ~Installed(Blank, type).pendingforunlink
    BY <2>5 DEF Installed
  <2>. QED
    BY <2>1, <2>4, <2>5, <2>6
<1>5. ASSUME Grown(p)[n[1]] = n[2], ~recs[n].subdirs, ~(p \in Made(p) /\ n = <<p, Grown(p)[p]>>)
      PROVE  n \in Registered
  <2>1. recs[n] = WithDirs(p, Grown(p))[n]
    BY <1>5 DEF Creation
  <2>2. n[1] \notin MadeDirs(p)
    <3>1. SUFFICES ASSUME n[1] \in MadeDirs(p) PROVE FALSE
      OBVIOUS
    <3>2. recs[n] = [node[n] EXCEPT !.subdirs = TRUE]
      BY <1>5, <2>1, <3>1 DEF WithDirs
    <3>. QED
      BY <1>1, <1>5, <3>2 DEF NodeRecord
  <2>3. recs[n] = node[n]
    BY <2>1, <2>2 DEF WithDirs
  <2>4. n[2] # 0
    BY AccessAssumption DEF Nodes
  <2>5. n[1] \in Present
    <3>1. n[1] \notin Made(p)
      BY <1>1, <1>5, <2>2 DEF MadeDirs
    <3>. QED
      BY <1>1, <1>5, <2>4, <3>1, GrownNode
  <2>6. InTree(n)
    BY <1>1, <1>5, <2>5, GrownNode DEF InTree
  <2>. QED
    BY <1>5, <2>3, <2>6 DEF Registered
<1>. QED
  BY <1>3, <1>4, <1>5

\* A create registers the file it is for, or none; nobody's pin changes.
LEMMA CreatePins ==
    ASSUME SafeInv, Liberties = {}, NEW t \in Threads, NEW p \in Paths, Creates(t, p)
    PROVE  \A u \in Threads : PinOf(u)' = PinOf(u)
<1>1. UNCHANGED <<pc, at>> /\ MayCreate(p)
  BY CreateRewrites DEF SafeInv
<1>2. PICK recs : Creation(p, recs) /\ (node' = recs \/ node' = Swept(recs, tree', at'))
  BY CreateRewrites DEF SafeInv
<1>3. SUFFICES ASSUME NEW u \in Threads, pc[u] \in Counted
               PROVE  node'[at[u]].subdirs <=> node[at[u]].subdirs
  BY <1>1 DEF PinOf
<1>4. PICK n \in Nodes : n = at[u]
  BY <1>3, AtNode DEF SafeInv, Counted
<1>5. node'[n] = recs[n]
  BY <1>1, <1>2, <1>4 DEF Swept
<1>6. ASSUME ~node[n].subdirs
      PROVE  recs[n] = node[n]
  <2>1. InTree(n)
    BY <1>3, <1>4, <1>6 DEF SafeInv, Orderly, FilesInTree, Counted
  <2>. QED
    BY <1>1, <1>2, <1>6, <2>1, CreatedFiles DEF Registered
<1>7. ASSUME node[n].subdirs
      PROVE  recs[n].subdirs
  <2>1. node[n] \in NodeRecord
    BY DEF SafeInv, TypeOK
  <2>2. WithDirs(p, Grown(p))[n].subdirs
    BY <1>7, <2>1 DEF WithDirs, NodeRecord
  <2>3. \A r, type : Installed(r, type).subdirs = r.subdirs
    BY DEF Installed
  <2>. QED
    BY <1>2, <2>2, <2>3 DEF Creation
<1>. QED
  BY <1>4, <1>5, <1>6, <1>7

Registers(n) ==
    /\ n \notin Registered /\ \A t \in Threads : at[t] # n
    /\ Registered' = Registered \cup {n}
    /\ Reapable' \in {Reapable, Reapable \cup {n}}
    /\ Doomed' = Doomed

LEMMA CreateFiles ==
    ASSUME SafeInv, Liberties = {}, NEW t \in Threads, NEW p \in Paths, Creates(t, p)
    PROVE  SameFiles \/ \E n \in Nodes : Registers(n)
<1>1. MayCreate(p)
  BY CreateRewrites DEF SafeInv
<1>2. PICK recs : /\ Creation(p, recs)
                  /\ \/ node' = recs /\ tree' = Grown(p)
                     \/ /\ node' = Swept(recs, tree', at')
                        /\ \A q \in Paths : tree'[q] \in {Grown(p)[q], 0}
  BY CreateRewrites DEF SafeInv
<1>3. \A n \in Nodes : InTree(n)' => Grown(p)[n[1]] = n[2] /\ node'[n] = recs[n]
  <2>1. \A n \in Nodes : n[1] \in Paths /\ n[2] # 0
    BY AccessAssumption DEF Nodes
  <2>. QED
    BY <1>2, <2>1 DEF Swept, InTree
<1>4. \A n \in Registered : InTree(n)' /\ node'[n] = node[n] /\ recs[n] = node[n]
  <2>1. \A n \in Registered : n \in Nodes /\ InTree(n) /\ ~node[n].subdirs
    BY DEF Registered
  <2>. QED
    BY <1>1, <1>2, <1>3, <2>1, CreateKeepsFiles, CreatedFiles DEF SafeInv
<1>5. Registered \subseteq Registered'
  <2>1. \A n \in Registered : n \in Nodes /\ ~node[n].subdirs
    BY DEF Registered
  <2>. QED
    BY <1>4, <2>1 DEF Registered
<1>6. ASSUME NEW n \in Registered' \ Registered
      PROVE  /\ p \in Made(p) /\ n = <<p, Grown(p)[p]>> /\ n \in Nodes
             /\ ~node'[n].pendingforunlink /\ \A u \in Threads : at[u] # n
  <2>1. n \in Nodes /\ InTree(n)' /\ ~node'[n].subdirs
    BY DEF Registered
  <2>2. node'[n] = recs[n] /\ Grown(p)[n[1]] = n[2]
    BY <1>3, <2>1
  <2>. QED
    BY <1>1, <1>2, <2>1, <2>2, CreatedFiles DEF Unused
<1>7. \A n \in Registered : /\ node'[n].transactions = node[n].transactions
                            /\ node'[n].pendingforunlink = node[n].pendingforunlink
  BY <1>4
<1>8. CASE Registered' = Registered
  BY <1>7, <1>8 DEF SameFiles, Reapable, Doomed
<1>9. CASE Registered' # Registered
  <2>1. PICK n : n \in Registered' \ Registered
    BY <1>5, <1>9
  <2>2. \A m \in Registered' \ Registered : m = n
    BY <1>6, <2>1
  <2>3. Registered' = Registered \cup {n}
    BY <1>5, <2>1, <2>2
  <2>4. Doomed' = Doomed
    BY <1>6, <1>7, <2>1, <2>3 DEF Doomed
  <2>5. Reapable' \in {Reapable, Reapable \cup {n}}
    BY <1>7, <2>3 DEF Reapable
  <2>. QED
    BY <1>6, <2>1, <2>3, <2>4, <2>5 DEF Registers
<1>. QED
  BY <1>8, <1>9

-----------------------------------------------------------------------------
(* Every step is a step of the registry, or changes nothing of it          *)

LEMMA Unpinned ==
    ASSUME TypeOK, NEW n \in Nodes, ~node[n].subdirs
    PROVE  Pins!PinnedBy(n) = Accessors(n)
<1>1. Pins!PinnedBy(n) = {t \in Threads : PinMap[t] = n}
  BY DEF Pins!PinnedBy, PinMap, PinOf
<1>. QED
  BY <1>1, PinnedIsAccessed

LEMMA MapStep ==
    ASSUME NEW t \in Threads, \A u \in Threads : u # t => PinOf(u)' = PinOf(u)
    PROVE  PinMap' = [PinMap EXCEPT ![t] = PinOf(t)']
BY DEF PinMap

LEMMA MapSame ==
    ASSUME \A u \in Threads : PinOf(u)' = PinOf(u)
    PROVE  PinMap' = PinMap
BY DEF PinMap

\* The actions of NodePins in terms of the mapped variables.
LEMMA RegistryActions ==
    /\ Pins!Next <=>
          \E f \in Nodes :
              \/ Pins!Register(f) \/ Pins!Doom(f) \/ Pins!Remove(f)
              \/ \E t \in Threads : Pins!Pin(t, f) \/ Pins!Unpin(t, f)
    /\ \A t, f :
          Pins!Pin(t, f) <=>
              /\ PinMap[t] = NoNode /\ f \in Registered
              /\ PinMap' = [PinMap EXCEPT ![t] = f] /\ SameFiles
    /\ \A t, f :
          Pins!Unpin(t, f) <=>
              /\ PinMap[t] = f /\ f # NoNode
              /\ PinMap' = [PinMap EXCEPT ![t] = NoNode]
              /\ IF f \in Doomed \cap Reapable /\ Pins!PinnedBy(f) = {t}
                 THEN Forgets(f) ELSE SameFiles
    /\ \A f :
          Pins!Doom(f) <=>
              /\ f \in Registered /\ Pins!PinnedBy(f) # {}
              /\ Doomed' = Doomed \cup {f}
              /\ UNCHANGED <<Registered, Reapable, PinMap>>
    /\ \A f :
          Pins!Remove(f) <=>
              /\ f \in Registered /\ Pins!PinnedBy(f) = {}
              /\ Forgets(f) /\ PinMap' = PinMap
    /\ \A f :
          Pins!Register(f) <=>
              /\ f \notin Registered /\ Pins!PinnedBy(f) = {}
              /\ Registered' = Registered \cup {f}
              /\ Reapable' \in {Reapable, Reapable \cup {f}}
              /\ UNCHANGED <<Doomed, PinMap>>
BY DEF Pins!Next, Pins!Pin, Pins!Unpin, Pins!Doom, Pins!Remove, Pins!Register, Pins!Forget,
       Reapable, Doomed, PinMap, PinOf, SameFiles, Forgets

RegistryStep == Pins!Next \/ (SameFiles /\ PinMap' = PinMap)

\* acquireAccessToNode: counting the access to a file pins it.
LEMMA CountIsPin ==
    ASSUME SafeInv, NEW t \in Threads, Count(t)
    PROVE  RegistryStep
<1>1. PICK n \in Nodes : n = at[t]
  BY AtNode DEF SafeInv, Count
<1>2. Step(t) /\ TypeOK
  BY DEF Step, SafeInv
<1>3. PICK recs : Rewrites(t, recs) /\ (GoesOn(t, recs) \/ EndsAt(t, recs))
  BY <1>2, StepRewrites
<1>4. pc[t] = "counting" /\ pc'[t] = "pinning" /\ at'[t] = n
  BY <1>1, <1>2 DEF Count, Goes, TypeOK
<1>5. GoesOn(t, recs)
  BY <1>3, <1>4 DEF EndsAt
<1>6. SameFiles
  BY <1>2, <1>3, <1>4, <1>5, GoesOnFiles
<1>7. PinOf(t) = NoNode /\ PinMap[t] = NoNode
  BY <1>4 DEF PinOf, PinMap, Counted
<1>8. PinOf(t)' = IF ~node[n].subdirs THEN n ELSE NoNode
  BY <1>1, <1>2, <1>4, HeldKeepsKind DEF PinOf, Counted
<1>9. PinMap' = [PinMap EXCEPT ![t] = PinOf(t)']
  BY <1>2, MapStep, OthersPins
<1>10. CASE node[n].subdirs
  <2>1. PinMap' = PinMap
    BY <1>7, <1>8, <1>9, <1>10 DEF PinMap
  <2>. QED
    BY <1>6, <2>1 DEF RegistryStep
<1>11. CASE ~node[n].subdirs
  <2>1. n \in Registered
    BY <1>1, <1>4, <1>11 DEF SafeInv, Orderly, FilesInTree, Registered
  <2>2. Pins!Pin(t, n)
    BY <1>6, <1>7, <1>8, <1>9, <1>11, <2>1, RegistryActions
  <2>. QED
    BY <2>2, RegistryActions DEF RegistryStep
<1>. QED
  BY <1>10, <1>11

\* Between the two, an access changes nothing of the registry.
LEMMA AccessStutters ==
    ASSUME SafeInv, NEW t \in Threads,
           Pin(t) \/ Drop(t) \/ Retake(t) \/ Unpin(t) \/ Leave(t)
    PROVE  RegistryStep
<1>1. Step(t) /\ TypeOK
  BY DEF Step, SafeInv
<1>2. PICK recs : Rewrites(t, recs) /\ (GoesOn(t, recs) \/ EndsAt(t, recs))
  BY <1>1, StepRewrites
<1>3. pc[t] \in Counted /\ pc'[t] \in Counted /\ pc[t] \notin {"uncounting", "unlinking"}
  BY <1>1 DEF Pin, Drop, Retake, Unpin, Leave, Goes, TypeOK, Counted
<1>4. GoesOn(t, recs)
  BY <1>2, <1>3 DEF EndsAt
<1>5. SameFiles
  BY <1>1, <1>2, <1>3, <1>4, GoesOnFiles
<1>6. PinOf(t)' = PinOf(t)
  BY <1>1, <1>3, HeldKeepsKind DEF PinOf, Counted
<1>7. PinMap' = PinMap
  BY <1>1, <1>6, OthersPins, MapSame
<1>. QED
  BY <1>5, <1>7 DEF RegistryStep

\* releaseAccessToNode: the end of an access unpins, and takes the file with it
\* exactly when the file was doomed, reapable and this its last pin.
LEMMA UncountIsUnpin ==
    ASSUME SafeInv, NEW t \in Threads, Uncount(t)
    PROVE  RegistryStep
<1>1. PICK n \in Nodes : n = at[t]
  BY AtNode DEF SafeInv, Uncount
<1>2. Step(t) /\ TypeOK
  BY DEF Step, SafeInv
<1>3. PICK recs : Rewrites(t, recs) /\ (GoesOn(t, recs) \/ EndsAt(t, recs))
  BY <1>2, StepRewrites
<1>4. /\ pc[t] = "uncounting" /\ pc'[t] = "idle"
      /\ at'[t] = NoNode /\ at[t] # NoNode
  BY <1>2 DEF Uncount, Goes, TypeOK
<1>5. EndsAt(t, recs)
  BY <1>3, <1>4 DEF GoesOn
<1>6. PinOf(t)' = NoNode
  BY <1>4 DEF PinOf, Counted
<1>7. PinMap' = [PinMap EXCEPT ![t] = NoNode]
  BY <1>2, <1>6, MapStep, OthersPins
<1>8. PinMap[t] = IF ~node[n].subdirs THEN n ELSE NoNode
  BY <1>1, <1>4 DEF PinMap, PinOf, Counted
<1>9. tree' = tree => SameFiles
  BY <1>1, <1>2, <1>3, <1>4, <1>5, EndsAtFiles DEF SameFiles, Doomed
<1>10. tree' # tree => n \in Registered /\ Forgets(n) /\ Accessors(n) \subseteq {t}
  BY <1>1, <1>2, <1>3, <1>5, EndsAtFiles
<1>11. CASE node[n].subdirs
  <2>1. tree' = tree
    BY <1>10, <1>11 DEF Registered
  <2>2. PinMap' = PinMap
    BY <1>7, <1>8, <1>11 DEF PinMap
  <2>. QED
    BY <1>9, <2>1, <2>2 DEF RegistryStep
<1>12. CASE ~node[n].subdirs
  <2>1. n \in Registered /\ t \in Accessors(n) /\ n # NoNode /\ InTree(n)
    BY <1>1, <1>4, <1>12 DEF SafeInv, Orderly, FilesInTree, Registered, Accessors, Counted
  <2>2. Pins!PinnedBy(n) = Accessors(n)
    BY <1>2, <1>12, Unpinned
  <2>3. PICK r : /\ r = Recounted(node[n], -1)
                 /\ tree' = IF Reaps(r) THEN Pruned(n[1]) ELSE tree
    BY <1>1 DEF Uncount
  <2>4. /\ node[n] \in NodeRecord
        /\ r.pendingforunlink = node[n].pendingforunlink
        /\ r.transactions = node[n].transactions
        /\ r.concurrent_access_counter = Cardinality(Accessors(n)) - 1
    <3>1. node[n] \in NodeRecord /\ node[n].concurrent_access_counter = Cardinality(Accessors(n))
      BY <1>2 DEF SafeInv, TypeOK, AccessCounted
    <3>. QED
      BY <2>3, <3>1 DEF Recounted, NodeRecord
  <2>5. Reaps(r) <=> tree' # tree
    <3>1. Pruned(n[1]) # tree
      BY <2>1, PrunedTree DEF SafeInv, InTree
    <3>. QED
      BY <2>3, <3>1
  <2>6. n \in Doomed \cap Reapable <=> r.pendingforunlink /\ r.transactions
    BY <2>1, <2>4 DEF Doomed, Reapable
  <2>7. Accessors(n) = {t} => Reaps(r) \/ ~(r.pendingforunlink /\ r.transactions)
    <3>1. SUFFICES ASSUME Accessors(n) = {t} PROVE Idle(r)
      BY DEF Reaps
    <3>2. Cardinality(Accessors(n)) = 1
      BY <3>1, FS_Singleton
    <3>. QED
      BY <2>4, <3>2 DEF Idle
  <2>8. Reaps(r) => Accessors(n) = {t} /\ r.pendingforunlink /\ r.transactions
    BY <1>10, <2>1, <2>5 DEF Reaps
  <2>9. Pins!Unpin(t, n)
    BY <1>7, <1>8, <1>9, <1>10, <1>12, <2>1, <2>2, <2>5, <2>6, <2>7, <2>8, RegistryActions
  <2>. QED
    BY <2>9, RegistryActions DEF RegistryStep
<1>. QED
  BY <1>11, <1>12

\* procfuse_unlink: a file in use is doomed, one that is not is removed.
LEMMA MarkIsUnlink ==
    ASSUME SafeInv, NEW t \in Threads, Mark(t)
    PROVE  RegistryStep
<1>1. PICK n \in Nodes : n = at[t]
  BY AtNode DEF SafeInv, Mark
<1>2. Step(t) /\ TypeOK
  BY DEF Step, SafeInv
<1>3. PICK recs : Rewrites(t, recs) /\ (GoesOn(t, recs) \/ EndsAt(t, recs))
  BY <1>2, StepRewrites
<1>4. /\ pc[t] = "unlinking" /\ pc'[t] = "idle"
      /\ at'[t] = NoNode /\ at[t] # NoNode
  BY <1>2 DEF Mark, Goes, TypeOK
<1>5. EndsAt(t, recs)
  BY <1>3, <1>4 DEF GoesOn
<1>6. PinOf(t)' = PinOf(t)
  BY <1>4 DEF PinOf, Counted
<1>7. PinMap' = PinMap
  BY <1>2, <1>6, OthersPins, MapSame
<1>8. ~node[n].subdirs /\ InTree(n) /\ n \in Registered
  BY <1>1, <1>4 DEF SafeInv, Orderly, UnlinksFile, FilesInTree, Registered
<1>9. Pins!PinnedBy(n) = Accessors(n)
  BY <1>2, <1>8, Unpinned
<1>10. tree' = tree => /\ UNCHANGED <<Registered, Reapable>>
                      /\ Doomed' = Doomed \cup {n}
  BY <1>1, <1>2, <1>3, <1>4, <1>5, <1>8, EndsAtFiles
<1>11. tree' # tree => Forgets(n) /\ Accessors(n) \subseteq {t}
  BY <1>1, <1>2, <1>3, <1>5, EndsAtFiles
<1>12. t \notin Accessors(n)
  BY <1>4 DEF Accessors, Counted
<1>13. CASE tree' = tree
  <2>1. ~Idle(node[n])
    <3>1. Pruned(n[1]) # tree
      BY <1>8, PrunedTree DEF SafeInv, InTree
    <3>. QED
      BY <1>1, <1>13, <3>1 DEF Mark
  <2>2. Accessors(n) # {}
    BY <2>1, NoThreads DEF Idle, SafeInv, AccessCounted
  <2>3. Pins!Doom(n)
    BY <1>7, <1>8, <1>9, <1>10, <1>13, <2>2, RegistryActions
  <2>. QED
    BY <2>3, RegistryActions DEF RegistryStep
<1>14. CASE tree' # tree
  <2>1. Accessors(n) = {}
    BY <1>11, <1>12, <1>14
  <2>2. Pins!Remove(n)
    BY <1>7, <1>8, <1>9, <1>11, <1>14, <2>1, RegistryActions
  <2>. QED
    BY <2>2, RegistryActions DEF RegistryStep
<1>. QED
  BY <1>13, <1>14

\* A lookup changes nothing; a creation registers its file.
LEMMA CallIsRegister ==
    ASSUME SafeInv, Liberties = {}, NEW t \in Threads, Call(t)
    PROVE  RegistryStep
<1>. PICK p \in Paths : Acquire(t, p) \/ Fault(t, p) \/ Unlink(t, p) \/ Creates(t, p)
  BY DEF Call, Creates
<1>1. CASE Acquire(t, p) \/ Fault(t, p) \/ Unlink(t, p)
  <2>1. /\ UNCHANGED <<tree, node>>
        /\ \A u \in Threads :
              \/ pc'[u] = pc[u] /\ at'[u] = at[u]
              \/ pc[u] \notin Counted /\ pc'[u] \notin Counted
    BY <1>1 DEF Acquire, Fault, Unlink, Enters, Goes, SafeInv, TypeOK, Counted
  <2>2. SameFiles
    BY <2>1 DEF SameFiles, Registered, Reapable, Doomed, InTree
  <2>3. PinMap' = PinMap
    BY <2>1, MapSame DEF PinOf
  <2>. QED
    BY <2>2, <2>3 DEF RegistryStep
<1>2. CASE Creates(t, p)
  <2>1. PinMap' = PinMap
    BY <1>2, CreatePins, MapSame
  <2>2. ASSUME NEW n \in Nodes, Registers(n) PROVE Pins!Next
    <3>1. n # NoNode
      BY AccessAssumption
    <3>2. Pins!PinnedBy(n) = {}
      BY <2>2, <3>1 DEF Pins!PinnedBy, Registers
    <3>3. Pins!Register(n)
      BY <2>1, <2>2, <3>2, RegistryActions DEF Registers
    <3>. QED
      BY <3>3, RegistryActions
  <2>. QED
    BY <1>2, <2>1, <2>2, CreateFiles DEF RegistryStep
<1>. QED
  BY <1>1, <1>2

LEMMA NextIsRegistryStep ==
    ASSUME SafeInv, Liberties = {}, [Next]_vars
    PROVE  [Pins!Next]_(Pins!pinvars)
<1>1. RegistryStep
  <2>1. CASE UNCHANGED vars
    BY <2>1 DEF vars, RegistryStep, SameFiles, Registered, Reapable, Doomed, PinMap, PinOf, InTree
  <2>. QED
    BY <2>1, CountIsPin, AccessStutters, UncountIsUnpin, MarkIsUnlink, CallIsRegister
    DEF Next, Dead, Step
<1>. QED
  BY <1>1 DEF RegistryStep, SameFiles, Pins!pinvars, Reapable, Doomed, PinMap, PinOf

LEMMA InitIsRegistryInit == Init => Pins!Init
<1>. SUFFICES ASSUME Init PROVE Pins!Init
  OBVIOUS
<1>1. Registered = {}
  BY AccessAssumption DEF Init, Registered, InTree, Nodes
<1>2. PinMap = [t \in Threads |-> NoNode]
  BY DEF Init, PinMap, PinOf, Counted
<1>. QED
  BY <1>1, <1>2 DEF Pins!Init, PinMap, PinOf

\* When the application takes no liberties, procfuse's accesses and unlinks are
\* the registry of NodePins: locks, counters, the tree and its pruning never
\* show, whatever the interleaving.
THEOREM AccessesImplementPins ==
    ASSUME Liberties = {}
    PROVE  Spec => PinsSpec
<1>1. SafeInv /\ [Next]_vars => [Pins!Next]_(Pins!pinvars)
  BY NextIsRegistryStep
<1>. QED
  BY <1>1, InitIsRegistryInit, AllIsOrderly, PTL DEF Spec, PinsSpec, Pins!Spec
=============================================================================
