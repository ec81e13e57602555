-------------------------- MODULE NodeAccess_proof --------------------------
(***************************************************************************)
(* The access protocol for any number of threads, any paths and any bound  *)
(* on generations: its types and, as long as the application creates no    *)
(* path that is there already, that the access counter and the lock of     *)
(* every node tell the truth about the threads.                            *)
(***************************************************************************)
EXTENDS NodeAccess, FiniteSetTheorems, TLAPS

-----------------------------------------------------------------------------
(* Lemmas about the tree and the nodes                                     *)

\* The path a lookup ends at is a path when the lookup finds something there,
\* and then the tree has a node for it.
LEMMA FoundNode ==
    ASSUME TypeOK, NEW p \in Paths, Found(Present, Dirs, p)
    PROVE  <<Target(Dirs, p), tree[Target(Dirs, p)]>> \in Nodes
<1>1. Target(Dirs, p) \in Paths /\ tree[Target(Dirs, p)] # 0
  BY DEF Found, Present
<1>2. tree[Target(Dirs, p)] \in 1..MaxGen
  BY <1>1, AccessAssumption DEF TypeOK
<1>. QED
  BY <1>1, <1>2 DEF Nodes

LEMMA BlankType == Blank \in NodeRecord
BY DEF Blank, NodeRecord, Types

\* Forgetting the unreachable nodes keeps the type of the node table.
LEMMA SweptType ==
    ASSUME NEW recs \in [Nodes -> NodeRecord], NEW tr, NEW holds
    PROVE  Swept(recs, tr, holds) \in [Nodes -> NodeRecord]
BY BlankType DEF Swept

LEMMA LockedType ==
    ASSUME NEW r \in NodeRecord, NEW t \in Threads, NEW m
    PROVE  Locked(r, m, t) \in NodeRecord
BY DEF Locked, NodeRecord

LEMMA UnlockedType ==
    ASSUME NEW r \in NodeRecord, NEW t \in Threads
    PROVE  Unlocked(r, t) \in NodeRecord
BY DEF Unlocked, NodeRecord

LEMMA RecountedType ==
    ASSUME NEW r \in NodeRecord, NEW d \in Int
    PROVE  /\ Recounted(r, d) \in NodeRecord
           /\ Recounted(r, d).concurrent_access_counter = r.concurrent_access_counter + d
           /\ Recounted(r, d).readers = r.readers /\ Recounted(r, d).writer = r.writer
           /\ Recounted(r, d).pendingforunlink = r.pendingforunlink
BY DEF Recounted, NodeRecord

LEMMA MarkedType ==
    ASSUME NEW r \in NodeRecord
    PROVE  Marked(r) \in NodeRecord
BY DEF Marked, NodeRecord

LEMMA InstalledType ==
    ASSUME NEW r \in NodeRecord, NEW type \in Types
    PROVE  Installed(r, type) \in NodeRecord
<1>1. (r.transactions \/ type = "scalar") \in BOOLEAN
  OBVIOUS
<1>2. r.subdirs \in BOOLEAN
  BY DEF NodeRecord
<1>. QED
  BY <1>1, <1>2 DEF Installed, NodeRecord

LEMMA WithDirsType ==
    ASSUME TypeOK, NEW p, NEW tr
    PROVE  WithDirs(p, tr) \in [Nodes -> NodeRecord]
<1>1. \A n \in Nodes : node[n] \in NodeRecord
  BY DEF TypeOK
<1>2. \A r \in NodeRecord : [r EXCEPT !.subdirs = TRUE] \in NodeRecord
  BY DEF NodeRecord
<1>. QED
  BY <1>1, <1>2 DEF WithDirs

\* The components of a path are paths.
LEMMA MadePaths ==
    ASSUME NEW p \in Paths
    PROVE  Made(p) \subseteq Paths
BY PathsAssumption DEF Made, Upto

\* A generation chosen for a new node is one nobody uses.
LEMMA NewGenUnused ==
    ASSUME NEW p, \E g \in 1..MaxGen : Unused(<<p, g>>)
    PROVE  NewGen(p) \in 1..MaxGen /\ Unused(<<p, NewGen(p)>>)
BY DEF NewGen

\* The walk of a create adds nodes of a generation that exists.
LEMMA GrownType ==
    ASSUME TypeOK, NEW p \in Paths, MayCreate(p)
    PROVE  /\ Grown(p) \in [Paths -> 0..MaxGen]
           /\ \A q \in Made(p) : <<q, Grown(p)[q]>> \in Nodes
<1>1. ASSUME NEW q \in Paths
      PROVE  /\ Grown(p)[q] \in 0..MaxGen
             /\ q \in Made(p) => Grown(p)[q] \in 1..MaxGen
  <2>1. CASE q \in Made(p) /\ tree[q] = 0
    <3>1. q \in Made(p) \ Present
      BY <2>1 DEF Present
    <3>2. NewGen(q) \in 1..MaxGen
      BY <3>1, NewGenUnused DEF MayCreate
    <3>. QED
      BY <2>1, <3>2, AccessAssumption DEF Grown
  <2>2. CASE ~(q \in Made(p) /\ tree[q] = 0)
    <3>1. Grown(p)[q] = tree[q] /\ tree[q] \in 0..MaxGen
      BY <2>2 DEF Grown, TypeOK
    <3>. QED
      BY <2>2, <3>1, AccessAssumption
  <2>. QED
    BY <2>1, <2>2
<1>. QED
  BY <1>1, MadePaths DEF Grown, Nodes

LEMMA PrunedType ==
    ASSUME TypeOK, NEW p
    PROVE  Pruned(p) \in [Paths -> 0..MaxGen]
BY AccessAssumption DEF Pruned, TypeOK

-----------------------------------------------------------------------------
(* Type correctness                                                        *)

LEMMA ScriptType ==
    ASSUME NEW op \in Ops, NEW r, NEW s \in Script(op, r)
    PROVE  s \in Seq({"R", "W"})
<1>1. /\ <<>> \in Seq({"R", "W"})
      /\ UpDown \in Seq({"R", "W"})
      /\ NestedUpDown \in Seq({"R", "W"})
  BY DEF UpDown, NestedUpDown
<1>2. UpDown \o UpDown \in Seq({"R", "W"})
  BY <1>1
<1>3. \A flags : Handler(op, r, flags) \subseteq Seq({"R", "W"})
  BY <1>1, <1>2 DEF Handler, Ops, ProbeScript, OpenScript, ReadScript, WriteScript, TruncateScript,
                    ReleaseScript
<1>. QED
  BY <1>1, <1>3 DEF Script

\* An open takes no lock besides the one it has: O_RDONLY has no bits.
LEMMA OpenTakesNoLock ==
    ASSUME NEW r
    PROVE  Script("open", r) \subseteq {<<>>}
<1>1. \A flags : OpenScript(r, flags) = {<<>>}
  BY DEF OpenScript, Has, O_RDONLY
<1>2. \A flags : Handler("open", r, flags) = {<<>>}
  BY <1>1 DEF Handler
<1>. QED
  BY <1>2 DEF Script

LEMMA TypeInit == Init => TypeOK
<1>. SUFFICES ASSUME Init PROVE TypeOK
  OBVIOUS
<1>1. tree \in [Paths -> 0..MaxGen]
  BY AccessAssumption DEF Init
<1>2. node \in [Nodes -> NodeRecord]
  BY BlankType DEF Init
<1>3. \A t \in Threads : at[t] = NoNode <=> pc[t] = "idle"
  BY DEF Init
<1>4. todo \in [Threads -> Seq({"R", "W"})]
  BY DEF Init
<1>. QED
  BY <1>1, <1>2, <1>3, <1>4 DEF Init, TypeOK, Counted

\* A thread whose call is under way has a node.
LEMMA AtNode ==
    ASSUME TypeOK, NEW t \in Threads, pc[t] # "idle"
    PROVE  at[t] \in Nodes /\ node[at[t]] \in NodeRecord
BY DEF TypeOK

LEMMA TypeStep ==
    ASSUME TypeOK, NEW t \in Threads, Step(t)
    PROVE  TypeOK'
<1>. USE DEF Goes
<1>1. CASE Count(t)
  <2>1. node' \in [Nodes -> NodeRecord]
    BY <1>1, RecountedType, AtNode DEF Count, TypeOK
  <2>. QED
    BY <1>1, <2>1, AtNode DEF Count, TypeOK, Counted
<1>2. CASE Pin(t)
  <2>1. node' \in [Nodes -> NodeRecord]
    BY <1>2, LockedType, AtNode DEF Pin, TypeOK
  <2>2. todo' \in [Threads -> Seq({"R", "W"})]
    BY <1>2, ScriptType DEF Pin, TypeOK
  <2>3. granted' \in [Threads -> BOOLEAN]
    BY <1>2 DEF Pin, TypeOK, OpenGranted
  <2>. QED
    BY <1>2, <2>1, <2>2, <2>3, AtNode DEF Pin, TypeOK, Counted
<1>3. CASE Drop(t)
  <2>1. node' \in [Nodes -> NodeRecord]
    BY <1>3, UnlockedType, AtNode DEF Drop, TypeOK
  <2>. QED
    BY <1>3, <2>1, AtNode DEF Drop, TypeOK, Counted
<1>4. CASE Retake(t)
  <2>1. node' \in [Nodes -> NodeRecord]
    BY <1>4, LockedType, AtNode DEF Retake, TypeOK
  <2>2. Head(todo[t]) \in {"R", "W"} /\ Tail(todo[t]) \in Seq({"R", "W"})
    BY <1>4 DEF Retake, TypeOK
  <2>. QED
    BY <1>4, <2>1, <2>2, AtNode DEF Retake, TypeOK, Counted
<1>5. CASE Unpin(t)
  <2>1. node' \in [Nodes -> NodeRecord]
    BY <1>5, UnlockedType, AtNode DEF Unpin, TypeOK
  <2>. QED
    BY <1>5, <2>1, AtNode DEF Unpin, TypeOK, Counted
<1>6. CASE Leave(t)
  BY <1>6, AtNode DEF Leave, TypeOK, Counted
<1>7. CASE Uncount(t)
  <2>. DEFINE n == at[t]
              r == Recounted(node[n], -1)
  <2>1. n \in Nodes /\ node[n] \in NodeRecord
    BY <1>7, AtNode DEF Uncount
  <2>2. r \in NodeRecord
    BY <2>1, RecountedType
  <2>3. [node EXCEPT ![n] = r] \in [Nodes -> NodeRecord]
    BY <2>1, <2>2 DEF TypeOK
  <2>4. node' \in [Nodes -> NodeRecord]
    BY <1>7, <2>3, SweptType DEF Uncount
  <2>5. tree' \in [Paths -> 0..MaxGen]
    BY <1>7, PrunedType DEF Uncount, TypeOK
  <2>. QED
    BY <1>7, <2>4, <2>5 DEF Uncount, TypeOK, Counted
<1>8. CASE Mark(t)
  <2>1. at[t] \in Nodes
    BY <1>8, AtNode DEF Mark
  <2>2. [node EXCEPT ![at[t]] = Marked(@)] \in [Nodes -> NodeRecord]
    BY <2>1, MarkedType DEF TypeOK
  <2>3. node' \in [Nodes -> NodeRecord]
    BY <1>8, <2>2, SweptType DEF Mark
  <2>4. tree' \in [Paths -> 0..MaxGen]
    BY <1>8, PrunedType DEF Mark, TypeOK
  <2>. QED
    BY <1>8, <2>3, <2>4 DEF Mark, TypeOK, Counted
<1>. QED
  BY <1>1, <1>2, <1>3, <1>4, <1>5, <1>6, <1>7, <1>8 DEF Step

LEMMA TypeCall ==
    ASSUME TypeOK, NEW t \in Threads, Call(t)
    PROVE  TypeOK'
<1>. PICK p \in Paths :
        \/ Acquire(t, p) \/ Fault(t, p) \/ Unlink(t, p)
        \/ \E type \in Types : Create(t, p, type)
        \/ CreateTooLong(t, p) \/ CreateNoFile(t, p)
  BY DEF Call
<1>. USE DEF Enters, Goes
<1>1. CASE Acquire(t, p)
  BY <1>1, FoundNode, AccessAssumption DEF Acquire, TypeOK, Counted
<1>2. CASE Fault(t, p)
  BY <1>2 DEF Fault, TypeOK
<1>3. CASE Unlink(t, p)
  BY <1>3, FoundNode, AccessAssumption DEF Unlink, TypeOK, Counted
<1>4. ASSUME NEW type \in Types, Create(t, p, type) PROVE TypeOK'
  <2>1. tree' = Grown(p) /\ MayCreate(p) /\ p \in Made(p)
    BY <1>4 DEF Create
  <2>2. tree' \in [Paths -> 0..MaxGen] /\ <<p, tree'[p]>> \in Nodes
    BY <2>1, GrownType
  <2>3. node' \in [Nodes -> NodeRecord]
    BY <1>4, <2>2, WithDirsType, InstalledType DEF Create
  <2>. QED
    BY <1>4, <2>2, <2>3 DEF Create, TypeOK
<1>5. CASE CreateTooLong(t, p)
  <2>1. tree' \in [Paths -> 0..MaxGen] /\ node' \in [Nodes -> NodeRecord]
    BY <1>5, GrownType, WithDirsType DEF CreateTooLong
  <2>. QED
    BY <1>5, <2>1 DEF CreateTooLong, TypeOK
<1>6. CASE CreateNoFile(t, p)
  <2>. DEFINE recs == [WithDirs(p, Grown(p)) EXCEPT
                          ![<<p, Grown(p)[p]>>] = Installed(@, "bytes")]
  <2>1. Grown(p) \in [Paths -> 0..MaxGen] /\ <<p, Grown(p)[p]>> \in Nodes
    BY <1>6, GrownType DEF CreateNoFile
  <2>2. recs \in [Nodes -> NodeRecord]
    BY <2>1, WithDirsType, InstalledType DEF Types
  <2>3. tree' \in [Paths -> 0..MaxGen]
    BY <1>6, <2>1, AccessAssumption DEF CreateNoFile
  <2>4. node' = Swept(recs, tree', at)
    BY <1>6 DEF CreateNoFile
  <2>5. node' \in [Nodes -> NodeRecord]
    BY <2>2, <2>4, SweptType
  <2>. QED
    BY <1>6, <2>3, <2>5 DEF CreateNoFile, TypeOK
<1>. QED
  BY <1>1, <1>2, <1>3, <1>4, <1>5, <1>6

LEMMA TypeNext == TypeOK /\ [Next]_vars => TypeOK'
<1>1. TypeOK /\ UNCHANGED vars => TypeOK'
  BY DEF TypeOK, vars
<1>. QED
  BY <1>1, TypeStep, TypeCall DEF Next, Dead

\* The model is well typed in every instance; in particular a thread never goes
\* on with a call whose lookup returned NULL, whatever liberties are taken.
THEOREM TypeCorrect == Spec => []TypeOK
BY TypeInit, TypeNext, PTL DEF Spec

-----------------------------------------------------------------------------
(* Locks and counters                                                      *)

\* A thread holds the lock of its node exactly between Pin or Retake and Drop or
\* Unpin.
HeldIsLocked == \A t \in Threads : mode[t] # "none" <=> pc[t] = "held"

LockInv == LockHeldAsBelieved /\ HeldIsLocked

-----------------------------------------------------------------------------
(* Lemmas about threads                                                    *)

LEMMA SomeThreadsFinite ==
    ASSUME NEW S \in SUBSET Threads
    PROVE  IsFiniteSet(S) /\ Cardinality(S) \in Nat
BY AccessAssumption, FS_Subset, FS_CardinalityType

LEMMA NoThreads == Cardinality({}) = 0
BY FS_EmptySet

\* A thread joins or leaves.
LEMMA OneMore ==
    ASSUME NEW S \in SUBSET Threads, NEW t \in Threads \ S
    PROVE  Cardinality(S \cup {t}) = Cardinality(S) + 1
BY SomeThreadsFinite, FS_AddElement

LEMMA OneLess ==
    ASSUME NEW S \in SUBSET Threads, NEW t \in S
    PROVE  Cardinality(S \ {t}) = Cardinality(S) - 1
BY SomeThreadsFinite, FS_RemoveElement

LEMMA NobodyThere ==
    ASSUME NEW S \in SUBSET Threads, Cardinality(S) = 0
    PROVE  S = {}
BY SomeThreadsFinite, FS_EmptySet

LEMMA SetsOfThreads == \A n : Accessors(n) \subseteq Threads /\ Readers(n) \subseteq Threads
BY DEF Accessors, Readers

-----------------------------------------------------------------------------
(* Steps that leave the counters, or the locks, as they were               *)

\* A node with a new record is one that no thread has.
Untouched(n) == \A t \in Threads : at'[t] # n

LEMMA CountFrame ==
    ASSUME AccessCounted,
           \A n \in Nodes :
               \/ /\ node'[n].concurrent_access_counter = node[n].concurrent_access_counter
                  /\ Accessors(n)' = Accessors(n)
               \/ node'[n].concurrent_access_counter = 0 /\ Untouched(n)
    PROVE  AccessCounted'
<1>1. \A n \in Nodes : Untouched(n) => Accessors(n)' = {}
  BY DEF Untouched, Accessors
<1>. QED
  BY <1>1, NoThreads DEF AccessCounted

\* What LockHeldAsBelieved says of one node.
LockTrue(n) ==
    /\ node[n].readers = Cardinality(Readers(n))
    /\ \A t \in Threads : node[n].writer = t <=> at[t] = n /\ mode[t] = "W"
    /\ node[n].writer # NoThread => node[n].readers = 0

LEMMA LockTrueAll == LockHeldAsBelieved <=> \A n \in Nodes : LockTrue(n)
BY DEF LockHeldAsBelieved, LockTrue

LEMMA LockFrame ==
    ASSUME NEW n \in Nodes, LockTrue(n),
           \/ /\ node'[n].readers = node[n].readers /\ node'[n].writer = node[n].writer
              /\ \A t \in Threads : \A m \in {"R", "W"} :
                     at'[t] = n /\ mode'[t] = m <=> at[t] = n /\ mode[t] = m
           \/ node'[n].readers = 0 /\ node'[n].writer = NoThread /\ Untouched(n)
    PROVE  LockTrue(n)'
<1>1. CASE /\ node'[n].readers = node[n].readers /\ node'[n].writer = node[n].writer
           /\ \A t \in Threads : \A m \in {"R", "W"} :
                  at'[t] = n /\ mode'[t] = m <=> at[t] = n /\ mode[t] = m
  <2>1. Readers(n)' = Readers(n)
    BY <1>1 DEF Readers
  <2>. QED
    BY <1>1, <2>1 DEF LockTrue
<1>2. CASE node'[n].readers = 0 /\ node'[n].writer = NoThread /\ Untouched(n)
  <2>1. Readers(n)' = {}
    BY <1>2 DEF Readers, Untouched
  <2>. QED
    BY <1>2, <2>1, NoThreads, AccessAssumption DEF LockTrue, Untouched
<1>. QED
  BY <1>1, <1>2

\* Forgetting unreachable nodes changes only nodes no thread has.
LEMMA SweptStep ==
    ASSUME NEW recs, node' = Swept(recs, tree', at')
    PROVE  \A n \in Nodes : node'[n] = recs[n] \/ (node'[n] = Blank /\ Untouched(n))
BY DEF Swept, Untouched

\* A create that does not re-create sets up a node no thread has, and changes
\* nothing but subdirs of the others.
LEMMA CreatedNode ==
    ASSUME TypeOK, "recreate" \notin Liberties,
           NEW p \in Paths, MayCreate(p), p \in Made(p)
    PROVE  \A t \in Threads : at[t] # <<p, Grown(p)[p]>>
<1>1. p \notin Present /\ p \in Made(p) \ Present
  BY DEF MayCreate
<1>2. tree[p] = 0
  BY <1>1 DEF Present
<1>3. Unused(<<p, NewGen(p)>>)
  BY <1>1, NewGenUnused DEF MayCreate
<1>4. Grown(p)[p] = NewGen(p)
  BY <1>2 DEF Grown
<1>. QED
  BY <1>3, <1>4 DEF Unused

LEMMA WithDirsNode ==
    ASSUME TypeOK, NEW p, NEW tr, NEW n \in Nodes
    PROVE  /\ WithDirs(p, tr)[n].concurrent_access_counter = node[n].concurrent_access_counter
           /\ WithDirs(p, tr)[n].readers = node[n].readers
           /\ WithDirs(p, tr)[n].writer = node[n].writer
           /\ WithDirs(p, tr)[n].pendingforunlink = node[n].pendingforunlink
<1>1. node[n] \in NodeRecord
  BY DEF TypeOK
<1>. QED
  BY <1>1 DEF WithDirs, NodeRecord

-----------------------------------------------------------------------------
(* The counter                                                             *)

LEMMA CountStep ==
    ASSUME TypeOK, AccessCounted, NEW t \in Threads, Step(t)
    PROVE  AccessCounted'
<1>. USE DEF Goes
<1>. \A n \in Nodes : node[n] \in NodeRecord
  BY DEF TypeOK
<1>1. CASE Count(t)
  <2>1. PICK n \in Nodes : n = at[t]
    BY <1>1, AtNode DEF Count
  <2>2. node'[n].concurrent_access_counter = node[n].concurrent_access_counter + 1
    BY <1>1, <2>1, RecountedType DEF Count, TypeOK
  <2>3. t \notin Accessors(n) /\ Accessors(n)' = Accessors(n) \cup {t}
    BY <1>1, <2>1 DEF Count, Accessors, Counted, TypeOK
  <2>4. Cardinality(Accessors(n)') = Cardinality(Accessors(n)) + 1
    BY <2>3, OneMore, SetsOfThreads
  <2>5. ASSUME NEW m \in Nodes, m # n
        PROVE  node'[m] = node[m] /\ Accessors(m)' = Accessors(m)
    BY <1>1, <2>1, <2>5 DEF Count, Accessors, TypeOK
  <2>. QED
    BY <2>1, <2>2, <2>4, <2>5 DEF AccessCounted
<1>2. CASE Pin(t)
  <2>1. \A n \in Nodes : Accessors(n)' = Accessors(n)
    BY <1>2 DEF Pin, Accessors, Counted, TypeOK
  <2>2. \A n \in Nodes :
            node'[n].concurrent_access_counter = node[n].concurrent_access_counter
    BY <1>2, AtNode DEF Pin, Locked, TypeOK, NodeRecord
  <2>. QED
    BY <2>1, <2>2, CountFrame
<1>3. CASE Drop(t)
  <2>1. \A n \in Nodes : Accessors(n)' = Accessors(n)
    BY <1>3 DEF Drop, Accessors, Counted, TypeOK
  <2>2. \A n \in Nodes :
            node'[n].concurrent_access_counter = node[n].concurrent_access_counter
    BY <1>3, AtNode DEF Drop, Unlocked, TypeOK, NodeRecord
  <2>. QED
    BY <2>1, <2>2, CountFrame
<1>4. CASE Retake(t)
  <2>1. \A n \in Nodes : Accessors(n)' = Accessors(n)
    BY <1>4 DEF Retake, Accessors, Counted, TypeOK
  <2>2. \A n \in Nodes :
            node'[n].concurrent_access_counter = node[n].concurrent_access_counter
    BY <1>4, AtNode DEF Retake, Locked, TypeOK, NodeRecord
  <2>. QED
    BY <2>1, <2>2, CountFrame
<1>5. CASE Unpin(t)
  <2>1. \A n \in Nodes : Accessors(n)' = Accessors(n)
    BY <1>5 DEF Unpin, Accessors, Counted, TypeOK
  <2>2. \A n \in Nodes :
            node'[n].concurrent_access_counter = node[n].concurrent_access_counter
    BY <1>5, AtNode DEF Unpin, Unlocked, TypeOK, NodeRecord
  <2>. QED
    BY <2>1, <2>2, CountFrame
<1>6. CASE Leave(t)
  <2>1. \A n \in Nodes : Accessors(n)' = Accessors(n)
    BY <1>6 DEF Leave, Accessors, Counted, TypeOK
  <2>. QED
    BY <1>6, <2>1 DEF Leave, AccessCounted
<1>7. CASE Uncount(t)
  <2>0. PICK n \in Nodes : n = at[t]
    BY <1>7, AtNode DEF Uncount
  <2>1. PICK recs : /\ recs = [node EXCEPT ![n] = Recounted(node[n], -1)]
                    /\ node' = Swept(recs, tree', at')
    BY <1>7, <2>0 DEF Uncount
  <2>2. t \in Accessors(n) /\ Accessors(n)' = Accessors(n) \ {t}
    BY <1>7, <2>0, AccessAssumption DEF Uncount, Accessors, Counted, TypeOK
  <2>3. Cardinality(Accessors(n)') = Cardinality(Accessors(n)) - 1
    BY <2>2, OneLess, SetsOfThreads
  <2>4. recs[n].concurrent_access_counter = node[n].concurrent_access_counter - 1
    <3>1. recs[n] = Recounted(node[n], -1)
      BY <2>1 DEF TypeOK
    <3>2. node[n].concurrent_access_counter \in Int
      BY DEF NodeRecord
    <3>3. -1 \in Int
      OBVIOUS
    <3>4. recs[n].concurrent_access_counter = node[n].concurrent_access_counter + (-1)
      BY <3>1, <3>3, RecountedType
    <3>. QED
      BY <3>2, <3>4
  <2>5. ASSUME NEW m \in Nodes, m # n
        PROVE  recs[m] = node[m] /\ Accessors(m)' = Accessors(m)
    BY <1>7, <2>0, <2>1, <2>5, AccessAssumption DEF Uncount, Accessors, TypeOK
  <2>6. \A m \in Nodes : recs[m].concurrent_access_counter = Cardinality(Accessors(m)')
    BY <2>1, <2>3, <2>4, <2>5 DEF AccessCounted
  <2>7. ASSUME NEW m \in Nodes, node'[m] = Blank, Untouched(m)
        PROVE  node'[m].concurrent_access_counter = Cardinality(Accessors(m)')
    <3>1. Accessors(m)' = {}
      BY <2>7 DEF Accessors, Untouched
    <3>. QED
      BY <2>7, <3>1, NoThreads DEF Blank
  <2>8. node' = Swept(recs, tree', at')
    BY <2>1
  <2>9. \A m \in Nodes : node'[m] = recs[m] \/ (node'[m] = Blank /\ Untouched(m))
    BY <2>8, SweptStep
  <2>. QED
    BY <2>6, <2>7, <2>9 DEF AccessCounted
<1>8. CASE Mark(t)
  <2>1. PICK recs : /\ recs = [node EXCEPT ![at[t]] = Marked(@)]
                    /\ node' = Swept(recs, tree', at')
    BY <1>8 DEF Mark
  <2>2. \A n \in Nodes : Accessors(n)' = Accessors(n)
    BY <1>8, AccessAssumption DEF Mark, Accessors, Counted, TypeOK
  <2>3. \A n \in Nodes :
            recs[n].concurrent_access_counter = node[n].concurrent_access_counter
    BY <2>1 DEF Marked, TypeOK, NodeRecord
  <2>4. node' = Swept(recs, tree', at')
    BY <2>1
  <2>5. \A n \in Nodes : node'[n] = recs[n] \/ (node'[n] = Blank /\ Untouched(n))
    BY <2>4, SweptStep
  <2>. QED
    BY <2>2, <2>3, <2>5, CountFrame DEF Blank
<1>. QED
  BY <1>1, <1>2, <1>3, <1>4, <1>5, <1>6, <1>7, <1>8 DEF Step

\* A create leaves the counter, the lock and the mark of every node alone, or sets up a
\* node that no thread has.
Kept(n) ==
    /\ node'[n].concurrent_access_counter = node[n].concurrent_access_counter
    /\ node'[n].readers = node[n].readers
    /\ node'[n].writer = node[n].writer
    /\ node'[n].pendingforunlink = node[n].pendingforunlink

Fresh(n) ==
    /\ node'[n].concurrent_access_counter = 0
    /\ node'[n].readers = 0
    /\ node'[n].writer = NoThread
    /\ Untouched(n)

LEMMA InstalledNode ==
    ASSUME TypeOK, "recreate" \notin Liberties, at' = at,
           NEW p \in Paths, MayCreate(p), p \in Made(p), NEW type,
           NEW recs,
           recs = [WithDirs(p, Grown(p)) EXCEPT ![<<p, Grown(p)[p]>>] = Installed(@, type)],
           NEW n \in Nodes, node'[n] = recs[n]
    PROVE  Kept(n) \/ Fresh(n)
<1>1. WithDirs(p, Grown(p)) \in [Nodes -> NodeRecord]
  BY WithDirsType
<1>2. CASE n = <<p, Grown(p)[p]>>
  <2>1. recs[n] = Installed(WithDirs(p, Grown(p))[n], type)
    BY <1>1, <1>2
  <2>2. \A t \in Threads : at[t] # n
    BY <1>2, CreatedNode
  <2>. QED
    BY <2>1, <2>2 DEF Fresh, Untouched, Installed
<1>3. CASE n # <<p, Grown(p)[p]>>
  <2>1. recs[n] = WithDirs(p, Grown(p))[n]
    BY <1>1, <1>3
  <2>. QED
    BY <2>1, WithDirsNode DEF Kept
<1>. QED
  BY <1>2, <1>3

LEMMA CreateKeeps ==
    ASSUME TypeOK, "recreate" \notin Liberties, NEW t \in Threads, NEW p \in Paths,
           \/ \E type \in Types : Create(t, p, type)
           \/ CreateTooLong(t, p)
           \/ CreateNoFile(t, p)
    PROVE  /\ UNCHANGED <<at, pc, mode>>
           /\ \A n \in Nodes : Kept(n) \/ Fresh(n)
<1>1. ASSUME NEW type \in Types, Create(t, p, type)
      PROVE  UNCHANGED <<at, pc, mode>> /\ \A n \in Nodes : Kept(n) \/ Fresh(n)
  <2>1. /\ UNCHANGED <<at, pc, mode>> /\ MayCreate(p) /\ p \in Made(p)
        /\ node' = [WithDirs(p, Grown(p)) EXCEPT ![<<p, Grown(p)[p]>>] = Installed(@, type)]
    BY <1>1 DEF Create
  <2>. QED
    BY <2>1, InstalledNode
<1>2. CASE CreateTooLong(t, p)
  <2>1. UNCHANGED <<at, pc, mode>> /\ node' = WithDirs(p, tree')
    BY <1>2 DEF CreateTooLong
  <2>. QED
    BY <2>1, WithDirsNode DEF Kept
<1>3. CASE CreateNoFile(t, p)
  <2>1. PICK recs :
            /\ recs = [WithDirs(p, Grown(p)) EXCEPT ![<<p, Grown(p)[p]>>] = Installed(@, "bytes")]
            /\ node' = Swept(recs, tree', at)
    BY <1>3 DEF CreateNoFile
  <2>2. UNCHANGED <<at, pc, mode>> /\ MayCreate(p) /\ p \in Made(p)
    BY <1>3 DEF CreateNoFile
  <2>3. node' = Swept(recs, tree', at')
    BY <2>1, <2>2
  <2>4. \A n \in Nodes : node'[n] = recs[n] \/ (node'[n] = Blank /\ Untouched(n))
    BY <2>3, SweptStep
  <2>5. \A n \in Nodes : node'[n] = Blank /\ Untouched(n) => Fresh(n)
    BY DEF Blank, Fresh
  <2>6. \A n \in Nodes : node'[n] = recs[n] => Kept(n) \/ Fresh(n)
    BY <2>1, <2>2, InstalledNode
  <2>. QED
    BY <2>2, <2>4, <2>5, <2>6
<1>. QED
  BY <1>1, <1>2, <1>3

LEMMA CountCall ==
    ASSUME TypeOK, "recreate" \notin Liberties, AccessCounted,
           NEW t \in Threads, Call(t)
    PROVE  AccessCounted'
<1>. PICK p \in Paths :
        \/ Acquire(t, p) \/ Fault(t, p) \/ Unlink(t, p)
        \/ \E type \in Types : Create(t, p, type)
        \/ CreateTooLong(t, p) \/ CreateNoFile(t, p)
  BY DEF Call
<1>1. CASE Acquire(t, p) \/ Fault(t, p) \/ Unlink(t, p)
  <2>1. node' = node /\ \A n \in Nodes : Accessors(n)' = Accessors(n)
    BY <1>1 DEF Acquire, Fault, Unlink, Enters, Goes, Accessors, Counted, TypeOK
  <2>. QED
    BY <2>1, CountFrame
<1>2. CASE \/ \E type \in Types : Create(t, p, type)
           \/ CreateTooLong(t, p) \/ CreateNoFile(t, p)
  <2>1. UNCHANGED <<at, pc>> /\ \A n \in Nodes : Kept(n) \/ Fresh(n)
    BY <1>2, CreateKeeps
  <2>2. \A n \in Nodes : Accessors(n)' = Accessors(n)
    BY <2>1 DEF Accessors
  <2>. QED
    BY <2>1, <2>2, CountFrame DEF Kept, Fresh
<1>. QED
  BY <1>1, <1>2

LEMMA CountInit == Init => AccessCounted
<1>. SUFFICES ASSUME Init PROVE AccessCounted
  OBVIOUS
<1>1. \A n \in Nodes : Accessors(n) = {}
  BY DEF Init, Accessors, Counted
<1>. QED
  BY <1>1, NoThreads DEF Init, AccessCounted, Blank

\* However many threads share the nodes, concurrent_access_counter of every node
\* is the number of its accessors, as long as no present path is created again.
THEOREM CounterTellsTheTruth ==
    ASSUME "recreate" \notin Liberties
    PROVE  Spec => []AccessCounted
<1>1. TypeOK /\ AccessCounted /\ [Next]_vars => AccessCounted'
  <2>1. ASSUME AccessCounted, UNCHANGED vars PROVE AccessCounted'
    BY <2>1 DEF AccessCounted, Accessors, vars
  <2>. QED
    BY <2>1, CountStep, CountCall DEF Next, Dead
<1>. QED
  BY <1>1, CountInit, TypeCorrect, PTL DEF Spec

-----------------------------------------------------------------------------
(* The lock                                                                *)

\* A thread that locks or unlocks a node leaves the other nodes alone.
LEMMA OtherLocks ==
    ASSUME TypeOK, NEW t \in Threads, NEW m \in {"none", "R", "W"},
           at' = at, mode' = [mode EXCEPT ![t] = m],
           NEW r, node' = [node EXCEPT ![at[t]] = r],
           NEW n \in Nodes, n # at[t], LockTrue(n)
    PROVE  LockTrue(n)'
<1>1. node'[n] = node[n]
  BY DEF TypeOK
<1>2. \A u \in Threads : \A k \in {"R", "W"} :
          at'[u] = n /\ mode'[u] = k <=> at[u] = n /\ mode[u] = k
  BY DEF TypeOK
<1>. QED
  BY <1>1, <1>2, LockFrame

\* Taking the lock of a node in a mode it can be taken in.
LEMMA LockTaken ==
    ASSUME TypeOK, NEW t \in Threads, NEW m \in {"R", "W"}, NEW n \in Nodes,
           n = at[t], mode[t] = "none", LockTrue(n), CanLock(node[n], m),
           at' = at, mode' = [mode EXCEPT ![t] = m],
           node' = [node EXCEPT ![n] = Locked(node[n], m, t)]
    PROVE  LockTrue(n)'
<1>. node[n] \in NodeRecord /\ node'[n] = Locked(node[n], m, t)
  BY DEF TypeOK
<1>1. CASE m = "R"
  <2>1. node'[n].readers = node[n].readers + 1 /\ node'[n].writer = NoThread
    BY <1>1 DEF Locked, CanLock, CanRead, NodeRecord
  <2>2. t \notin Readers(n) /\ Readers(n)' = Readers(n) \cup {t}
    BY <1>1 DEF Readers, TypeOK
  <2>3. Cardinality(Readers(n)') = Cardinality(Readers(n)) + 1
    BY <2>2, OneMore, SetsOfThreads
  <2>4. \A u \in Threads : ~(at[u] = n /\ mode[u] = "W")
    BY <1>1, AccessAssumption DEF LockTrue, CanLock, CanRead
  <2>5. \A u \in Threads : ~(at'[u] = n /\ mode'[u] = "W")
    BY <1>1, <2>4 DEF TypeOK
  <2>. QED
    BY <2>1, <2>3, <2>5, AccessAssumption DEF LockTrue
<1>2. CASE m = "W"
  <2>1. node'[n].readers = 0 /\ node'[n].writer = t /\ node[n].writer = NoThread
    BY <1>2 DEF Locked, CanLock, CanWrite, NodeRecord
  <2>2. Readers(n) = {}
    BY <1>2, NobodyThere, SetsOfThreads DEF LockTrue, CanLock, CanWrite
  <2>3. Readers(n)' = {}
    BY <1>2, <2>2 DEF Readers, TypeOK
  <2>4. \A u \in Threads : ~(at[u] = n /\ mode[u] = "W")
    BY <2>1, AccessAssumption DEF LockTrue
  <2>5. \A u \in Threads : u = t <=> at'[u] = n /\ mode'[u] = "W"
    BY <1>2, <2>4 DEF TypeOK
  <2>. QED
    BY <2>1, <2>3, <2>5, NoThreads DEF LockTrue
<1>. QED
  BY <1>1, <1>2

\* Letting it go: the owner field is the thread's own exactly if it wrote.
LEMMA LockReleased ==
    ASSUME TypeOK, NEW t \in Threads, NEW n \in Nodes,
           n = at[t], mode[t] # "none", LockTrue(n),
           at' = at, mode' = [mode EXCEPT ![t] = "none"],
           node' = [node EXCEPT ![n] = Unlocked(node[n], t)]
    PROVE  LockTrue(n)'
<1>. node[n] \in NodeRecord /\ node'[n] = Unlocked(node[n], t)
  BY DEF TypeOK
<1>. t # NoThread
  BY AccessAssumption
<1>1. CASE mode[t] = "R"
  <2>1. node[n].writer # t
    BY <1>1 DEF LockTrue
  <2>2. node'[n].readers = node[n].readers - 1 /\ node'[n].writer = node[n].writer
    BY <2>1 DEF Unlocked, NodeRecord
  <2>3. t \in Readers(n) /\ Readers(n)' = Readers(n) \ {t}
    BY <1>1 DEF Readers, TypeOK
  <2>4. Cardinality(Readers(n)') = Cardinality(Readers(n)) - 1
    BY <2>3, OneLess, SetsOfThreads
  <2>5. Cardinality(Readers(n)) # 0
    BY <2>3, NobodyThere, SetsOfThreads
  <2>6. node[n].writer = NoThread
    BY <2>5 DEF LockTrue
  <2>7. \A u \in Threads : node'[n].writer = u <=> at'[u] = n /\ mode'[u] = "W"
    BY <1>1, <2>2 DEF LockTrue, TypeOK
  <2>. QED
    BY <2>2, <2>4, <2>6, <2>7 DEF LockTrue
<1>2. CASE mode[t] = "W"
  <2>1. node[n].writer = t
    BY <1>2 DEF LockTrue
  <2>2. node'[n].readers = node[n].readers /\ node'[n].writer = NoThread
    BY <2>1 DEF Unlocked, NodeRecord
  <2>3. Readers(n)' = Readers(n)
    BY <1>2 DEF Readers, TypeOK
  <2>4. \A u \in Threads : ~(at'[u] = n /\ mode'[u] = "W")
    BY <1>2, <2>1 DEF LockTrue, TypeOK
  <2>. QED
    BY <2>2, <2>3, <2>4, AccessAssumption DEF LockTrue
<1>. QED
  BY <1>1, <1>2 DEF TypeOK

LEMMA LockStep ==
    ASSUME TypeOK, LockInv, NEW t \in Threads, Step(t)
    PROVE  LockInv'
<1>. USE DEF Goes
<1>0. HeldIsLocked /\ \A n \in Nodes : LockTrue(n)
  BY LockTrueAll DEF LockInv
<1>1. CASE Pin(t)
  <2>1. PICK n \in Nodes : n = at[t]
    BY <1>1, AtNode DEF Pin
  <2>2. /\ mode[t] = "none" /\ at' = at /\ mode' = [mode EXCEPT ![t] = "R"]
        /\ CanLock(node[n], "R") /\ node' = [node EXCEPT ![n] = Locked(node[n], "R", t)]
    BY <1>0, <1>1, <2>1 DEF Pin, HeldIsLocked, CanLock
  <2>3. LockTrue(n)'
    BY <1>0, <2>1, <2>2, LockTaken
  <2>4. \A m \in Nodes : m # n => LockTrue(m)'
    BY <1>0, <2>1, <2>2, OtherLocks
  <2>5. HeldIsLocked'
    BY <1>0, <1>1 DEF Pin, HeldIsLocked, TypeOK
  <2>6. LockHeldAsBelieved'
    BY <2>3, <2>4 DEF LockHeldAsBelieved, LockTrue
  <2>. QED
    BY <2>5, <2>6 DEF LockInv
<1>2. CASE Retake(t)
  <2>1. PICK n \in Nodes : n = at[t]
    BY <1>2, AtNode DEF Retake
  <2>2. Head(todo[t]) \in {"R", "W"}
    BY <1>2 DEF Retake, TypeOK
  <2>3. PICK m \in {"R", "W"} : m = Head(todo[t])
    BY <2>2
  <2>4. /\ mode[t] = "none" /\ at' = at /\ mode' = [mode EXCEPT ![t] = m]
        /\ CanLock(node[n], m) /\ node' = [node EXCEPT ![n] = Locked(node[n], m, t)]
    BY <1>0, <1>2, <2>1, <2>3 DEF Retake, HeldIsLocked
  <2>5. LockTrue(n)'
    BY <1>0, <2>1, <2>4, LockTaken
  <2>6. \A k \in Nodes : k # n => LockTrue(k)'
    BY <1>0, <2>1, <2>4, OtherLocks
  <2>7. HeldIsLocked'
    BY <1>0, <1>2, <2>3 DEF Retake, HeldIsLocked, TypeOK
  <2>8. LockHeldAsBelieved'
    BY <2>5, <2>6 DEF LockHeldAsBelieved, LockTrue
  <2>. QED
    BY <2>7, <2>8 DEF LockInv
<1>3. CASE Drop(t) \/ Unpin(t)
  <2>1. PICK n \in Nodes : n = at[t]
    BY <1>3, AtNode DEF Drop, Unpin
  <2>2. /\ mode[t] # "none" /\ at' = at /\ mode' = [mode EXCEPT ![t] = "none"]
        /\ node' = [node EXCEPT ![n] = Unlocked(node[n], t)]
    BY <1>0, <1>3, <2>1 DEF Drop, Unpin, HeldIsLocked
  <2>3. LockTrue(n)'
    BY <1>0, <2>1, <2>2, LockReleased
  <2>4. \A m \in Nodes : m # n => LockTrue(m)'
    BY <1>0, <2>1, <2>2, OtherLocks
  <2>5. HeldIsLocked'
    <3>1. CASE Drop(t)
      BY <1>0, <3>1 DEF Drop, HeldIsLocked, TypeOK
    <3>2. CASE Unpin(t)
      BY <1>0, <3>2 DEF Unpin, HeldIsLocked, TypeOK
    <3>. QED
      BY <1>3, <3>1, <3>2
  <2>6. LockHeldAsBelieved'
    BY <2>3, <2>4 DEF LockHeldAsBelieved, LockTrue
  <2>. QED
    BY <2>5, <2>6 DEF LockInv
<1>4. CASE Count(t) \/ Leave(t)
  <2>1. UNCHANGED <<at, mode>> /\ HeldIsLocked'
    BY <1>0, <1>4 DEF Count, Leave, HeldIsLocked, TypeOK
  <2>2. ASSUME NEW n \in Nodes
        PROVE  node'[n].readers = node[n].readers /\ node'[n].writer = node[n].writer
    <3>1. CASE n = at[t] /\ Count(t)
      <4>1. node'[n] = Recounted(node[n], 1) /\ node[n] \in NodeRecord
        BY <3>1 DEF Count, TypeOK
      <4>. QED
        BY <4>1, RecountedType
    <3>2. CASE ~(n = at[t] /\ Count(t))
      BY <1>4, <3>2 DEF Count, Leave, TypeOK
    <3>. QED
      BY <3>1, <3>2
  <2>3. \A n \in Nodes : LockTrue(n)'
    BY <1>0, <2>1, <2>2, LockFrame
  <2>4. LockHeldAsBelieved'
    BY <2>3 DEF LockHeldAsBelieved, LockTrue
  <2>. QED
    BY <2>1, <2>4 DEF LockInv
<1>5. CASE Uncount(t) \/ Mark(t)
  <2>1. /\ mode' = mode /\ mode[t] = "none" /\ HeldIsLocked'
        /\ at' = [at EXCEPT ![t] = NoNode]
    BY <1>0, <1>5 DEF Uncount, Mark, HeldIsLocked, TypeOK
  <2>2. PICK r, recs : /\ r \in {Recounted(node[at[t]], -1), Marked(node[at[t]])}
                       /\ recs = [node EXCEPT ![at[t]] = r]
                       /\ node' = Swept(recs, tree', at')
    <3>1. CASE Uncount(t)
      BY <3>1 DEF Uncount
    <3>2. CASE Mark(t)
      BY <3>2 DEF Mark
    <3>. QED
      BY <1>5, <3>1, <3>2
  <2>3. node' = Swept(recs, tree', at')
    BY <2>2
  <2>4. at[t] \in Nodes /\ node[at[t]] \in NodeRecord
    BY <1>5, AtNode DEF Uncount, Mark
  <2>5. r.readers = node[at[t]].readers /\ r.writer = node[at[t]].writer
    BY <2>2, <2>4 DEF Recounted, Marked, NodeRecord
  <2>6. \A n \in Nodes : recs[n].readers = node[n].readers /\ recs[n].writer = node[n].writer
    BY <2>2, <2>5 DEF TypeOK
  <2>7. ASSUME NEW n \in Nodes
        PROVE  \A u \in Threads : \A m \in {"R", "W"} :
                   at'[u] = n /\ mode'[u] = m <=> at[u] = n /\ mode[u] = m
    BY <2>1, AccessAssumption DEF TypeOK
  <2>8. \A n \in Nodes : node'[n] = recs[n] \/ (node'[n] = Blank /\ Untouched(n))
    BY <2>3, SweptStep
  <2>9. \A n \in Nodes : LockTrue(n)'
    BY <1>0, <2>6, <2>7, <2>8, LockFrame DEF Blank
  <2>10. LockHeldAsBelieved'
    BY <2>9 DEF LockHeldAsBelieved, LockTrue
  <2>. QED
    BY <2>1, <2>10 DEF LockInv
<1>. QED
  BY <1>1, <1>2, <1>3, <1>4, <1>5 DEF Step

LEMMA LockCall ==
    ASSUME TypeOK, "recreate" \notin Liberties, LockInv, NEW t \in Threads, Call(t)
    PROVE  LockInv'
<1>. PICK p \in Paths :
        \/ Acquire(t, p) \/ Fault(t, p) \/ Unlink(t, p)
        \/ \E type \in Types : Create(t, p, type)
        \/ CreateTooLong(t, p) \/ CreateNoFile(t, p)
  BY DEF Call
<1>0. HeldIsLocked /\ \A n \in Nodes : LockTrue(n)
  BY LockTrueAll DEF LockInv
<1>1. CASE Acquire(t, p) \/ Fault(t, p) \/ Unlink(t, p)
  <2>1. node' = node /\ mode' = mode /\ HeldIsLocked'
    BY <1>0, <1>1 DEF Acquire, Fault, Unlink, Enters, Goes, HeldIsLocked, TypeOK
  <2>2. \A u \in Threads : at'[u] = at[u] \/ (u = t /\ mode[t] = "none")
    BY <1>0, <1>1 DEF Acquire, Fault, Unlink, Enters, HeldIsLocked, TypeOK
  <2>3. ASSUME NEW n \in Nodes
        PROVE  \A u \in Threads : \A m \in {"R", "W"} :
                   at'[u] = n /\ mode'[u] = m <=> at[u] = n /\ mode[u] = m
    <3>1. mode[t] = "none"
      BY <1>0, <1>1 DEF Acquire, Fault, Unlink, Enters, HeldIsLocked
    <3>. QED
      BY <2>1, <2>2, <3>1
  <2>4. \A n \in Nodes : LockTrue(n)'
    BY <1>0, <2>1, <2>3, LockFrame
  <2>5. LockHeldAsBelieved'
    BY <2>4 DEF LockHeldAsBelieved, LockTrue
  <2>. QED
    BY <2>1, <2>5 DEF LockInv
<1>2. CASE \/ \E type \in Types : Create(t, p, type)
           \/ CreateTooLong(t, p) \/ CreateNoFile(t, p)
  <2>1. UNCHANGED <<at, pc, mode>> /\ \A n \in Nodes : Kept(n) \/ Fresh(n)
    BY <1>2, CreateKeeps
  <2>2. \A n \in Nodes : LockTrue(n)'
    BY <1>0, <2>1, LockFrame DEF Kept, Fresh
  <2>3. LockHeldAsBelieved' /\ HeldIsLocked'
    BY <1>0, <2>1, <2>2 DEF LockHeldAsBelieved, LockTrue, HeldIsLocked
  <2>. QED
    BY <2>3 DEF LockInv
<1>. QED
  BY <1>1, <1>2

LEMMA LockInit == Init => LockInv
<1>. SUFFICES ASSUME Init PROVE LockInv
  OBVIOUS
<1>1. \A n \in Nodes : Readers(n) = {}
  BY DEF Init, Readers
<1>. QED
  BY <1>1, NoThreads, AccessAssumption
  DEF Init, LockInv, LockHeldAsBelieved, HeldIsLocked, Blank

\* In every instance without re-creation the lock of a node is held by exactly
\* the threads that believe they hold it, a writer alone.
THEOREM LockTellsTheTruth ==
    ASSUME "recreate" \notin Liberties
    PROVE  Spec => []LockHeldAsBelieved
<1>1. TypeOK /\ LockInv /\ [Next]_vars => LockInv'
  <2>1. ASSUME LockInv, UNCHANGED vars PROVE LockInv'
    BY <2>1 DEF LockInv, LockHeldAsBelieved, HeldIsLocked, Readers, vars
  <2>. QED
    BY <2>1, LockStep, LockCall DEF Next, Dead
<1>2. LockInv => LockHeldAsBelieved
  BY DEF LockInv
<1>. QED
  BY <1>1, <1>2, LockInit, TypeCorrect, PTL DEF Spec

-----------------------------------------------------------------------------
(* Granted opens                                                           *)

\* A granted open holds the read lock and goes through no upgrade.
GrantInv ==
    \A t \in Threads :
        granted[t] => /\ pc[t] = "held" /\ mode[t] = "R" /\ todo[t] = <<>>
                      /\ ~node[at[t]].pendingforunlink

LEMMA GrantStep ==
    ASSUME TypeOK, LockInv, GrantInv, NEW t \in Threads, Step(t),
           NEW u \in Threads, granted'[u]
    PROVE  (/\ pc[u] = "held" /\ mode[u] = "R" /\ todo[u] = <<>>
            /\ ~node[at[u]].pendingforunlink)'
<1>. USE DEF Goes
<1>1. CASE Pin(t)
  <2>1. PICK n \in Nodes : n = at[t]
    BY <1>1, AtNode DEF Pin
  <2>2. /\ node'[n] = Locked(node[n], "R", t) /\ \A m \in Nodes : m # n => node'[m] = node[m]
        /\ node[n] \in NodeRecord
    BY <1>1, <2>1 DEF Pin, TypeOK
  <2>3. \A m \in Nodes : node'[m].pendingforunlink = node[m].pendingforunlink
    BY <2>2 DEF Locked, NodeRecord
  <2>4. CASE u = t
    <3>1. PICK op \in Ops :
              todo'[t] \in Script(op, node[at[t]]) /\ OpenGranted(op, node[at[t]])
      BY <1>1, <2>4 DEF Pin, TypeOK
    <3>2. todo'[t] = <<>> /\ ~node[n].pendingforunlink
      BY <2>1, <3>1, OpenTakesNoLock DEF OpenGranted
    <3>. QED
      BY <1>1, <2>1, <2>3, <2>4, <3>1, <3>2 DEF Pin, TypeOK
  <2>5. CASE u # t
    <3>1. granted[u] /\ at'[u] = at[u]
      BY <1>1, <2>5 DEF Pin, TypeOK
    <3>2. at[u] \in Nodes
      BY <3>1 DEF GrantInv, TypeOK
    <3>. QED
      BY <1>1, <2>3, <2>5, <3>1, <3>2 DEF Pin, TypeOK, GrantInv
  <2>. QED
    BY <2>4, <2>5
<1>2. CASE Drop(t) \/ Retake(t) \/ Unpin(t) \/ Leave(t) \/ Count(t)
  <2>1. u # t /\ granted[u]
    BY <1>2 DEF Drop, Retake, Unpin, Leave, Count, GrantInv, TypeOK
  <2>2. at[u] \in Nodes /\ at'[u] = at[u] /\ at[t] \in Nodes
    BY <1>2, <2>1, AtNode DEF Drop, Retake, Unpin, Leave, Count, GrantInv
  <2>3. PICK r : /\ r \in {node[at[t]], Unlocked(node[at[t]], t), Recounted(node[at[t]], 1),
                           Locked(node[at[t]], Head(todo[t]), t)}
                 /\ node' = [node EXCEPT ![at[t]] = r]
    <3>1. CASE Leave(t)
      BY <2>2, <3>1 DEF Leave, TypeOK
    <3>2. CASE ~Leave(t)
      BY <1>2, <3>2 DEF Drop, Retake, Unpin, Count
    <3>. QED
      BY <3>1, <3>2
  <2>4. node[at[t]] \in NodeRecord
    BY <2>2 DEF TypeOK
  <2>5. r.pendingforunlink = node[at[t]].pendingforunlink
    BY <2>3, <2>4, RecountedType DEF Unlocked, Locked, NodeRecord
  <2>6. node'[at[u]].pendingforunlink = node[at[u]].pendingforunlink
    BY <2>2, <2>3, <2>5 DEF TypeOK
  <2>7. pc'[u] = pc[u] /\ mode'[u] = mode[u] /\ todo'[u] = todo[u]
    BY <1>2, <2>1 DEF Drop, Retake, Unpin, Leave, Count, TypeOK
  <2>. QED
    BY <2>1, <2>2, <2>6, <2>7 DEF GrantInv
<1>3. CASE Uncount(t) \/ Mark(t)
  <2>1. u # t /\ granted[u] /\ at'[u] = at[u]
    BY <1>3 DEF Uncount, Mark, GrantInv, TypeOK
  <2>2. PICK n \in Nodes : n = at[u] /\ mode[u] = "R"
    BY <2>1 DEF GrantInv, TypeOK
  <2>3. at[t] \in Nodes /\ node[at[t]] \in NodeRecord /\ CanWrite(node[at[t]])
    BY <1>3, AtNode DEF Uncount, Mark
  <2>4. n # at[t]
    <3>1. SUFFICES ASSUME n = at[t] PROVE FALSE
      OBVIOUS
    <3>2. Cardinality(Readers(n)) = 0
      BY <2>3, <3>1 DEF LockInv, LockHeldAsBelieved, CanWrite
    <3>3. u \in Readers(n)
      BY <2>2 DEF Readers
    <3>. QED
      BY <3>2, <3>3, NobodyThere, SetsOfThreads
  <2>5. PICK r, recs : recs = [node EXCEPT ![at[t]] = r] /\ node' = Swept(recs, tree', at')
    <3>1. CASE Uncount(t)
      BY <3>1 DEF Uncount
    <3>2. CASE Mark(t)
      BY <3>2 DEF Mark
    <3>. QED
      BY <1>3, <3>1, <3>2
  <2>6. node' = Swept(recs, tree', at') /\ recs[n] = node[n]
    BY <2>4, <2>5 DEF TypeOK
  <2>7. node'[n] = node[n]
    BY <2>1, <2>2, <2>6, SweptStep DEF Untouched
  <2>8. pc'[u] = pc[u] /\ mode'[u] = mode[u] /\ todo'[u] = todo[u]
    BY <1>3, <2>1 DEF Uncount, Mark, TypeOK
  <2>. QED
    BY <2>1, <2>2, <2>7, <2>8 DEF GrantInv
<1>. QED
  BY <1>1, <1>2, <1>3 DEF Step

LEMMA GrantCall ==
    ASSUME TypeOK, "recreate" \notin Liberties, GrantInv, NEW t \in Threads, Call(t)
    PROVE  GrantInv'
<1>. PICK p \in Paths :
        \/ Acquire(t, p) \/ Fault(t, p) \/ Unlink(t, p)
        \/ \E type \in Types : Create(t, p, type)
        \/ CreateTooLong(t, p) \/ CreateNoFile(t, p)
  BY DEF Call
<1>1. CASE Acquire(t, p) \/ Fault(t, p) \/ Unlink(t, p)
  <2>1. /\ UNCHANGED <<node, mode, todo, granted>> /\ pc[t] = "idle"
        /\ \A u \in Threads : u # t => at'[u] = at[u] /\ pc'[u] = pc[u]
    BY <1>1 DEF Acquire, Fault, Unlink, Enters, Goes, TypeOK
  <2>. QED
    BY <2>1 DEF GrantInv
<1>2. CASE \/ \E type \in Types : Create(t, p, type)
           \/ CreateTooLong(t, p) \/ CreateNoFile(t, p)
  <2>1. UNCHANGED <<at, pc, mode>> /\ \A n \in Nodes : Kept(n) \/ Fresh(n)
    BY <1>2, CreateKeeps
  <2>2. UNCHANGED <<todo, granted>>
    BY <1>2 DEF Create, CreateTooLong, CreateNoFile
  <2>3. \A u \in Threads : granted[u] => at[u] \in Nodes
    BY DEF GrantInv, TypeOK
  <2>. QED
    BY <2>1, <2>2, <2>3 DEF GrantInv, Kept, Fresh, Untouched
<1>. QED
  BY <1>1, <1>2

\* In every instance without re-creation an open is granted, and served, only
\* while the file is not waiting to be unlinked.
THEOREM OpensBeforeUnlink ==
    ASSUME "recreate" \notin Liberties
    PROVE  Spec => []OpenNotPending
<1>1. Init => LockInv /\ GrantInv
  BY LockInit DEF Init, GrantInv
<1>2. TypeOK /\ LockInv /\ GrantInv /\ [Next]_vars => LockInv' /\ GrantInv'
  <2>1. ASSUME LockInv, UNCHANGED vars PROVE LockInv'
    BY <2>1 DEF LockInv, LockHeldAsBelieved, HeldIsLocked, Readers, vars
  <2>2. ASSUME GrantInv, UNCHANGED vars PROVE GrantInv'
    BY <2>2 DEF GrantInv, vars
  <2>3. ASSUME TypeOK, LockInv, GrantInv, NEW t \in Threads, Step(t) PROVE GrantInv'
    BY <2>3, GrantStep DEF GrantInv
  <2>. QED
    BY <2>1, <2>2, <2>3, LockStep, LockCall, GrantCall DEF Next, Dead
<1>3. GrantInv => OpenNotPending
  BY DEF GrantInv, OpenNotPending
<1>. QED
  BY <1>1, <1>2, <1>3, TypeCorrect, PTL DEF Spec
=============================================================================
