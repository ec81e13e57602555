--------------------------- MODULE NodeWalk_proof ---------------------------
(***************************************************************************)
(* The recursive walks of procfuse.c find, make and remove what the closed *)
(* forms of NodeTree say, in every tree, for any set of paths.             *)
(***************************************************************************)
EXTENDS NodeWalk, NodeTree_proof

-----------------------------------------------------------------------------
(* pathToNode                                                              *)

\* The component at which a walk ends that has come to component k.
EndFrom(dirs, p, k) ==
    CHOOSE e \in k..Len(p) :
        StopsAt(dirs, p, e) /\ \A j \in k..(e - 1) : ~StopsAt(dirs, p, j)

LEMMA EndFromStart ==
    ASSUME NEW p, NEW dirs
    PROVE  EndFrom(dirs, p, 1) = End(dirs, p)
BY DEF EndFrom, End

LEMMA EndOfRest ==
    ASSUME NEW p \in Paths, NEW dirs, NEW k \in 1..Len(p)
    PROVE  /\ EndFrom(dirs, p, k) \in k..Len(p) /\ StopsAt(dirs, p, EndFrom(dirs, p, k))
           /\ \A j \in k..(EndFrom(dirs, p, k) - 1) : ~StopsAt(dirs, p, j)
<1> DEFINE S == {j \in k..Len(p) : StopsAt(dirs, p, j)}
<1>0. Len(p) \in Nat /\ k \in Nat /\ k <= Len(p)
  BY PathLen
<1>1. S \in SUBSET Nat /\ Len(p) \in S
  BY <1>0 DEF StopsAt
<1>2. PICK m \in S : \A j \in S : m <= j
  BY <1>1, SmallestOf
<1>3. /\ m \in k..Len(p) /\ StopsAt(dirs, p, m)
      /\ \A j \in k..(m - 1) : ~StopsAt(dirs, p, j)
  BY <1>0, <1>2
<1>. QED
  BY <1>3 DEF EndFrom

\* It ends at once, or where the walk of the rest does.
LEMMA EndStepwise ==
    ASSUME NEW p \in Paths, NEW dirs, NEW k \in 1..Len(p)
    PROVE  EndFrom(dirs, p, k) =
               IF StopsAt(dirs, p, k) THEN k ELSE EndFrom(dirs, p, k + 1)
<1>0. Len(p) \in Nat /\ k \in Nat /\ k <= Len(p)
  BY PathLen
<1> DEFINE e == EndFrom(dirs, p, k)
           f == EndFrom(dirs, p, k + 1)
<1>1. /\ e \in k..Len(p) /\ StopsAt(dirs, p, e)
      /\ \A j \in k..(e - 1) : ~StopsAt(dirs, p, j)
  BY EndOfRest
<1>2. CASE StopsAt(dirs, p, k)
  BY <1>0, <1>1, <1>2
<1>3. CASE ~StopsAt(dirs, p, k)
  <2>1. k < Len(p)
    BY <1>0, <1>3 DEF StopsAt
  <2>2. k + 1 \in 1..Len(p)
    BY <1>0, <2>1
  <2>3. /\ f \in (k + 1)..Len(p) /\ StopsAt(dirs, p, f)
        /\ \A j \in (k + 1)..(f - 1) : ~StopsAt(dirs, p, j)
    BY <2>2, EndOfRest
  <2> HIDE DEF e, f
  <2>4. e \in (k + 1)..Len(p)
    BY <1>0, <1>1, <1>3
  <2>5. ~(f < e)
    <3>1. f < e => f \in k..(e - 1)
      BY <1>0, <2>3, <2>4
    <3>. QED
      BY <1>1, <2>3, <3>1
  <2>6. ~(e < f)
    <3>1. e < f => e \in (k + 1)..(f - 1)
      BY <1>0, <2>3, <2>4
    <3>. QED
      BY <1>1, <2>3, <3>1
  <2>7. e = f
    BY <1>0, <2>3, <2>4, <2>5, <2>6
  <2>. QED
    BY <1>3, <2>7 DEF e, f
<1>. QED
  BY <1>2, <1>3

\* What a walk makes from component k on.
MadeFrom(p, k) ==
    {Upto(p, j) : j \in {i \in k..Len(p) : \A l \in k..i : p[l] \notin LongNames}}

Passes(p, k) == \A i \in k..Len(p) : p[i] \notin LongNames

With(tree, p, k) ==
    [present |-> tree.present \cup MadeFrom(p, k),
     dirs    |-> tree.dirs \cup (MadeFrom(p, k) \ {p})]

\* What a call for component k returns.
Finds(tree, p, k) ==
    LET e == EndFrom(tree.dirs, p, k)
        q == Upto(p, e)
    IN  IF p[e] \in LongNames THEN Result("null", Root, tree)
        ELSE IF q \notin tree.present
             THEN Result(IF e < Len(p) THEN "fault" ELSE "null", Root, tree)
        ELSE Result("node", q, tree)

Makes(tree, p, k) ==
    IF Passes(p, k) THEN Result("node", p, With(tree, p, k))
    ELSE Result("null", Root, With(tree, p, k))

Returns(tree, p, k, create) == IF create THEN Makes(tree, p, k) ELSE Finds(tree, p, k)

LEMMA TreeRecord ==
    ASSUME NEW tree \in Trees
    PROVE  /\ tree = [present |-> tree.present, dirs |-> tree.dirs]
           /\ tree.present \in SUBSET Paths /\ tree.dirs \in SUBSET tree.present
BY DEF Trees

LEMMA TreeWith ==
    ASSUME NEW tree, tree = [present |-> tree.present, dirs |-> tree.dirs], NEW other
    PROVE  /\ [tree EXCEPT !.present = other] = [present |-> other, dirs |-> tree.dirs]
           /\ [tree EXCEPT !.dirs = other] = [present |-> tree.present, dirs |-> other]
OBVIOUS

LEMMA MadeStepwise ==
    ASSUME NEW p \in Paths, NEW k \in 1..Len(p)
    PROVE  /\ p[k] \in LongNames => MadeFrom(p, k) = {} /\ ~Passes(p, k)
           /\ p[k] \notin LongNames /\ k < Len(p) =>
                  /\ MadeFrom(p, k) = {Upto(p, k)} \cup MadeFrom(p, k + 1)
                  /\ Upto(p, k) # p
                  /\ Passes(p, k) <=> Passes(p, k + 1)
           /\ p[k] \notin LongNames /\ k = Len(p) =>
                  MadeFrom(p, k) = {p} /\ Passes(p, k)
<1>0. Len(p) \in Nat /\ k \in Nat /\ k <= Len(p) /\ Len(Upto(p, k)) = k
  BY PathLen, UptoPath
<1>1. ASSUME p[k] \in LongNames PROVE MadeFrom(p, k) = {} /\ ~Passes(p, k)
  <2>1. \A i \in k..Len(p) : k \in k..i
    BY <1>0
  <2>. QED
    BY <1>0, <1>1, <2>1 DEF MadeFrom, Passes
<1>2. ASSUME p[k] \notin LongNames, k < Len(p)
      PROVE  MadeFrom(p, k) = {Upto(p, k)} \cup MadeFrom(p, k + 1)
  <2>1. \A i : i \in k..Len(p) <=> i = k \/ i \in (k + 1)..Len(p)
    BY <1>0, <1>2
  <2>2. \A i \in (k + 1)..Len(p) : \A l : l \in k..i <=> l = k \/ l \in (k + 1)..i
    BY <1>0
  <2>3. \A l \in k..k : l = k
    BY <1>0
  <2> DEFINE From(m) == {i \in m..Len(p) : \A l \in m..i : p[l] \notin LongNames}
  <2>4. From(k) = {k} \cup From(k + 1)
    BY <1>2, <2>1, <2>2, <2>3
  <2> HIDE DEF From
  <2>5. {Upto(p, j) : j \in From(k)} = {Upto(p, k)} \cup {Upto(p, j) : j \in From(k + 1)}
    BY <2>4
  <2>. QED
    BY <2>5 DEF MadeFrom, From
<1>3. ASSUME p[k] \notin LongNames, k < Len(p)
      PROVE  (Passes(p, k) <=> Passes(p, k + 1)) /\ Upto(p, k) # p
  BY <1>0, <1>3 DEF Passes
<1>4. ASSUME p[k] \notin LongNames, k = Len(p) PROVE MadeFrom(p, k) = {p} /\ Passes(p, k)
  <2>1. \A i : i \in k..Len(p) <=> i = k
    BY <1>0, <1>4
  <2>2. {i \in k..Len(p) : \A l \in k..i : p[l] \notin LongNames} = {k}
    BY <1>0, <1>4, <2>1
  <2>3. {Upto(p, j) : j \in {k}} = {Upto(p, k)}
    OBVIOUS
  <2>. QED
    BY <1>4, <2>1, <2>2, <2>3, UptoAll DEF MadeFrom, Passes
<1>. QED
  BY <1>1, <1>2, <1>3, <1>4

\* A lookup does at component k what the closed form says, if it does so deeper.
LEMMA FindsStepwise ==
    ASSUME NEW p \in Paths, NEW tree \in Trees, NEW k \in 1..Len(p), NEW deeper,
           k < Len(p) => deeper[<<tree, k + 1>>] = Finds(tree, p, k + 1)
    PROVE  PathToNodeAt(deeper, tree, p, k, FALSE) = Finds(tree, p, k)
<1> DEFINE q == Upto(p, k)
           e == EndFrom(tree.dirs, p, k)
<1>0. Len(p) \in Nat /\ k \in Nat /\ k <= Len(p)
  BY PathLen
<1>00. tree.dirs \subseteq tree.present
  BY TreeRecord
<1>1. PathToNodeAt(deeper, tree, p, k, FALSE) =
          IF p[k] \in LongNames THEN Result("null", Root, tree)
          ELSE IF q \notin tree.present
               THEN Result(IF k < Len(p) THEN "fault" ELSE "null", Root, tree)
          ELSE IF k < Len(p) /\ q \in tree.dirs THEN deeper[<<tree, k + 1>>]
          ELSE Result("node", q, tree)
  BY DEF PathToNodeAt, GetNextNode, GetNextFileName
<1>2. e = IF StopsAt(tree.dirs, p, k) THEN k ELSE EndFrom(tree.dirs, p, k + 1)
  BY EndStepwise
<1>3. Finds(tree, p, k) =
          IF p[e] \in LongNames THEN Result("null", Root, tree)
          ELSE IF Upto(p, e) \notin tree.present
               THEN Result(IF e < Len(p) THEN "fault" ELSE "null", Root, tree)
          ELSE Result("node", Upto(p, e), tree)
  BY DEF Finds
<1> HIDE DEF e
<1>4. CASE StopsAt(tree.dirs, p, k)
  <2>1. e = k
    BY <1>2, <1>4
  <2>2. p[k] \in LongNames \/ q \notin tree.dirs \/ k = Len(p)
    BY <1>4 DEF StopsAt
  <2>3. CASE p[k] \in LongNames
    BY <1>1, <1>3, <2>1, <2>3
  <2>4. CASE p[k] \notin LongNames /\ q \notin tree.present
    <3>1. PathToNodeAt(deeper, tree, p, k, FALSE) =
              Result(IF k < Len(p) THEN "fault" ELSE "null", Root, tree)
      BY <1>1, <2>4
    <3>. QED
      BY <1>3, <2>1, <2>4, <3>1
  <2>5. CASE p[k] \notin LongNames /\ q \in tree.present
    <3>1. ~(k < Len(p) /\ q \in tree.dirs)
      BY <1>0, <2>2, <2>5
    <3>. QED
      BY <1>1, <1>3, <2>1, <2>5, <3>1
  <2>. QED
    BY <2>3, <2>4, <2>5
<1>5. CASE ~StopsAt(tree.dirs, p, k)
  <2>1. p[k] \notin LongNames /\ q \in tree.dirs /\ k < Len(p)
    BY <1>0, <1>5 DEF StopsAt
  <2>2. PathToNodeAt(deeper, tree, p, k, FALSE) = Finds(tree, p, k + 1)
    BY <1>00, <1>1, <2>1
  <2>3. Finds(tree, p, k) = Finds(tree, p, k + 1)
    BY <1>2, <1>3, <1>5 DEF Finds
  <2>. QED
    BY <2>2, <2>3
<1>. QED
  BY <1>4, <1>5

\* So does a create, which goes on in a larger tree.
LEMMA MakesStepwise ==
    ASSUME NEW p \in Paths, NEW tree \in Trees, NEW k \in 1..Len(p), NEW deeper,
           k < Len(p) => \A t \in Trees : deeper[<<t, k + 1>>] = Makes(t, p, k + 1)
    PROVE  PathToNodeAt(deeper, tree, p, k, TRUE) = Makes(tree, p, k)
<1> DEFINE q    == Upto(p, k)
           next == [present |-> tree.present \cup {q}, dirs |-> tree.dirs]
           made == [present |-> tree.present \cup {q}, dirs |-> tree.dirs \cup {q}]
<1>0. Len(p) \in Nat /\ k \in Nat /\ k <= Len(p) /\ q \in Paths
  BY PathLen, UptoPath
<1>10. /\ tree = [present |-> tree.present, dirs |-> tree.dirs]
       /\ tree.present \in SUBSET Paths /\ tree.dirs \in SUBSET tree.present
  BY TreeRecord
<1>1. [tree EXCEPT !.present = @ \cup {q}] = next /\ [next EXCEPT !.dirs = @ \cup {q}] = made
  <2>1. [tree EXCEPT !.present = tree.present \cup {q}] = next
    BY <1>10, TreeWith
  <2>2. next = [present |-> next.present, dirs |-> next.dirs]
    OBVIOUS
  <2>3. [next EXCEPT !.dirs = next.dirs \cup {q}] =
            [present |-> next.present, dirs |-> next.dirs \cup {q}]
    BY <2>2, TreeWith
  <2>. QED
    BY <2>1, <2>3
<1>2. CASE p[k] \in LongNames
  <2>1. PathToNodeAt(deeper, tree, p, k, TRUE) = Result("null", Root, tree)
    BY <1>2 DEF PathToNodeAt, GetNextFileName
  <2>2. MadeFrom(p, k) = {} /\ ~Passes(p, k)
    BY <1>2, MadeStepwise
  <2>3. tree.present \cup {} = tree.present /\ tree.dirs \cup ({} \ {p}) = tree.dirs
    OBVIOUS
  <2>4. With(tree, p, k) = [present |-> tree.present, dirs |-> tree.dirs]
    BY <2>2, <2>3 DEF With
  <2>. QED
    BY <1>10, <2>1, <2>2, <2>4 DEF Makes
<1>3. CASE p[k] \notin LongNames /\ k = Len(p)
  <2>1. PathToNodeAt(deeper, tree, p, k, TRUE) = Result("node", q, next)
    BY <1>0, <1>1, <1>3 DEF PathToNodeAt, GetNextNode, GetNextFileName
  <2>2. MadeFrom(p, k) = {p} /\ Passes(p, k) /\ q = p
    BY <1>3, MadeStepwise, UptoAll
  <2>3. With(tree, p, k) = next
    BY <2>2 DEF With
  <2>. QED
    BY <2>1, <2>2, <2>3 DEF Makes
<1>4. CASE p[k] \notin LongNames /\ k < Len(p)
  <2>1. made \in Trees
    BY <1>0 DEF Trees
  <2>2. PathToNodeAt(deeper, tree, p, k, TRUE) = deeper[<<made, k + 1>>]
    BY <1>0, <1>1, <1>4 DEF PathToNodeAt, GetNextNode, GetNextFileName
  <2>3. /\ MadeFrom(p, k) = {q} \cup MadeFrom(p, k + 1) /\ q # p
        /\ Passes(p, k) <=> Passes(p, k + 1)
    BY <1>4, MadeStepwise
  <2>4. With(made, p, k + 1) = With(tree, p, k)
    BY <2>3 DEF With
  <2>5. Makes(made, p, k + 1) = Makes(tree, p, k)
    BY <2>3, <2>4 DEF Makes
  <2>. QED
    BY <1>4, <2>1, <2>2, <2>5
<1>5. k = Len(p) \/ k < Len(p)
  BY <1>0
<1>. QED
  BY <1>2, <1>3, <1>4, <1>5, Zenon

LEMMA ReturnsStepwise ==
    ASSUME NEW p \in Paths, NEW create \in BOOLEAN, NEW k \in 1..Len(p), NEW deeper,
           k < Len(p) => \A t \in Trees : deeper[<<t, k + 1>>] = Returns(t, p, k + 1, create),
           NEW tree \in Trees
    PROVE  PathToNodeAt(deeper, tree, p, k, create) = Returns(tree, p, k, create)
<1>1. CASE create = TRUE
  <2>1. k < Len(p) => \A t \in Trees : deeper[<<t, k + 1>>] = Makes(t, p, k + 1)
    BY <1>1 DEF Returns
  <2>2. PathToNodeAt(deeper, tree, p, k, TRUE) = Makes(tree, p, k)
    BY <2>1, MakesStepwise
  <2>. QED
    BY <1>1, <2>2 DEF Returns
<1>2. CASE create = FALSE
  <2>1. k < Len(p) => deeper[<<tree, k + 1>>] = Finds(tree, p, k + 1)
    BY <1>2 DEF Returns
  <2>2. PathToNodeAt(deeper, tree, p, k, FALSE) = Finds(tree, p, k)
    BY <2>1, FindsStepwise
  <2>. QED
    BY <1>2, <2>2 DEF Returns
<1>. QED
  BY <1>1, <1>2

\* The calls of a walk refer to each other as the recursion in the source does:
\* the closed forms show that there are such calls.
LEMMA PathToNodeRecurs ==
    ASSUME NEW p \in Paths, NEW create \in BOOLEAN
    PROVE  PathToNodeCalls(p, create) =
               [c \in Trees \X (1..Len(p)) |->
                   PathToNodeAt(PathToNodeCalls(p, create), c[1], p, c[2], create)]
<1> DEFINE Dom == Trees \X (1..Len(p))
           closed == [c \in Dom |-> Returns(c[1], p, c[2], create)]
<1>1. ASSUME NEW c \in Dom
      PROVE  PathToNodeAt(closed, c[1], p, c[2], create) = Returns(c[1], p, c[2], create)
  <2>1. c[1] \in Trees /\ c[2] \in 1..Len(p)
    OBVIOUS
  <2>2. ASSUME c[2] < Len(p), NEW t \in Trees
        PROVE  closed[<<t, c[2] + 1>>] = Returns(t, p, c[2] + 1, create)
    <3>1. c[2] + 1 \in 1..Len(p)
      BY <2>1, <2>2, PathLen
    <3>. QED
      BY <3>1
  <2> HIDE DEF closed
  <2>. QED
    BY <2>1, <2>2, ReturnsStepwise
<1>2. closed = [c \in Dom |-> PathToNodeAt(closed, c[1], p, c[2], create)]
  <2>1. \A c \in Dom : Returns(c[1], p, c[2], create) =
                       PathToNodeAt(closed, c[1], p, c[2], create)
    BY <1>1
  <2> DEFINE other == [c \in Dom |-> PathToNodeAt(closed, c[1], p, c[2], create)]
  <2>2. closed = other
    BY <2>1
  <2>. QED
    BY <2>2
<1> HIDE DEF closed
<1>3. \E f : f = [c \in Dom |-> PathToNodeAt(f, c[1], p, c[2], create)]
  BY <1>2
<1>4. PathToNodeCalls(p, create) =
          CHOOSE f : f = [c \in Dom |-> PathToNodeAt(f, c[1], p, c[2], create)]
  BY DEF PathToNodeCalls
<1>. QED
  BY <1>3, <1>4, Zenon

\* They return what the closed forms say, from the last component to the first.
LEMMA PathToNodeReturns ==
    ASSUME NEW p \in Paths, NEW create \in BOOLEAN, NEW tree \in Trees
    PROVE  PathToNode(tree, p, create) = Returns(tree, p, 1, create)
<1> DEFINE calls == PathToNodeCalls(p, create)
           Right(k) == \A t \in Trees : calls[<<t, k>>] = Returns(t, p, k, create)
           Wrong == {n \in 0..(Len(p) - 1) : ~Right(Len(p) - n)}
<1>0. Len(p) \in Nat /\ 1 \in 1..Len(p)
  BY PathLen
<1>1. ASSUME NEW t \in Trees, NEW k \in 1..Len(p)
      PROVE  calls[<<t, k>>] = PathToNodeAt(calls, t, p, k, create)
  <2> DEFINE Dom == Trees \X (1..Len(p))
  <2>1. calls = [c \in Dom |-> PathToNodeAt(calls, c[1], p, c[2], create)]
    BY PathToNodeRecurs
  <2> HIDE DEF calls
  <2>2. <<t, k>> \in Dom
    OBVIOUS
  <2>3. calls[<<t, k>>] = PathToNodeAt(calls, <<t, k>>[1], p, <<t, k>>[2], create)
    BY <2>1, <2>2, Zenon
  <2>. QED
    BY <2>3
<1> HIDE DEF calls
<1>2. ASSUME NEW k \in 1..Len(p), k < Len(p) => Right(k + 1) PROVE Right(k)
  BY <1>1, <1>2, ReturnsStepwise
<1> HIDE DEF Right
<1>3. Wrong = {}
  <2>1. SUFFICES ASSUME Wrong # {} PROVE FALSE
    OBVIOUS
  <2>2. Wrong \in SUBSET Nat
    BY <1>0
  <2>3. PICK n \in Wrong : \A m \in Wrong : n <= m
    BY <2>1, <2>2, SmallestOf
  <2> DEFINE k == Len(p) - n
  <2>4. n \in 0..(Len(p) - 1) /\ k \in 1..Len(p) /\ ~Right(k)
    BY <1>0, <2>3
  <2>5. k < Len(p) /\ ~Right(k + 1)
    BY <1>2, <2>4
  <2>6. n - 1 \in 0..(Len(p) - 1) /\ k + 1 = Len(p) - (n - 1)
    BY <1>0, <2>4, <2>5
  <2> HIDE DEF k
  <2>7. n - 1 \in Wrong
    BY <2>5, <2>6
  <2> HIDE DEF Wrong
  <2>8. n <= n - 1 /\ n \in Int
    BY <2>3, <2>4, <2>7
  <2>. QED
    BY <2>8
<1>4. Right(1)
  <2>1. Len(p) - 1 \in 0..(Len(p) - 1) /\ Len(p) - (Len(p) - 1) = 1
    BY <1>0
  <2>. QED
    BY <1>3, <2>1
<1>. QED
  BY <1>4 DEF Right, PathToNode, calls

\* A walk from the first component on.
LEMMA FromTheStart ==
    ASSUME NEW p \in Paths
    PROVE  /\ MadeFrom(p, 1) = Made(p)
           /\ Passes(p, 1) <=> p \in Made(p)
<1>1. MadeFrom(p, 1) = Made(p)
  BY DEF MadeFrom, Made
<1>2. ASSUME Passes(p, 1) PROVE p \in Made(p)
  BY <1>2, UptoAll, PathLen DEF Passes, Made
<1>3. ASSUME p \in Made(p) PROVE Passes(p, 1)
  BY <1>3, MadeComponents DEF Passes
<1>. QED
  BY <1>1, <1>2, <1>3

\* procfuse_pathToNode, for any path in any tree.
LEMMA LookupIs ==
    ASSUME NEW p \in Paths, NEW tree \in Trees
    PROVE  PathToNode(tree, p, FALSE) =
               IF Found(tree.present, tree.dirs, p)
               THEN Result("node", Target(tree.dirs, p), tree)
               ELSE Result(IF Faults(tree.present, tree.dirs, p) THEN "fault" ELSE "null", Root, tree)
<1> DEFINE e == End(tree.dirs, p)
<1>1. PathToNode(tree, p, FALSE) = Finds(tree, p, 1)
  BY PathToNodeReturns DEF Returns
<1>2. EndFrom(tree.dirs, p, 1) = e
  BY EndFromStart
<1>3. Finds(tree, p, 1) =
          IF p[e] \in LongNames THEN Result("null", Root, tree)
          ELSE IF Upto(p, e) \notin tree.present
               THEN Result(IF e < Len(p) THEN "fault" ELSE "null", Root, tree)
          ELSE Result("node", Upto(p, e), tree)
  BY <1>2 DEF Finds
<1>. QED
  BY <1>1, <1>3 DEF Found, Faults, Target

LEMMA CreateWalkIs ==
    ASSUME NEW p \in Paths, NEW tree \in Trees
    PROVE  LET made == [present |-> tree.present \cup Made(p), dirs |-> tree.dirs \cup MadeDirs(p)]
           IN  PathToNode(tree, p, TRUE) =
                   IF p \in Made(p) THEN Result("node", p, made) ELSE Result("null", Root, made)
<1>1. PathToNode(tree, p, TRUE) = Makes(tree, p, 1)
  BY PathToNodeReturns DEF Returns
<1>. QED
  BY <1>1, FromTheStart DEF Makes, With, MadeDirs

-----------------------------------------------------------------------------
(* unregisterNodeInternal                                                  *)

\* What the call for component k cuts off, which directories it goes through,
\* and what it leaves.
CutFrom(tree, p, k) ==
    LET e == EndFrom(tree.dirs, p, k)
        q == Upto(p, e)
    IN  IF p[e] \notin LongNames /\ q \in tree.present THEN {q} \cup Below(q) ELSE {}

Through(tree, p, k) == {Upto(p, j) : j \in k..(EndFrom(tree.dirs, p, k) - 1)}

Spared(tree, p, k) == tree.present \ CutFrom(tree, p, k)

Prunes(tree, p, k) ==
    {d \in Through(tree, p, k) : Below(d) \cap Spared(tree, p, k) \subseteq Through(tree, p, k)}

Stays(tree, p, k) == Spared(tree, p, k) \ Prunes(tree, p, k)

Leaves(tree, p, k) ==
    [present |-> Stays(tree, p, k), dirs |-> tree.dirs \cap Stays(tree, p, k)]

\* A walk that ends at component k.
LEMMA EndsHere ==
    ASSUME NEW p \in Paths, NEW tree \in Trees, NEW k \in 1..Len(p),
           StopsAt(tree.dirs, p, k)
    PROVE  Stays(tree, p, k) =
               IF p[k] \notin LongNames /\ Upto(p, k) \in tree.present
               THEN tree.present \ ({Upto(p, k)} \cup Below(Upto(p, k)))
               ELSE tree.present
<1>1. EndFrom(tree.dirs, p, k) = k
  BY EndStepwise
<1>2. k..(k - 1) = {}
  BY PathLen
<1>3. {Upto(p, j) : j \in {}} = {}
  OBVIOUS
<1>4. Through(tree, p, k) = {}
  BY <1>1, <1>2, <1>3 DEF Through
<1>5. Prunes(tree, p, k) = {}
  BY <1>4 DEF Prunes
<1>6. Stays(tree, p, k) = Spared(tree, p, k)
  BY <1>5 DEF Stays
<1>7. CutFrom(tree, p, k) =
          IF p[k] \notin LongNames /\ Upto(p, k) \in tree.present
          THEN {Upto(p, k)} \cup Below(Upto(p, k)) ELSE {}
  BY <1>1 DEF CutFrom
<1>. QED
  BY <1>6, <1>7 DEF Spared

\* A walk that goes on cuts what the rest of it cuts, and goes through one
\* directory more.
LEMMA GoesOnFrom ==
    ASSUME NEW p \in Paths, NEW tree \in Trees, NEW k \in 1..Len(p),
           ~StopsAt(tree.dirs, p, k)
    PROVE  /\ k < Len(p) /\ k + 1 \in 1..Len(p)
           /\ Spared(tree, p, k) = Spared(tree, p, k + 1)
           /\ Through(tree, p, k) = {Upto(p, k)} \cup Through(tree, p, k + 1)
           /\ \A d \in Through(tree, p, k + 1) : d \in Paths /\ Len(d) > k
<1> DEFINE e == EndFrom(tree.dirs, p, k)
<1>0. Len(p) \in Nat /\ k \in Nat /\ k < Len(p) /\ k + 1 \in 1..Len(p)
  BY PathLen DEF StopsAt
<1>1. e = EndFrom(tree.dirs, p, k + 1)
  BY EndStepwise
<1>2. e \in (k + 1)..Len(p)
  BY <1>0, <1>1, EndOfRest
<1>3. Spared(tree, p, k) = Spared(tree, p, k + 1)
  BY <1>1 DEF Spared, CutFrom
<1> HIDE DEF e
<1>4. \A j : j \in k..(e - 1) <=> j = k \/ j \in (k + 1)..(e - 1)
  BY <1>0, <1>2
<1>5. /\ Through(tree, p, k) = {Upto(p, j) : j \in k..(e - 1)}
      /\ Through(tree, p, k + 1) = {Upto(p, j) : j \in (k + 1)..(e - 1)}
  BY <1>1 DEF Through, e
<1>6. Through(tree, p, k) = {Upto(p, k)} \cup Through(tree, p, k + 1)
  BY <1>4, <1>5
<1>7. \A j \in (k + 1)..(e - 1) : j \in 1..Len(p) /\ j > k
  BY <1>0, <1>2
<1>8. \A d \in Through(tree, p, k + 1) : d \in Paths /\ Len(d) > k
  BY <1>5, <1>7, UptoPath
<1>. QED
  BY <1>0, <1>3, <1>6, <1>8

\* With a path everything below it is cut off.
LEMMA CutFromBelow ==
    ASSUME NEW p \in Paths, NEW tree \in Trees, NEW k \in 1..Len(p),
           NEW q \in CutFrom(tree, p, k), NEW x \in Below(q)
    PROVE  x \in CutFrom(tree, p, k)
<1> DEFINE t == Upto(p, EndFrom(tree.dirs, p, k))
<1>1. EndFrom(tree.dirs, p, k) \in 1..Len(p)
  BY EndOfRest, PathLen
<1>2. t \in Paths
  BY <1>1, UptoPath
<1>3. CutFrom(tree, p, k) = {t} \cup Below(t)
  BY DEF CutFrom
<1> HIDE DEF t
<1>4. x \in Below(t)
  BY <1>2, <1>3, BelowBelow
<1>. QED
  BY <1>3, <1>4

\* hash_table_num_entries says 0 on the way back up when the directory would be
\* left with nothing but directories that are pruned: its other entries, or
\* what those hold, would stay.
LEMMA EmptyMeansPruned ==
    ASSUME NEW p \in Paths, NEW tree \in Trees, WellFormed(tree.present, tree.dirs),
           NEW k \in 1..Len(p), ~StopsAt(tree.dirs, p, k)
    PROVE  LET q == Upto(p, k)
           IN  /\ Entries(Leaves(tree, p, k + 1), q) = {} <=>
                      Below(q) \cap Spared(tree, p, k) \subseteq Through(tree, p, k + 1)
               /\ Entries(Leaves(tree, p, k + 1), q) = {} =>
                      Below(q) \cap Stays(tree, p, k + 1) = {}
<1> DEFINE q == Upto(p, k)
           spared == Spared(tree, p, k)
           through == Through(tree, p, k + 1)
           stays == Stays(tree, p, k + 1)
<1>1. /\ k < Len(p) /\ k + 1 \in 1..Len(p) /\ spared = Spared(tree, p, k + 1)
      /\ \A d \in through : d \in Paths /\ Len(d) > k
  BY GoesOnFrom
<1>2. q \in Paths /\ Len(q) = k /\ k \in Nat
  BY UptoPath, PathLen
<1>3. /\ tree.present \in SUBSET Paths /\ tree.dirs \subseteq tree.present
      /\ spared \subseteq tree.present
  BY TreeRecord DEF Spared
<1>4. stays = {x \in spared : ~(x \in through /\ Below(x) \cap spared \subseteq through)}
  BY <1>1 DEF Stays, Prunes
<1>5. Entries(Leaves(tree, p, k + 1), q) = {x \in stays : Len(x) = k + 1 /\ Upto(x, k) = q}
  BY <1>2 DEF Entries, Leaves
<1> HIDE DEF spared, through, stays
<1>6. ASSUME Below(q) \cap spared \subseteq through PROVE Below(q) \cap stays = {}
  <2>1. SUFFICES ASSUME NEW x \in Below(q), x \in stays PROVE FALSE
    OBVIOUS
  <2>2. x \in spared /\ x \in through
    BY <1>4, <1>6, <2>1
  <2>3. Below(x) \subseteq Below(q)
    BY <1>2, <2>1, BelowBelow
  <2>. QED
    BY <1>4, <1>6, <2>1, <2>2, <2>3
<1>7. ASSUME Below(q) \cap stays = {} PROVE Entries(Leaves(tree, p, k + 1), q) = {}
  <2>1. \A x \in stays : Len(x) = k + 1 /\ Upto(x, k) = q => x \in Below(q)
    BY <1>2, <1>3, <1>4 DEF Below
  <2>. QED
    BY <1>5, <1>7, <2>1
<1>8. ASSUME Entries(Leaves(tree, p, k + 1), q) = {} PROVE Below(q) \cap spared \subseteq through
  <2>1. SUFFICES ASSUME NEW x \in Below(q), x \in spared, x \notin through PROVE FALSE
    OBVIOUS
  <2> DEFINE y == Upto(x, k + 1)
  <2>2. x \in Paths /\ x \in tree.present /\ Len(x) \in Nat /\ k \in 1..(Len(x) - 1) /\ Upto(x, k) = q
    BY <1>2, <1>3, <2>1, BelowIsPrefix, PathLen
  <2>3. k + 1 \in 1..Len(x)
    BY <1>2, <2>2
  <2>4. y \in Paths /\ Len(y) = k + 1 /\ Upto(y, k) = q
    <3>1. k \in 1..(k + 1)
      BY <2>2
    <3>. QED
      BY <2>2, <2>3, <3>1, UptoPath, UptoUpto
  <2>5. y = x \/ (x \in Below(y) /\ y \in tree.dirs)
    <3>1. CASE k + 1 = Len(x)
      BY <2>2, <3>1, UptoAll
    <3>2. CASE k + 1 # Len(x)
      <4>1. k + 1 \in 1..(Len(x) - 1)
        BY <2>2, <2>3, <3>2
      <4>. QED
        BY <2>2, <4>1, BelowPrefix DEF WellFormed
    <3>. QED
      BY <3>1, <3>2
  <2> HIDE DEF y
  <2>6. y \in spared
    <3>1. y \in tree.present
      BY <1>3, <2>2, <2>5
    <3>2. x \notin CutFrom(tree, p, k)
      BY <2>1 DEF spared, Spared
    <3>3. y \notin CutFrom(tree, p, k)
      BY <2>5, <3>2, CutFromBelow
    <3>. QED
      BY <3>1, <3>3 DEF spared, Spared
  <2>7. y \in stays
    BY <1>4, <2>1, <2>5, <2>6
  <2>. QED
    BY <1>5, <1>8, <2>4, <2>7
<1>. QED
  BY <1>6, <1>7, <1>8 DEF spared, through, stays

\* The call for component k leaves what the closed form says, if the next one
\* does.
LEMMA LeavesStepwise ==
    ASSUME NEW p \in Paths, NEW tree \in Trees, WellFormed(tree.present, tree.dirs),
           NEW k \in 1..Len(p), NEW deeper,
           k < Len(p) => deeper[k + 1] = Leaves(tree, p, k + 1)
    PROVE  UnregisterNodeAt(deeper, tree, p, k) = Leaves(tree, p, k)
<1> DEFINE q == Upto(p, k)
<1>0. /\ tree = [present |-> tree.present, dirs |-> tree.dirs]
      /\ tree.present \in SUBSET Paths /\ tree.dirs \in SUBSET tree.present
  BY TreeRecord
<1>1. Len(p) \in Nat /\ k \in Nat /\ k <= Len(p) /\ q \in Paths /\ Len(q) = k
  BY PathLen, UptoPath
<1>2. ASSUME StopsAt(tree.dirs, p, k), p[k] \in LongNames \/ q \notin tree.present
      PROVE  UnregisterNodeAt(deeper, tree, p, k) = Leaves(tree, p, k)
  <2>1. UnregisterNodeAt(deeper, tree, p, k) = tree
    BY <1>2 DEF UnregisterNodeAt, GetNextFileName
  <2>2. Stays(tree, p, k) = tree.present
    BY <1>2, EndsHere
  <2>3. tree.dirs \cap tree.present = tree.dirs
    BY <1>0
  <2>4. Leaves(tree, p, k) = [present |-> tree.present, dirs |-> tree.dirs]
    BY <2>2, <2>3 DEF Leaves
  <2>. QED
    BY <1>0, <2>1, <2>4
<1>3. ASSUME StopsAt(tree.dirs, p, k), p[k] \notin LongNames, q \in tree.present
      PROVE  UnregisterNodeAt(deeper, tree, p, k) = Leaves(tree, p, k)
  <2> DEFINE gone == {q} \cup Below(q)
  <2>1. ~(k < Len(p) /\ q \in tree.dirs)
    BY <1>1, <1>3 DEF StopsAt
  <2>2. UnregisterNodeAt(deeper, tree, p, k) = Remove(tree, q)
    BY <1>3, <2>1 DEF UnregisterNodeAt, GetNextFileName
  <2>3. Stays(tree, p, k) = tree.present \ gone
    BY <1>3, EndsHere
  <2> HIDE DEF gone
  <2>4. tree.dirs \cap (tree.present \ gone) = tree.dirs \ gone
    BY <1>0
  <2>5. Leaves(tree, p, k) = [present |-> tree.present \ gone, dirs |-> tree.dirs \ gone]
    BY <2>3, <2>4 DEF Leaves
  <2>. QED
    BY <2>2, <2>5 DEF Remove, gone
<1>4. ASSUME ~StopsAt(tree.dirs, p, k)
      PROVE  UnregisterNodeAt(deeper, tree, p, k) = Leaves(tree, p, k)
  <2> DEFINE below == Leaves(tree, p, k + 1)
             stays == Stays(tree, p, k + 1)
             through == Through(tree, p, k + 1)
             spared == Spared(tree, p, k)
             empty == Entries(below, q) = {}
  <2>1. p[k] \notin LongNames /\ q \in tree.dirs /\ q \in tree.present /\ k < Len(p)
    BY <1>0, <1>1, <1>4 DEF StopsAt
  <2>2. UnregisterNodeAt(deeper, tree, p, k) = IF empty THEN Remove(below, q) ELSE below
    BY <2>1 DEF UnregisterNodeAt, GetNextFileName
  <2>3. /\ spared = Spared(tree, p, k + 1)
        /\ Through(tree, p, k) = {q} \cup through
        /\ \A d \in through : d \in Paths /\ Len(d) > k
    BY <1>4, GoesOnFrom
  <2>4. /\ empty <=> Below(q) \cap spared \subseteq through
        /\ empty => Below(q) \cap stays = {}
    BY <1>4, EmptyMeansPruned
  <2>5. q \notin Below(q) /\ \A d \in through : q \notin Below(d)
    BY <1>1, <2>3 DEF Below
  <2> DEFINE Pruned(d) == Below(d) \cap spared \subseteq through
  <2>6. \A d \in {q} \cup through :
            Below(d) \cap spared \subseteq {q} \cup through <=> Pruned(d)
    BY <2>5
  <2>7. Prunes(tree, p, k) = {d \in {q} \cup through : Pruned(d)}
    BY <2>3, <2>6 DEF Prunes
  <2>8. Prunes(tree, p, k + 1) = {d \in through : Pruned(d)}
    BY <2>3 DEF Prunes
  <2>9. empty <=> Pruned(q)
    BY <2>4
  <2>10. Stays(tree, p, k) = IF empty THEN stays \ {q} ELSE stays
    <3>1. /\ Stays(tree, p, k) = spared \ Prunes(tree, p, k)
          /\ stays = spared \ Prunes(tree, p, k + 1)
      BY <2>3 DEF Stays
    <3> HIDE DEF empty, Pruned, through, spared, stays
    <3>. QED
      BY <2>7, <2>8, <2>9, <3>1
  <2>11. below = [present |-> stays, dirs |-> tree.dirs \cap stays]
    BY DEF Leaves
  <2>12. CASE empty
    <3> DEFINE gone == {q} \cup Below(q)
    <3>1. stays \ gone = stays \ {q} /\ (tree.dirs \cap stays) \ gone = tree.dirs \cap (stays \ {q})
      BY <2>4, <2>12
    <3>2. Remove(below, q) = [present |-> stays \ gone, dirs |-> (tree.dirs \cap stays) \ gone]
      <4>1. below.present = stays /\ below.dirs = tree.dirs \cap stays
        BY <2>11
      <4> HIDE DEF below, stays
      <4>. QED
        BY <4>1 DEF Remove
    <3>3. Leaves(tree, p, k) = [present |-> stays \ {q}, dirs |-> tree.dirs \cap (stays \ {q})]
      BY <2>10, <2>12 DEF Leaves
    <3>. QED
      BY <2>2, <2>12, <3>1, <3>2, <3>3
  <2>13. CASE ~empty
    <3>1. Leaves(tree, p, k) = [present |-> stays, dirs |-> tree.dirs \cap stays]
      BY <2>10, <2>13 DEF Leaves
    <3>. QED
      BY <2>2, <2>11, <2>13, <3>1
  <2>. QED
    BY <2>12, <2>13
<1>5. p[k] \in LongNames \/ q \notin tree.present => StopsAt(tree.dirs, p, k)
  BY <1>0 DEF StopsAt
<1>. QED
  BY <1>2, <1>3, <1>4, <1>5

\* As with pathToNode, the closed forms are what the recursion asks for.
LEMMA UnregisterNodeRecurs ==
    ASSUME NEW p \in Paths, NEW tree \in Trees, WellFormed(tree.present, tree.dirs)
    PROVE  UnregisterNodeCalls(tree, p) =
               [k \in 1..Len(p) |-> UnregisterNodeAt(UnregisterNodeCalls(tree, p), tree, p, k)]
<1> DEFINE closed == [k \in 1..Len(p) |-> Leaves(tree, p, k)]
<1>1. ASSUME NEW k \in 1..Len(p)
      PROVE  UnregisterNodeAt(closed, tree, p, k) = Leaves(tree, p, k)
  <2>1. ASSUME k < Len(p) PROVE closed[k + 1] = Leaves(tree, p, k + 1)
    <3>1. k + 1 \in 1..Len(p)
      BY <2>1, PathLen
    <3>. QED
      BY <3>1
  <2> HIDE DEF closed
  <2>. QED
    BY <2>1, LeavesStepwise
<1>2. closed = [k \in 1..Len(p) |-> UnregisterNodeAt(closed, tree, p, k)]
  <2>1. \A k \in 1..Len(p) : Leaves(tree, p, k) = UnregisterNodeAt(closed, tree, p, k)
    BY <1>1
  <2> DEFINE other == [k \in 1..Len(p) |-> UnregisterNodeAt(closed, tree, p, k)]
  <2>2. closed = other
    BY <2>1
  <2>. QED
    BY <2>2
<1> HIDE DEF closed
<1>3. \E f : f = [k \in 1..Len(p) |-> UnregisterNodeAt(f, tree, p, k)]
  BY <1>2
<1>4. UnregisterNodeCalls(tree, p) =
          CHOOSE f : f = [k \in 1..Len(p) |-> UnregisterNodeAt(f, tree, p, k)]
  BY DEF UnregisterNodeCalls
<1>. QED
  BY <1>3, <1>4, Zenon

\* procfuse_unregisterNodeInternal, for any path in any tree without holes.
LEMMA UnregisterNodeIs ==
    ASSUME NEW p \in Paths, NEW tree \in Trees, WellFormed(tree.present, tree.dirs)
    PROVE  LET left == Unregistered(tree.present, tree.dirs, p)
           IN  UnregisterNode(tree, p) = [present |-> left, dirs |-> tree.dirs \cap left]
<1> DEFINE calls == UnregisterNodeCalls(tree, p)
           Right(k) == calls[k] = Leaves(tree, p, k)
           Wrong == {n \in 0..(Len(p) - 1) : ~Right(Len(p) - n)}
<1>0. Len(p) \in Nat /\ 1 \in 1..Len(p)
  BY PathLen
<1>1. ASSUME NEW k \in 1..Len(p) PROVE calls[k] = UnregisterNodeAt(calls, tree, p, k)
  <2>1. calls = [i \in 1..Len(p) |-> UnregisterNodeAt(calls, tree, p, i)]
    BY UnregisterNodeRecurs
  <2> HIDE DEF calls
  <2>. QED
    BY <2>1, Zenon
<1> HIDE DEF calls
<1>2. ASSUME NEW k \in 1..Len(p), k < Len(p) => Right(k + 1) PROVE Right(k)
  BY <1>1, <1>2, LeavesStepwise
<1> HIDE DEF Right
<1>3. Wrong = {}
  <2>1. SUFFICES ASSUME Wrong # {} PROVE FALSE
    OBVIOUS
  <2>2. Wrong \in SUBSET Nat
    BY <1>0
  <2>3. PICK n \in Wrong : \A m \in Wrong : n <= m
    BY <2>1, <2>2, SmallestOf
  <2> DEFINE k == Len(p) - n
  <2>4. n \in 0..(Len(p) - 1) /\ k \in 1..Len(p) /\ ~Right(k)
    BY <1>0, <2>3
  <2>5. k < Len(p) /\ ~Right(k + 1)
    BY <1>2, <2>4
  <2>6. n - 1 \in 0..(Len(p) - 1) /\ k + 1 = Len(p) - (n - 1)
    BY <1>0, <2>4, <2>5
  <2> HIDE DEF k
  <2>7. n - 1 \in Wrong
    BY <2>5, <2>6
  <2> HIDE DEF Wrong
  <2>8. n <= n - 1 /\ n \in Int
    BY <2>3, <2>4, <2>7
  <2>. QED
    BY <2>8
<1>4. UnregisterNode(tree, p) = Leaves(tree, p, 1)
  <2>1. Len(p) - 1 \in 0..(Len(p) - 1) /\ Len(p) - (Len(p) - 1) = 1
    BY <1>0
  <2>2. Right(1)
    BY <1>3, <2>1
  <2>. QED
    BY <2>2 DEF Right, UnregisterNode, calls
<1>5. EndFrom(tree.dirs, p, 1) = End(tree.dirs, p)
  BY EndFromStart
<1>6. Spared(tree, p, 1) = tree.present \ Cut(tree.present, tree.dirs, p)
  BY <1>5 DEF Spared, CutFrom, Cut, Found, Target
<1>7. Through(tree, p, 1) = Walked(tree.dirs, p)
  BY <1>5 DEF Through, Walked
<1>8. Stays(tree, p, 1) = Unregistered(tree.present, tree.dirs, p)
  BY <1>6, <1>7 DEF Stays, Prunes, Unregistered
<1>. QED
  BY <1>4, <1>8 DEF Leaves

-----------------------------------------------------------------------------
(* The trees that creates and unregistrations produce                      *)

\* The tree has no holes.
WalkInv == tr \in Trees /\ WellFormed(tr.present, tr.dirs)

LEMMA AfterCreate ==
    ASSUME NEW p \in Paths, NEW tree \in Trees, WellFormed(tree.present, tree.dirs)
    PROVE  LET made == PathToNode(tree, p, TRUE).tree
           IN  /\ made = [present |-> tree.present \cup Made(p),
                          dirs    |-> tree.dirs \cup MadeDirs(p)]
               /\ made \in Trees /\ WellFormed(made.present, made.dirs)
<1> DEFINE present == tree.present \cup Made(p)
           dirs == tree.dirs \cup MadeDirs(p)
           made == [present |-> present, dirs |-> dirs]
<1>1. PathToNode(tree, p, TRUE).tree = made
  <2> DEFINE returned == PathToNode(tree, p, TRUE)
  <2>1. returned \in {Result("node", p, made), Result("null", Root, made)}
    BY CreateWalkIs
  <2> HIDE DEF made, returned
  <2>2. returned.tree = made
    BY <2>1 DEF Result
  <2>. QED
    BY <2>2 DEF returned
<1>2. tree.present \in SUBSET Paths /\ tree.dirs \in SUBSET tree.present
  BY TreeRecord
<1>3. Made(p) \subseteq Paths /\ MadeDirs(p) \subseteq Made(p)
  BY MadeComponents DEF MadeDirs
<1>4. WellFormed(present, dirs)
  BY <1>2, MadeWellFormed
<1>5. present \in SUBSET Paths /\ dirs \subseteq present
  BY <1>2, <1>3
<1> HIDE DEF present, dirs
<1>6. made \in Trees /\ made.present = present /\ made.dirs = dirs
  BY <1>5 DEF Trees
<1>. QED
  BY <1>1, <1>4, <1>6 DEF present, dirs

LEMMA AfterUnregister ==
    ASSUME NEW p \in Paths, NEW tree \in Trees, WellFormed(tree.present, tree.dirs)
    PROVE  LET gone == UnregisterNode(tree, p)
           IN  gone \in Trees /\ WellFormed(gone.present, gone.dirs)
<1> DEFINE left == Unregistered(tree.present, tree.dirs, p)
           dirs == tree.dirs \cap left
           gone == [present |-> left, dirs |-> dirs]
<1>1. UnregisterNode(tree, p) = gone
  BY UnregisterNodeIs
<1>2. tree.present \in SUBSET Paths /\ tree.dirs \in SUBSET tree.present
  BY TreeRecord
<1>3. WellFormed(left, dirs)
  BY <1>2, UnregisteredWellFormed
<1>4. left \in SUBSET Paths /\ dirs \subseteq left
  BY <1>2, UnregisteredSubset
<1> HIDE DEF left, dirs
<1>5. gone \in Trees /\ gone.present = left /\ gone.dirs = dirs
  BY <1>4 DEF Trees
<1>. QED
  BY <1>1, <1>3, <1>5

LEMMA WalkInvHolds == Spec => []WalkInv
<1>1. Init => WalkInv
  <2>. SUFFICES ASSUME Init PROVE WalkInv
    OBVIOUS
  <2>1. tr.present = {} /\ tr.dirs = {} /\ tr \in Trees
    BY DEF Init, Trees
  <2>. QED
    BY <2>1 DEF WalkInv, WellFormed
<1>2. WalkInv /\ [Next]_tr => WalkInv'
  <2>. SUFFICES ASSUME WalkInv, [Next]_tr PROVE WalkInv'
    OBVIOUS
  <2>1. CASE UNCHANGED tr
    BY <2>1 DEF WalkInv
  <2>2. ASSUME NEW p \in Paths, Create(p) PROVE WalkInv'
    BY <2>2, AfterCreate DEF WalkInv, Create, CreateWalk
  <2>3. ASSUME NEW p \in Paths, Unregister(p) PROVE WalkInv'
    BY <2>3, AfterUnregister DEF WalkInv, Unregister
  <2>. QED
    BY <2>1, <2>2, <2>3 DEF Next
<1>. QED
  BY <1>1, <1>2, PTL DEF Spec

-----------------------------------------------------------------------------
(* What the runs check                                                     *)

\* In every tree, procfuse_pathToNode without PROCFUSE_YES finds a node, returns
\* NULL or dereferences NULL exactly when the closed forms say so, however deep
\* the path, and finds the node they say.
THEOREM LookupsAgree == Spec => []LookupAgrees
<1>1. WalkInv => LookupAgrees
  <2>1. SUFFICES ASSUME WalkInv, NEW p \in Paths
                 PROVE  /\ Lookup(p).outcome = "node"  <=> Found(tr.present, tr.dirs, p)
                        /\ Lookup(p).outcome = "fault" <=> Faults(tr.present, tr.dirs, p)
                        /\ Lookup(p).outcome = "node"   => Lookup(p).path = Target(tr.dirs, p)
                        /\ Lookup(p).tree = tr
    BY DEF LookupAgrees
  <2>2. Lookup(p) =
            IF Found(tr.present, tr.dirs, p) THEN Result("node", Target(tr.dirs, p), tr)
            ELSE Result(IF Faults(tr.present, tr.dirs, p) THEN "fault" ELSE "null", Root, tr)
    BY <2>1, LookupIs DEF WalkInv, Lookup
  <2>3. ~(Found(tr.present, tr.dirs, p) /\ Faults(tr.present, tr.dirs, p))
    BY DEF Found, Faults
  <2>4. CASE Found(tr.present, tr.dirs, p)
    BY <2>2, <2>3, <2>4 DEF Result
  <2>5. CASE ~Found(tr.present, tr.dirs, p) /\ Faults(tr.present, tr.dirs, p)
    BY <2>2, <2>5 DEF Result
  <2>6. CASE ~Found(tr.present, tr.dirs, p) /\ ~Faults(tr.present, tr.dirs, p)
    BY <2>2, <2>6 DEF Result
  <2>. QED
    BY <2>4, <2>5, <2>6
<1>. QED
  BY <1>1, WalkInvHolds, PTL

\* In every tree, procfuse_pathToNode with PROCFUSE_YES makes what the closed forms
\* say, through files in the way too, and what it has made before a component
\* that is too long stays.
THEOREM CreatesAgree == Spec => []CreateAgrees
<1>1. WalkInv => CreateAgrees
  <2>1. SUFFICES ASSUME WalkInv, NEW p \in Paths
                 PROVE  /\ CreateWalk(p).tree.present = tr.present \cup Made(p)
                        /\ CreateWalk(p).tree.dirs = tr.dirs \cup MadeDirs(p)
                        /\ IF p \in Made(p) THEN CreateWalk(p).path = p
                           ELSE CreateWalk(p).outcome = "null"
    BY DEF CreateAgrees
  <2> DEFINE made == [present |-> tr.present \cup Made(p), dirs |-> tr.dirs \cup MadeDirs(p)]
  <2>2. CreateWalk(p) =
            IF p \in Made(p) THEN Result("node", p, made) ELSE Result("null", Root, made)
    BY <2>1, CreateWalkIs DEF WalkInv, CreateWalk
  <2>3. CreateWalk(p).tree = made
    BY <2>1, AfterCreate DEF WalkInv, CreateWalk
  <2>4. made.present = tr.present \cup Made(p) /\ made.dirs = tr.dirs \cup MadeDirs(p)
    OBVIOUS
  <2> HIDE DEF made
  <2>5. IF p \in Made(p) THEN CreateWalk(p).path = p ELSE CreateWalk(p).outcome = "null"
    BY <2>2 DEF Result
  <2>. QED
    BY <2>3, <2>4, <2>5
<1>. QED
  BY <1>1, WalkInvHolds, PTL

\* In every tree, procfuse_unregisterNodeInternal removes what the closed form
\* says: asking each table for its number of entries on the way back up prunes
\* exactly the directories that hold nothing but what is pruned.
THEOREM UnregistrationsAgree == Spec => []UnregisterAgrees
<1>1. WalkInv => UnregisterAgrees
  <2>1. SUFFICES ASSUME WalkInv, NEW p \in Paths
                 PROVE  UnregisterNode(tr, p).present = Unregistered(tr.present, tr.dirs, p)
    BY DEF UnregisterAgrees
  <2> DEFINE left == Unregistered(tr.present, tr.dirs, p)
  <2>2. UnregisterNode(tr, p) = [present |-> left, dirs |-> tr.dirs \cap left]
    BY <2>1, UnregisterNodeIs DEF WalkInv
  <2>. QED
    BY <2>2
<1>. QED
  BY <1>1, WalkInvHolds, PTL

\* A path that was just made ends its own walk, ...
LEMMA MadeIsFound ==
    ASSUME NEW p \in Paths, NEW present, NEW dirs, p \in Made(p),
           Made(p) \subseteq present, MadeDirs(p) \subseteq dirs
    PROVE  Target(dirs, p) = p /\ Found(present, dirs, p)
<1>1. Passes(p, 1)
  BY FromTheStart
<1>2. ASSUME NEW j \in 1..(Len(p) - 1) PROVE ~StopsAt(dirs, p, j)
  <2>1. j \in 1..Len(p) /\ j # Len(p)
    BY PathLen
  <2>2. Upto(p, j) \in Made(p) /\ Upto(p, j) # p
    <3>1. \A i \in 1..j : i \in 1..Len(p)
      BY <2>1, PathLen
    <3>. QED
      BY <1>1, <2>1, <3>1, UptoPath DEF Made, Passes
  <2>3. p[j] \notin LongNames /\ Upto(p, j) \in dirs
    BY <1>1, <2>1, <2>2 DEF Passes, MadeDirs
  <2>. QED
    BY <2>1, <2>3 DEF StopsAt
<1>3. End(dirs, p) = Len(p)
  BY <1>2, EndOfWalk, PathLen
<1>4. Target(dirs, p) = p
  BY <1>3, UptoAll DEF Target
<1>5. p[Len(p)] \notin LongNames
  BY <1>1, PathLen DEF Passes
<1>. QED
  BY <1>3, <1>4, <1>5 DEF Found

\* ... and once it is unregistered, no walk of it finds anything.
LEMMA GoneIsLost ==
    ASSUME NEW p \in Paths, NEW present, NEW dirs, p \in Made(p),
           Made(p) \subseteq present, MadeDirs(p) \subseteq dirs
    PROVE  LET left == Unregistered(present, dirs, p)
           IN  ~Found(left, dirs \cap left, p)
<1> DEFINE left == Unregistered(present, dirs, p)
           rest == dirs \cap left
           e == End(rest, p)
<1>1. Target(dirs, p) = p /\ Found(present, dirs, p)
  BY MadeIsFound
<1>2. p \notin left
  BY <1>1 DEF Unregistered, Cut
<1> HIDE DEF left
<1>3. e \in 1..Len(p) /\ StopsAt(rest, p, e)
  BY EndOfWalk
<1> HIDE DEF rest, e
<1>4. SUFFICES ASSUME p[e] \notin LongNames, Upto(p, e) \in left PROVE FALSE
  BY DEF Found, Target, left, rest, e
<1>5. e # Len(p)
  BY <1>2, <1>4, UptoAll
<1>6. Upto(p, e) \in dirs
  <2>1. Passes(p, 1)
    BY FromTheStart
  <2>2. \A i \in 1..e : i \in 1..Len(p)
    BY <1>3, PathLen
  <2>3. Upto(p, e) \in Made(p)
    BY <1>3, <2>1, <2>2 DEF Made, Passes
  <2>4. Upto(p, e) # p
    BY <1>3, <1>5, UptoPath
  <2>. QED
    BY <2>3, <2>4 DEF MadeDirs
<1>. QED
  BY <1>3, <1>4, <1>5, <1>6 DEF StopsAt, rest

\* In every tree, a lookup right after a create that succeeded finds what it made,
\* whatever was in the way, and finds nothing there once that is unregistered.
THEOREM CreateThenUnregisters == Spec => []CreateThenUnregister
<1>1. WalkInv => CreateThenUnregister
  <2>1. SUFFICES ASSUME WalkInv, NEW p \in Paths, CreateWalk(p).outcome = "node"
                 PROVE  LET made == CreateWalk(p).tree
                            gone == UnregisterNode(made, p)
                        IN  /\ PathToNode(made, p, FALSE).path = p
                            /\ PathToNode(gone, p, FALSE).outcome # "node"
    BY DEF CreateThenUnregister
  <2> DEFINE made == CreateWalk(p).tree
             gone == UnregisterNode(made, p)
             left == Unregistered(made.present, made.dirs, p)
  <2>2. /\ made = [present |-> tr.present \cup Made(p), dirs |-> tr.dirs \cup MadeDirs(p)]
        /\ made \in Trees /\ WellFormed(made.present, made.dirs)
    BY <2>1, AfterCreate DEF WalkInv, CreateWalk
  <2>3. p \in Made(p)
    <3>1. CASE p \notin Made(p)
      <4> DEFINE grown == [present |-> tr.present \cup Made(p), dirs |-> tr.dirs \cup MadeDirs(p)]
      <4>1. CreateWalk(p) = Result("null", Root, grown)
        BY <2>1, <3>1, CreateWalkIs DEF WalkInv, CreateWalk
      <4> HIDE DEF grown
      <4>2. CreateWalk(p).outcome = "null"
        BY <4>1 DEF Result
      <4>. QED
        BY <2>1, <4>2
    <3>. QED
      BY <3>1
  <2> HIDE DEF made
  <2>4. Made(p) \subseteq made.present /\ MadeDirs(p) \subseteq made.dirs
    BY <2>2
  <2> DEFINE returned == PathToNode(made, p, FALSE)
  <2>5. returned.path = p
    <3>1. Target(made.dirs, p) = p /\ Found(made.present, made.dirs, p)
      BY <2>3, <2>4, MadeIsFound
    <3>2. made \in Trees
      BY <2>2
    <3>3. returned = Result("node", Target(made.dirs, p), made)
      BY <3>1, <3>2, LookupIs
    <3> HIDE DEF returned
    <3>. QED
      BY <3>1, <3>3 DEF Result
  <2>6. gone = [present |-> left, dirs |-> made.dirs \cap left] /\ gone \in Trees
    BY <2>2, UnregisterNodeIs, AfterUnregister
  <2> HIDE DEF gone, left
  <2>7. gone.present = left /\ gone.dirs = made.dirs \cap left
    BY <2>6
  <2>8. ~Found(gone.present, gone.dirs, p)
    BY <2>3, <2>4, <2>7, GoneIsLost DEF left
  <2>9. PathToNode(gone, p, FALSE) \in {Result("fault", Root, gone), Result("null", Root, gone)}
    BY <2>6, <2>8, LookupIs
  <2> DEFINE found == PathToNode(gone, p, FALSE)
  <2>10. found.outcome # "node"
    <3> HIDE DEF found
    <3>1. found = Result("fault", Root, gone) \/ found = Result("null", Root, gone)
      BY <2>9 DEF found
    <3>2. found.outcome \in {"fault", "null"}
      BY <3>1 DEF Result
    <3>. QED
      BY <3>2
  <2>. QED
    BY <2>5, <2>10 DEF made, gone
<1>. QED
  BY <1>1, WalkInvHolds, PTL
=============================================================================
