--------------------------- MODULE NodeTree_proof ---------------------------
(***************************************************************************)
(* Facts about the path tree, for any set of paths closed under prefixes:  *)
(* where the walks end, and what unregistering a path leaves behind.       *)
(***************************************************************************)
EXTENDS NodeTree, SequenceTheorems, WellFoundedInduction, TLAPS

\* Everything on the way to a present path is a directory ...
WellFormed(present, dirs) ==
    \A p \in present : \A k \in 1..(Len(p) - 1) : Upto(p, k) \in dirs

\* ... no component is too long for getNextFileName ...
Named(present) == \A p \in present : \A k \in 1..Len(p) : p[k] \notin LongNames

\* ... and every directory holds something.
Filled(present, dirs) == \A d \in dirs : Below(d) \cap present # {}

-----------------------------------------------------------------------------
(* Paths and their prefixes                                                *)

\* The least-number principle for a set of naturals.
LEMMA SmallestOf ==
    ASSUME NEW S \in SUBSET Nat, S # {}
    PROVE  \E m \in S : \A k \in S : m <= k
<1>1. PICK m \in S : \A k \in S : ~(<<k, m>> \in OpToRel(<, Nat))
  BY NatLessThanWellFounded, WFMin, Zenon
<1>2. \A k \in S : ~(k < m)
  BY <1>1 DEF OpToRel
<1>. QED
  BY <1>2

LEMMA PathLen ==
    ASSUME NEW p \in Paths
    PROVE  p \in Seq(Names) /\ Len(p) \in Nat /\ Len(p) >= 1
BY PathsAssumption, LenProperties

LEMMA UptoPath ==
    ASSUME NEW p \in Paths, NEW k \in 1..Len(p)
    PROVE  /\ Upto(p, k) \in Paths /\ Len(Upto(p, k)) = k
           /\ \A i \in 1..k : Upto(p, k)[i] = p[i]
<1>1. Upto(p, k) \in Paths
  BY PathsAssumption DEF Upto
<1>2. \A i \in 1..k : p[i] \in Names
  BY PathLen, ElementOfSeq
<1>3. k \in Int /\ 1 <= k
  BY PathLen
<1>4. /\ Len(SubSeq(p, 1, k)) = IF 1 <= k THEN k - 1 + 1 ELSE 0
      /\ \A i \in 1..(k - 1 + 1) : SubSeq(p, 1, k)[i] = p[1 + i - 1]
  BY <1>2, <1>3, SubSeqProperties
<1>5. /\ Len(SubSeq(p, 1, k)) = k
      /\ \A i \in 1..k : SubSeq(p, 1, k)[i] = p[i]
  BY <1>3, <1>4
<1>. QED
  BY <1>1, <1>5 DEF Upto

LEMMA UptoAll ==
    ASSUME NEW p \in Paths
    PROVE  Upto(p, Len(p)) = p
BY PathLen, SubSeqFull DEF Upto

LEMMA UptoUpto ==
    ASSUME NEW p \in Paths, NEW k \in 1..Len(p), NEW j \in 1..k
    PROVE  Upto(Upto(p, k), j) = Upto(p, j)
<1> DEFINE q == Upto(p, k)
<1>1. q \in Paths /\ Len(q) = k /\ \A i \in 1..k : q[i] = p[i]
  BY UptoPath
<1>2. j \in 1..Len(p) /\ \A i \in 1..j : i \in 1..k
  BY PathLen
<1> HIDE DEF q
<1>3. /\ Upto(q, j) \in Paths /\ Len(Upto(q, j)) = j
      /\ \A i \in 1..j : Upto(q, j)[i] = q[i]
  BY <1>1, UptoPath
<1>4. /\ Upto(p, j) \in Paths /\ Len(Upto(p, j)) = j
      /\ \A i \in 1..j : Upto(p, j)[i] = p[i]
  BY <1>2, UptoPath
<1>5. \A i \in 1..j : Upto(q, j)[i] = Upto(p, j)[i]
  BY <1>1, <1>2, <1>3, <1>4
<1>6. Upto(q, j) = Upto(p, j)
  BY <1>3, <1>4, <1>5, PathLen, SeqEqual
<1>. QED
  BY <1>6 DEF q

\* A path is below its strict prefixes, and below nothing else.
LEMMA BelowIsPrefix ==
    ASSUME NEW p \in Paths, NEW q \in Below(p)
    PROVE  /\ q \in Paths /\ Len(p) \in 1..(Len(q) - 1) /\ Upto(q, Len(p)) = p
           /\ p # q
BY PathLen DEF Below

LEMMA PrefixesNest ==
    ASSUME NEW p \in Paths, NEW k \in 1..Len(p), NEW j \in 1..(k - 1)
    PROVE  Upto(p, k) \in Below(Upto(p, j))
<1>1. j \in 1..Len(p) /\ j \in 1..k /\ j < k
  BY PathLen
<1>2. /\ Upto(p, k) \in Paths /\ Len(Upto(p, k)) = k
      /\ Len(Upto(p, j)) = j
      /\ Upto(Upto(p, k), j) = Upto(p, j)
  BY <1>1, UptoPath, UptoUpto
<1>. QED
  BY <1>1, <1>2 DEF Below

LEMMA BelowPrefix ==
    ASSUME NEW p \in Paths, NEW j \in 1..(Len(p) - 1)
    PROVE  p \in Below(Upto(p, j)) /\ Upto(p, j) \in Paths
<1>1. Len(p) \in 1..Len(p) /\ j \in 1..Len(p)
  BY PathLen
<1>. QED
  BY <1>1, PrefixesNest, UptoAll, UptoPath

LEMMA BelowBelow ==
    ASSUME NEW p \in Paths, NEW q \in Below(p), NEW r \in Below(q)
    PROVE  r \in Below(p)
<1>1. /\ q \in Paths /\ Len(p) \in 1..(Len(q) - 1) /\ Upto(q, Len(p)) = p
      /\ r \in Paths /\ Len(q) \in 1..(Len(r) - 1) /\ Upto(r, Len(q)) = q
  BY BelowIsPrefix
<1>2. Len(p) \in 1..Len(q) /\ Len(q) \in 1..Len(r) /\ Len(r) > Len(p)
  BY <1>1, PathLen
<1>3. Upto(r, Len(p)) = p
  BY <1>1, <1>2, UptoUpto
<1>. QED
  BY <1>1, <1>2, <1>3 DEF Below

\* Two prefixes of one path are the same, or one is below the other.
LEMMA PrefixesCompare ==
    ASSUME NEW x \in Paths, NEW p \in Paths, NEW q \in Paths, x \in Below(p), x \in Below(q)
    PROVE  p = q \/ p \in Below(q) \/ q \in Below(p)
<1>1. /\ Len(p) \in 1..(Len(x) - 1) /\ Upto(x, Len(p)) = p
      /\ Len(q) \in 1..(Len(x) - 1) /\ Upto(x, Len(q)) = q
  BY BelowIsPrefix
<1>2. Len(p) \in 1..Len(x) /\ Len(q) \in 1..Len(x)
  BY <1>1, PathLen
<1>3. CASE Len(p) = Len(q)
  BY <1>1, <1>3
<1>4. CASE Len(p) < Len(q)
  <2>1. Len(p) \in 1..(Len(q) - 1)
    BY <1>1, <1>4
  <2>2. Upto(x, Len(q)) \in Below(Upto(x, Len(p)))
    BY <1>2, <2>1, PrefixesNest
  <2>. QED
    BY <1>1, <2>2
<1>5. CASE Len(q) < Len(p)
  <2>1. Len(q) \in 1..(Len(p) - 1)
    BY <1>1, <1>5
  <2>2. Upto(x, Len(p)) \in Below(Upto(x, Len(q)))
    BY <1>2, <2>1, PrefixesNest
  <2>. QED
    BY <1>1, <2>2
<1>. QED
  BY <1>1, <1>3, <1>4, <1>5

-----------------------------------------------------------------------------
(* Where the walks end                                                     *)

LEMMA EndOfWalk ==
    ASSUME NEW p \in Paths, NEW dirs
    PROVE  /\ End(dirs, p) \in 1..Len(p) /\ StopsAt(dirs, p, End(dirs, p))
           /\ \A j \in 1..(End(dirs, p) - 1) : ~StopsAt(dirs, p, j)
<1> DEFINE S == {k \in 1..Len(p) : StopsAt(dirs, p, k)}
<1>1. S \in SUBSET Nat /\ Len(p) \in S
  BY PathLen DEF StopsAt
<1>2. PICK m \in S : \A k \in S : m <= k
  BY <1>1, SmallestOf
<1>3. /\ m \in 1..Len(p) /\ StopsAt(dirs, p, m)
      /\ \A j \in 1..(m - 1) : ~StopsAt(dirs, p, j)
  BY <1>2, PathLen
<1>. QED
  BY <1>3 DEF End

LEMMA TargetPath ==
    ASSUME NEW p \in Paths, NEW dirs
    PROVE  Target(dirs, p) \in Paths /\ Len(Target(dirs, p)) = End(dirs, p)
BY EndOfWalk, UptoPath DEF Target

\* The walk of a present path ends at it.
LEMMA PresentIsFound ==
    ASSUME NEW present \in SUBSET Paths, NEW dirs, WellFormed(present, dirs), Named(present),
           NEW p \in present
    PROVE  End(dirs, p) = Len(p) /\ Target(dirs, p) = p /\ Found(present, dirs, p)
<1>1. \A k \in 1..(Len(p) - 1) : ~StopsAt(dirs, p, k)
  BY PathLen DEF WellFormed, Named, StopsAt
<1>2. End(dirs, p) = Len(p)
  BY <1>1, EndOfWalk, PathLen
<1>3. Target(dirs, p) = p
  BY <1>2, UptoAll DEF Target
<1>4. p[Len(p)] \notin LongNames
  BY PathLen DEF Named
<1>. QED
  BY <1>2, <1>3, <1>4 DEF Found

-----------------------------------------------------------------------------
(* Unregistering                                                           *)

LEMMA UnregisteredSubset ==
    ASSUME NEW present, NEW dirs, NEW p
    PROVE  Unregistered(present, dirs, p) \subseteq present
BY DEF Unregistered

LEMMA WalkedPaths ==
    ASSUME NEW p \in Paths, NEW dirs
    PROVE  Walked(dirs, p) \subseteq Paths \cap dirs
<1>1. End(dirs, p) \in 1..Len(p) /\ \A j \in 1..(End(dirs, p) - 1) : ~StopsAt(dirs, p, j)
  BY EndOfWalk
<1>2. \A j \in 1..(End(dirs, p) - 1) : j \in 1..Len(p) /\ Upto(p, j) \in dirs
  BY <1>1, PathLen DEF StopsAt
<1>. QED
  BY <1>2, UptoPath DEF Walked

\* With a path everything below it is cut off.
LEMMA CutBelow ==
    ASSUME NEW p \in Paths, NEW present, NEW dirs,
           NEW q \in Cut(present, dirs, p), NEW x \in Below(q)
    PROVE  x \in Cut(present, dirs, p)
<1>1. Target(dirs, p) \in Paths
  BY TargetPath
<1>2. Cut(present, dirs, p) = {Target(dirs, p)} \cup Below(Target(dirs, p))
  BY DEF Cut
<1>. QED
  BY <1>1, <1>2, BelowBelow

\* Neither the cut nor the pruning takes a directory from above what stays.
LEMMA UnregisteredWellFormed ==
    ASSUME NEW p \in Paths, NEW present \in SUBSET Paths, NEW dirs \in SUBSET present,
           WellFormed(present, dirs)
    PROVE  LET left == Unregistered(present, dirs, p) IN WellFormed(left, dirs \cap left)
<1> DEFINE stay == present \ Cut(present, dirs, p)
           left == Unregistered(present, dirs, p)
           Prunes(d) == d \in Walked(dirs, p) /\ Below(d) \cap stay \subseteq Walked(dirs, p)
<1>0. left = {q \in stay : ~Prunes(q)}
  BY DEF Unregistered
<1>1. SUFFICES ASSUME NEW q \in left, NEW k \in 1..(Len(q) - 1)
               PROVE  Upto(q, k) \in dirs \cap left
  BY DEF WellFormed
<1>2. q \in present /\ q \in Paths /\ q \in stay
  BY <1>0
<1> DEFINE d == Upto(q, k)
<1>3. d \in dirs /\ d \in Paths /\ q \in Below(d)
  BY <1>2, BelowPrefix DEF WellFormed
<1> HIDE DEF d
<1>4. d \in stay
  BY <1>2, <1>3, CutBelow
<1>5. ~Prunes(d)
  <2>1. SUFFICES ASSUME Prunes(d) PROVE FALSE
    OBVIOUS
  <2>2. q \in Walked(dirs, p)
    BY <1>2, <1>3, <2>1
  <2>3. Below(q) \subseteq Below(d)
    BY <1>2, <1>3, BelowBelow
  <2>4. Prunes(q)
    BY <2>1, <2>2, <2>3
  <2>. QED
    BY <1>0, <2>4
<1>6. d \in dirs \cap left
  BY <1>0, <1>3, <1>4, <1>5
<1>. QED
  BY <1>6 DEF d

\* Every directory that is left holds something: those the cut emptied are pruned,
\* and pruning empties none that it leaves.
LEMMA UnregisteredFilled ==
    ASSUME NEW p \in Paths, NEW present \in SUBSET Paths, NEW dirs \in SUBSET present,
           Filled(present, dirs)
    PROVE  LET left == Unregistered(present, dirs, p) IN Filled(left, dirs \cap left)
<1> DEFINE stay == present \ Cut(present, dirs, p)
           left == Unregistered(present, dirs, p)
           Prunes(d) == d \in Walked(dirs, p) /\ Below(d) \cap stay \subseteq Walked(dirs, p)
<1>0. left = {q \in stay : ~Prunes(q)}
  BY DEF Unregistered
<1>1. SUFFICES ASSUME NEW d \in dirs \cap left
               PROVE  Below(d) \cap left # {}
  BY DEF Filled
<1>2. d \in Paths /\ d \in stay /\ d \notin Cut(present, dirs, p)
  BY <1>0
<1>3. CASE d \in Walked(dirs, p)
  <2>1. PICK x \in Below(d) \cap stay : x \notin Walked(dirs, p)
    BY <1>0, <1>3
  <2>2. x \in left
    BY <1>0, <2>1
  <2>. QED
    BY <2>1, <2>2
<1>4. CASE d \notin Walked(dirs, p)
  <2> DEFINE e == End(dirs, p)
  <2>0. e \in 1..Len(p) /\ Target(dirs, p) = Upto(p, e)
    BY EndOfWalk DEF Target
  <2> HIDE DEF e
  <2>1. PICK x \in Below(d) : x \in present
    BY DEF Filled
  <2>2. x \in Paths /\ d # x
    BY <1>2, <2>1, BelowIsPrefix
  <2>3. \A k \in 1..Len(p) : k <= e => ~(Upto(p, k) \in Below(d))
    <3>1. SUFFICES ASSUME NEW k \in 1..Len(p), k <= e, Upto(p, k) \in Below(d) PROVE FALSE
      OBVIOUS
    <3>2. Len(Upto(p, k)) = k
      BY UptoPath
    <3>3. Len(d) \in 1..(k - 1) /\ Upto(Upto(p, k), Len(d)) = d
      BY <1>2, <3>1, <3>2, BelowIsPrefix
    <3>4. Upto(p, Len(d)) = d
      BY <3>3, UptoUpto
    <3>5. Len(d) \in 1..(e - 1)
      BY <2>0, <3>1, <3>3
    <3>6. d \in Walked(dirs, p)
      BY <3>4, <3>5 DEF Walked, e
    <3>. QED
      BY <1>4, <3>6
  <2>4. x \notin Walked(dirs, p)
    <3>1. \A k \in 1..(e - 1) : k \in 1..Len(p) /\ k <= e
      BY <2>0, PathLen
    <3>. QED
      BY <2>1, <2>3, <3>1 DEF Walked, e
  <2>5. x \notin Cut(present, dirs, p)
    <3>1. SUFFICES ASSUME x \in Cut(present, dirs, p) PROVE FALSE
      OBVIOUS
    <3>2. /\ Target(dirs, p) \in Cut(present, dirs, p)
          /\ x = Target(dirs, p) \/ x \in Below(Target(dirs, p))
      BY <3>1 DEF Cut
    <3>3. Target(dirs, p) \in Paths /\ ~(Target(dirs, p) \in Below(d))
      BY <2>0, <2>3, TargetPath, PathLen
    <3>4. x \in Below(Target(dirs, p))
      BY <2>1, <3>2, <3>3
    <3>5. d = Target(dirs, p) \/ d \in Below(Target(dirs, p))
      BY <1>2, <2>1, <2>2, <3>3, <3>4, PrefixesCompare
    <3>6. d \in Cut(present, dirs, p)
      BY <3>2, <3>5, CutBelow
    <3>. QED
      BY <1>2, <3>6
  <2>6. x \in left
    BY <1>0, <2>1, <2>4, <2>5
  <2>. QED
    BY <2>1, <2>6
<1>. QED
  BY <1>3, <1>4

\* Unregistering a file takes the file, and otherwise only directories.
LEMMA UnregisteredFile ==
    ASSUME NEW present \in SUBSET Paths, NEW dirs \in SUBSET present,
           WellFormed(present, dirs), Named(present), NEW p \in present
    PROVE  LET left == Unregistered(present, dirs, p)
           IN  p \notin left /\ (p \notin dirs => present \ left \subseteq {p} \cup dirs)
<1>1. Target(dirs, p) = p /\ Found(present, dirs, p)
  BY PresentIsFound
<1>2. Cut(present, dirs, p) = {p} \cup Below(p)
  BY <1>1 DEF Cut
<1>3. p \notin dirs => Below(p) \cap present = {}
  <2>1. SUFFICES ASSUME NEW x \in Below(p), x \in present PROVE p \in dirs
    OBVIOUS
  <2>2. Len(p) \in 1..(Len(x) - 1) /\ Upto(x, Len(p)) = p
    BY <2>1, BelowIsPrefix
  <2>. QED
    BY <2>1, <2>2 DEF WellFormed
<1>4. Walked(dirs, p) \subseteq dirs
  BY WalkedPaths
<1>. QED
  BY <1>2, <1>3, <1>4 DEF Unregistered

-----------------------------------------------------------------------------
(* Making the components of a path                                         *)

\* The components that are made are the first ones, up to a last one.
LEMMA MadeComponents ==
    ASSUME NEW p \in Paths, NEW q \in Made(p)
    PROVE  /\ q \in Paths /\ Len(q) \in 1..Len(p) /\ q = Upto(p, Len(q))
           /\ \A k \in 1..Len(q) : q[k] \notin LongNames
           /\ \A k \in 1..Len(q) : Upto(q, k) \in Made(p)
<1>1. PICK j \in 1..Len(p) : q = Upto(p, j) /\ \A i \in 1..j : p[i] \notin LongNames
  BY DEF Made
<1>2. q \in Paths /\ Len(q) = j /\ \A i \in 1..j : q[i] = p[i]
  BY <1>1, UptoPath
<1>3. ASSUME NEW k \in 1..j PROVE Upto(q, k) \in Made(p)
  <2>1. Upto(q, k) = Upto(p, k)
    BY <1>1, UptoUpto
  <2>2. k \in 1..Len(p) /\ \A i \in 1..k : i \in 1..j
    BY PathLen
  <2>. QED
    BY <1>1, <2>1, <2>2 DEF Made
<1>. QED
  BY <1>1, <1>2, <1>3

\* A create keeps the tree well formed ...
LEMMA MadeWellFormed ==
    ASSUME NEW p \in Paths, NEW present \in SUBSET Paths, NEW dirs \in SUBSET present,
           WellFormed(present, dirs)
    PROVE  WellFormed(present \cup Made(p), dirs \cup MadeDirs(p))
<1>1. SUFFICES ASSUME NEW q \in Made(p), NEW k \in 1..(Len(q) - 1)
               PROVE  Upto(q, k) \in MadeDirs(p)
  BY DEF WellFormed
<1>2. /\ q \in Paths /\ Len(q) \in 1..Len(p)
      /\ \A i \in 1..Len(q) : Upto(q, i) \in Made(p)
  BY MadeComponents
<1>3. k \in 1..Len(q) /\ k < Len(p)
  BY <1>2, PathLen
<1>4. Len(Upto(q, k)) = k
  BY <1>2, <1>3, UptoPath
<1>. QED
  BY <1>2, <1>3, <1>4 DEF MadeDirs

LEMMA MadeNamed ==
    ASSUME NEW p \in Paths, NEW present \in SUBSET Paths, Named(present)
    PROVE  Named(present \cup Made(p))
BY MadeComponents DEF Named

\* ... and, if it comes to its end, leaves no directory empty.
LEMMA MadeFilled ==
    ASSUME NEW p \in Paths, NEW present, NEW dirs, Filled(present, dirs), p \in Made(p)
    PROVE  Filled(present \cup Made(p), dirs \cup MadeDirs(p))
<1>1. SUFFICES ASSUME NEW d \in MadeDirs(p) PROVE p \in Below(d)
  BY DEF Filled
<1>2. d \in Made(p) /\ d # p
  BY DEF MadeDirs
<1>3. d \in Paths /\ Len(d) \in 1..Len(p) /\ d = Upto(p, Len(d))
  BY <1>2, MadeComponents
<1>4. Len(d) # Len(p)
  BY <1>2, <1>3, UptoAll
<1>5. Len(d) \in 1..(Len(p) - 1)
  BY <1>3, <1>4, PathLen
<1>. QED
  BY <1>3, <1>5, BelowPrefix

LEMMA MadeWithoutLongNames ==
    ASSUME NEW p \in Paths, LongNames = {}
    PROVE  p \in Made(p)
BY PathLen, UptoAll DEF Made
=============================================================================
