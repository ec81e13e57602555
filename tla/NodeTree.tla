------------------------------ MODULE NodeTree ------------------------------
(***************************************************************************)
(* The path tree of procfuse: the hash tables of struct procfuse_hashnode  *)
(* hanging below pf->root, reduced to the set of paths that are present    *)
(* and the subset of them that have a subdirs table.  The operators below  *)
(* say in closed form what the three recursive walks of procfuse.c find,   *)
(* make and remove; NodeWalk has the walks, NodeWalk_proof the equality.   *)
(*                                                                         *)
(* A path is the nonempty sequence of its components (ltrim and rtrim drop *)
(* repeated and trailing slashes).  A component in LongNames is one that   *)
(* procfuse_getNextFileName refuses: longer than sizeof(fname)-1, which is *)
(* 7 characters because fname is a pointer there.                          *)
(***************************************************************************)
EXTENDS Naturals, Sequences

CONSTANTS Names,       \* the path components
          LongNames,   \* the components too long for getNextFileName
          Paths        \* the paths in use

ASSUME PathsAssumption ==
    /\ LongNames \subseteq Names
    /\ Paths \subseteq Seq(Names)
    /\ \A p \in Paths : Len(p) > 0
    /\ \A p \in Paths : \A k \in 1..Len(p) : SubSeq(p, 1, k) \in Paths

\* The first k components of p.
Upto(p, k) == SubSeq(p, 1, k)

\* The paths strictly below p.
Below(p) == {q \in Paths : Len(q) > Len(p) /\ Upto(q, Len(p)) = p}

-----------------------------------------------------------------------------
\* A walk that creates nothing goes from component k to the next only through
\* a directory, and never past the last one.
StopsAt(dirs, p, k) ==
    \/ p[k] \in LongNames
    \/ Upto(p, k) \notin dirs
    \/ k = Len(p)

\* The component at which the walk of p ends.
End(dirs, p) ==
    CHOOSE k \in 1..Len(p) :
        StopsAt(dirs, p, k) /\ \A j \in 1..(k-1) : ~StopsAt(dirs, p, j)

\* The path of the node that procfuse_pathToNode(.., PROCFUSE_NO) returns, if
\* it returns one: p, or the file in the middle of p that ends the walk.
Target(dirs, p) == Upto(p, End(dirs, p))

FoundUnchecked(present, dirs, p) == p[End(dirs, p)] \notin LongNames   \* mutant of Found

\* The lookup returns a node.
Found(present, dirs, p) ==
    p[End(dirs, p)] \notin LongNames /\ Target(dirs, p) \in present

\* The lookup dereferences NULL: a component that is not the last is missing.
Faults(present, dirs, p) ==
    /\ End(dirs, p) < Len(p)
    /\ p[End(dirs, p)] \notin LongNames
    /\ Target(dirs, p) \notin present

-----------------------------------------------------------------------------
\* What procfuse_pathToNode(.., PROCFUSE_YES) leaves present on the way to p:
\* every component before the first one that is too long ...
Made(p) == {Upto(p, k) : k \in {j \in 1..Len(p) : \A i \in 1..j : p[i] \notin LongNames}}

\* ... and all of them but the last component of p with a subdirs table, files
\* that stood in the way included.
MadeDirs(p) == Made(p) \ {p}

-----------------------------------------------------------------------------
\* What procfuse_unregisterNodeInternal(root, p) removes: the node the walk
\* ends at with everything below it, and each directory on the way whose table
\* is empty afterwards -- also when nothing was found at the end of the walk.
Walked(dirs, p) == {Upto(p, k) : k \in 1..(End(dirs, p) - 1)}

CutNodeOnly(present, dirs, p) == {Target(dirs, p)}   \* mutant of Cut

Cut(present, dirs, p) ==
    IF Found(present, dirs, p)
    THEN {Target(dirs, p)} \cup Below(Target(dirs, p))
    ELSE {}

UnregisteredUnasked(present, dirs, p) ==   \* mutants of Unregistered
    LET gone == Cut(present, dirs, p) \cup Walked(dirs, p)
    IN  present \ (gone \cup UNION {Below(q) : q \in gone})

UnregisteredUnpruned(present, dirs, p) ==
    present \ Cut(present, dirs, p)

Unregistered(present, dirs, p) ==
    LET left == present \ Cut(present, dirs, p)
    IN  left \ {d \in Walked(dirs, p) : Below(d) \cap left \subseteq Walked(dirs, p)}
=============================================================================
