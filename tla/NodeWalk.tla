------------------------------ MODULE NodeWalk ------------------------------
(***************************************************************************)
(* The recursive walks of procfuse.c over the path tree, component by      *)
(* component as they are written, applied in any order; the closed forms   *)
(* of NodeTree have to say the same in every tree these walks produce.     *)
(***************************************************************************)
EXTENDS NodeTree

VARIABLE tr   \* the tree: [present : paths with a node, dirs : those with subdirs]

Root == <<>>

Trees ==
    {tree \in [present : SUBSET Paths, dirs : SUBSET Paths] : tree.dirs \subseteq tree.present}

\* What a table holds: the entries of the directory dir.
Entries(tree, dir) ==
    {q \in tree.present : Len(q) = Len(dir) + 1 /\ Upto(q, Len(dir)) = dir}

RemoveContents(tree, q) ==   \* mutant of Remove: the table is emptied only
    [present |-> tree.present \ Below(q), dirs |-> tree.dirs \ Below(q)]

RemoveNodeOnly(tree, q) ==   \* mutant of Remove
    [present |-> tree.present \ {q}, dirs |-> tree.dirs \ {q}]

\* hash_table_remove(table, name): the subtree is detached with its node.
Remove(tree, q) ==
    [present |-> tree.present \ ({q} \cup Below(q)), dirs |-> tree.dirs \ ({q} \cup Below(q))]

GetAnyFileName(name) == TRUE   \* mutant of GetNextFileName

\* procfuse_getNextFileName
GetNextFileName(name) == name \notin LongNames

GetOldNode(tree, q, create) == tree   \* mutant of GetNextNode: nothing is made

\* procfuse_getNextNode: the tree after it, the node being q.
GetNextNode(tree, q, create) ==
    IF create THEN [tree EXCEPT !.present = @ \cup {q}] ELSE tree

Result(outcome, q, tree) == [outcome |-> outcome, path |-> q, tree |-> tree]

\* procfuse_pathToNode on the table that component k of p is looked up in;
\* deeper is what the recursive call returns.  "null" and "node" are results,
\* "fault" is node->subdirs read through a NULL node.
PathToNodeAt(deeper, tree, p, k, create) ==
    LET q    == Upto(p, k)
        hassubpath == k < Len(p)
        next == GetNextNode(tree, q, create)
        made == IF hassubpath /\ create
                THEN [next EXCEPT !.dirs = @ \cup {q}] ELSE next
    IN  IF ~GetNextFileName(p[k]) THEN Result("null", Root, tree)
        ELSE IF q \notin next.present
             THEN Result(IF hassubpath THEN "fault" ELSE "null", Root, tree)
        ELSE IF hassubpath /\ q \in made.dirs THEN deeper[<<made, k + 1>>]
        ELSE Result("node", q, made)

\* Its calls, by the tree they find and the component they are at.
PathToNodeCalls(p, create) ==
    LET calls[c \in Trees \X (1..Len(p))] == PathToNodeAt(calls, c[1], p, c[2], create)
    IN  calls

PathToNode(tree, p, create) == PathToNodeCalls(p, create)[<<tree, 1>>]

\* procfuse_unregisterNodeInternal on the table of component k of p: the tree
\* after it.
UnregisterNodeAt(deeper, tree, p, k) ==
    LET q     == Upto(p, k)
        below == deeper[k + 1]
    IN  IF ~GetNextFileName(p[k]) \/ q \notin tree.present THEN tree
        ELSE IF k < Len(p) /\ q \in tree.dirs
             THEN IF Entries(below, q) = {} THEN Remove(below, q) ELSE below
        ELSE Remove(tree, q)

UnregisterNodeCalls(tree, p) ==
    LET calls[k \in 1..Len(p)] == UnregisterNodeAt(calls, tree, p, k)
    IN  calls

UnregisterNode(tree, p) == UnregisterNodeCalls(tree, p)[1]

Lookup(p)     == PathToNode(tr, p, FALSE)
CreateWalk(p) == PathToNode(tr, p, TRUE)

-----------------------------------------------------------------------------
Init == tr = [present |-> {}, dirs |-> {}]

Create(p)     == tr' = CreateWalk(p).tree
Unregister(p) == tr' = UnregisterNode(tr, p)

Next == \E p \in Paths : Create(p) \/ Unregister(p)

Spec == Init /\ [][Next]_tr

-----------------------------------------------------------------------------
\* A lookup finds the node, returns NULL or dereferences NULL exactly when the
\* closed forms say so, and finds the same node.
LookupAgrees ==
    \A p \in Paths :
        /\ Lookup(p).outcome = "node"  <=> Found(tr.present, tr.dirs, p)
        /\ Lookup(p).outcome = "fault" <=> Faults(tr.present, tr.dirs, p)
        /\ Lookup(p).outcome = "node"   => Lookup(p).path = Target(tr.dirs, p)
        /\ Lookup(p).tree = tr

\* A create leaves the nodes and directories the closed forms say, returns the
\* node of its own path, and fails only on a component that is too long.
CreateAgrees ==
    \A p \in Paths :
        /\ CreateWalk(p).tree.present = tr.present \cup Made(p)
        /\ CreateWalk(p).tree.dirs = tr.dirs \cup MadeDirs(p)
        /\ IF p \in Made(p) THEN CreateWalk(p).path = p ELSE CreateWalk(p).outcome = "null"

\* Unregistering, with the pruning on the way back up, leaves the paths the
\* closed form says.
UnregisterAgrees ==
    \A p \in Paths :
        UnregisterNode(tr, p).present = Unregistered(tr.present, tr.dirs, p)

\* A lookup right after a create that succeeded finds the node it made, through
\* whatever was in the way; after its unregistering nothing is found there.
CreateThenUnregister ==
    \A p \in Paths :
        CreateWalk(p).outcome = "node" =>
            LET made == CreateWalk(p).tree
                gone == UnregisterNode(made, p)
            IN  /\ PathToNode(made, p, FALSE).path = p
                /\ PathToNode(gone, p, FALSE).outcome # "node"
=============================================================================
