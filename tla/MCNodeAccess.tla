---------------------------- MODULE MCNodeAccess ----------------------------
(***************************************************************************)
(* NodeAccess for TLC: a directory with one or two files in it, and a      *)
(* third one whose name the configurations may declare too long.           *)
(***************************************************************************)
EXTENDS NodeAccess, TLC

CONSTANTS net, list, add, connections

MCNames == {net, list, add, connections}

OneFile    == {<<net>>, <<net, list>>}
TwoFiles   == OneFile \cup {<<net, add>>}
ThreeFiles == TwoFiles \cup {<<net, connections>>}

MCSymmetry == Permutations(Threads)
=============================================================================
