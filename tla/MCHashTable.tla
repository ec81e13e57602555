----------------------------- MODULE MCHashTable -----------------------------
(***************************************************************************)
(* HashTable for TLC.  Of the names, "ab" and "`C" have the same hash, "c" *)
(* shares their chain in the smallest table and "b" does not.  Of the ids, *)
(* the first two have the same lower half, the third shares their chain in *)
(* the smallest table and the last one does not.                           *)
(***************************************************************************)
EXTENDS HashTable, HashFunctions, TLC

MCNames == {<<97, 98>>, <<96, 67>>, <<98>>, <<99>>}
MCNameHash ==
    (<<97, 98>> :> 5508390) @@ (<<96, 67>> :> 5508390) @@ (<<98>> :> 177607) @@ (<<99>> :> 177606)

ASSUME MCNameHashed == \A n \in MCNames : MCNameHash[n] = string_hash(n)

MCIds   == {<<1, 0>>, <<1, 1>>, <<3, 0>>, <<4, 0>>}

MCPrimes == <<2, 5, 8>>

MCSymmetry == Permutations(Cells)

ASSUME MCNamesCollide ==
    /\ MCNameHash[<<97, 98>>] = MCNameHash[<<96, 67>>]
    /\ MCNameHash[<<97, 98>>] % 2 = MCNameHash[<<99>>] % 2
    /\ MCNameHash[<<99>>] % 2 # MCNameHash[<<98>>] % 2
=============================================================================
