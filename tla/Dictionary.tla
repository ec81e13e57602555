----------------------------- MODULE Dictionary -----------------------------
(***************************************************************************)
(* What a HashTable promises (hash-table.h): a set of values addressed by  *)
(* keys, and the answer of each call.  There are no chains, no hashes and  *)
(* no sizes here.                                                          *)
(***************************************************************************)
CONSTANTS Keys, Values,
          NoValue    \* HASH_TABLE_NULL

VARIABLES map,       \* from the keys present to their values
          answer     \* what the last call returned

Yes == 1
No  == 0

Init == map = <<>> /\ answer = No

\* An insertion overwrites what the key had, or fails for lack of memory and
\* leaves everything as it was.
Insert(k, v) ==
    /\ map' = [q \in DOMAIN map \cup {k} |-> IF q = k THEN v ELSE map[q]]
    /\ answer' = Yes
InsertFails  == answer' = No /\ UNCHANGED map

Lookup(k) ==
    /\ answer' = IF k \in DOMAIN map THEN map[k] ELSE NoValue
    /\ UNCHANGED map

Remove(k) ==
    /\ answer' = IF k \in DOMAIN map THEN Yes ELSE No
    /\ map' = [q \in DOMAIN map \ {k} |-> map[q]]

\* The table is destroyed.
Clear == map' = <<>> /\ UNCHANGED answer

Next ==
    \/ \E k \in Keys : Lookup(k) \/ Remove(k) \/ \E v \in Values : Insert(k, v)
    \/ InsertFails
    \/ Clear

vars == <<map, answer>>

Spec == Init /\ [][Next]_vars
=============================================================================
