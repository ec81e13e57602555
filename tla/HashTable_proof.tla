-------------------------- MODULE HashTable_proof --------------------------
(***************************************************************************)
(* The chains of a HashTable always hold every entry once, where a lookup  *)
(* comes by, whatever the hash function and however far the table has      *)
(* grown; an iteration that only insertions overlap returns what stays.    *)
(***************************************************************************)
EXTENDS HashTable, FunctionTheorems, FiniteSetTheorems, SequenceTheorems,
        WellFoundedInduction, NaturalsInduction, TLAPS

-----------------------------------------------------------------------------
(* Numbers and sets                                                        *)

\* The least of some numbers.
LEMMA LeastOf ==
    ASSUME NEW S \in SUBSET Nat, S # {}
    PROVE  \E m \in S : \A n \in S : m <= n
<1>1. PICK m \in S : \A n \in S : ~(<<n, m>> \in OpToRel(<, Nat))
  BY NatLessThanWellFounded, WFMin, Zenon
<1>2. \A n \in S : ~(n < m)
  BY <1>1 DEF OpToRel
<1>. QED
  BY <1>2

\* The members of a set that come after c.
Later(C, before, c) == {d \in C : <<c, d>> \in before}

\* Counted by those that come after it, the members of an ordered set have all
\* numbers below its size, each of them once.
LEMMA Ranking ==
    ASSUME NEW C, IsFiniteSet(C), NEW before \in SUBSET (C \X C),
           \A c \in C : <<c, c>> \notin before,
           \A c, d, e \in C : <<c, d>> \in before /\ <<d, e>> \in before => <<c, e>> \in before,
           \A c, d \in C : c = d \/ <<c, d>> \in before \/ <<d, c>> \in before
    PROVE  /\ \A c \in C : Cardinality(Later(C, before, c)) + 1 \in 1..Cardinality(C)
           /\ \A n \in 1..Cardinality(C) : \E c \in C : Cardinality(Later(C, before, c)) = n - 1
           /\ \A c, d \in C :
                  Cardinality(Later(C, before, c)) = Cardinality(Later(C, before, d)) => c = d
<1>. DEFINE later(c) == Later(C, before, c)
            rank == [c \in C |-> Cardinality(later(c))]
            low == 0..(Cardinality(C) - 1)
<1>1. Cardinality(C) \in Nat
  BY FS_CardinalityType
<1>2. \A c \in C : IsFiniteSet(later(c)) /\ Cardinality(later(c)) \in low
  <2>. SUFFICES ASSUME NEW c \in C PROVE IsFiniteSet(later(c)) /\ Cardinality(later(c)) \in low
    OBVIOUS
  <2>1. IsFiniteSet(C \ {c}) /\ Cardinality(C \ {c}) = Cardinality(C) - 1
    BY FS_RemoveElement
  <2>2. later(c) \in SUBSET (C \ {c})
    BY DEF Later
  <2>3. IsFiniteSet(later(c)) /\ Cardinality(later(c)) <= Cardinality(C \ {c})
    BY <2>1, <2>2, FS_Subset
  <2>4. Cardinality(later(c)) \in Nat
    BY <2>3, FS_CardinalityType
  <2>. QED
    BY <1>1, <2>1, <2>3, <2>4
<1>3. \A c, d \in C : Cardinality(later(c)) = Cardinality(later(d)) => c = d
  <2>1. ASSUME NEW c \in C, NEW d \in C, <<c, d>> \in before
        PROVE  Cardinality(later(c)) # Cardinality(later(d))
    <3>1. later(d) \in SUBSET later(c)
      BY <2>1 DEF Later
    <3>2. d \in later(c) /\ d \notin later(d)
      BY <2>1 DEF Later
    <3>. QED
      BY <1>2, <3>1, <3>2, FS_Subset
  <2>. QED
    BY <2>1
<1>4. rank \in Injection(C, low)
  <2>1. rank \in [C -> low]
    BY <1>2
  <2>. QED
    BY <1>3, <2>1 DEF Injection, IsInjective
<1>5. IsFiniteSet(low) /\ Cardinality(low) = Cardinality(C)
  <2>1. 0 \in Int /\ Cardinality(C) - 1 \in Int
    BY <1>1
  <2>2. IsFiniteSet(low)
    BY <2>1, FS_Interval
  <2>3. Cardinality(low) = IF 0 > Cardinality(C) - 1 THEN 0 ELSE Cardinality(C) - 1 - 0 + 1
    BY <2>1, FS_Interval
  <2>. HIDE DEF low
  <2>. QED
    BY <1>1, <2>2, <2>3
<1>6. rank \in Surjection(C, low)
  BY <1>4, <1>5, FS_Injection
<1>7. ASSUME NEW n \in 1..Cardinality(C) PROVE \E c \in C : Cardinality(later(c)) = n - 1
  <2>1. n - 1 \in low
    BY <1>1
  <2>. QED
    BY <1>6, <2>1 DEF Surjection
<1>8. \A c \in C : Cardinality(later(c)) + 1 \in 1..Cardinality(C)
  BY <1>1, <1>2
<1>. QED
  BY <1>3, <1>7, <1>8

-----------------------------------------------------------------------------
(* Chains                                                                  *)

\* What a chain holds belongs to it, and is there once.
Belongs(chain, slot, i) == \A n \in 1..Len(chain) : chain[n] \in DOMAIN slot /\ slot[chain[n]] = i
Once(chain) == \A m, n \in 1..Len(chain) : chain[m] = chain[n] => m = n
Holds(chain, c) == \E n \in 1..Len(chain) : chain[n] = c

\* A table of this size holds every entry once, in the chain it belongs to.
Chained(tab, size, slot) ==
    /\ size \in Nat \ {0}
    /\ slot \in [DOMAIN slot -> 0..(size - 1)]
    /\ tab \in [0..(size - 1) -> Seq(Cells)]
    /\ \A i \in 0..(size - 1) : Belongs(tab[i], slot, i) /\ Once(tab[i])
    /\ \A c \in DOMAIN slot : Holds(tab[slot[c]], c)

\* A chain with c in front of the old one, and one that lacks the p-th entry.
Pushes(new, old, c) ==
    /\ new \in Seq(Cells) /\ Len(new) = Len(old) + 1 /\ new[1] = c
    /\ \A n \in 2..(Len(old) + 1) : new[n] = old[n - 1]
Drops(new, old, p) ==
    /\ new \in Seq(Cells) /\ Len(new) = Len(old) - 1
    /\ \A n \in 1..(Len(old) - 1) : new[n] = IF n < p THEN old[n] ELSE old[n + 1]

\* An entry comes, and belongs to chain s, or goes.
Gains(slot2, slot, c, s) ==
    /\ c \notin DOMAIN slot /\ DOMAIN slot2 = DOMAIN slot \cup {c} /\ slot2[c] = s
    /\ \A d \in DOMAIN slot : slot2[d] = slot[d]
Loses(slot2, slot, c) ==
    /\ DOMAIN slot2 = DOMAIN slot \ {c}
    /\ \A d \in DOMAIN slot2 : slot2[d] = slot[d]

\* Only chain s has to change.
OnlyChain(slot2, slot, s, new) ==
    /\ \A d \in DOMAIN slot : slot[d] # s => d \in DOMAIN slot2 /\ slot2[d] = slot[d]
    /\ \A d \in DOMAIN slot2 : slot2[d] = s => Holds(new, d)
    /\ \A d \in DOMAIN slot2 : slot2[d] # s => d \in DOMAIN slot /\ slot[d] # s

LEMMA SlotInTable ==
    ASSUME NEW v \in Nat, NEW size \in Nat \ {0}
    PROVE  v % size \in 0..(size - 1)
OBVIOUS

\* The size of a table is the number of its chains.
LEMMA SizeOfTable ==
    ASSUME NEW size \in Nat \ {0}
    PROVE  Cardinality(0..(size - 1)) = size
<1>1. Cardinality(0..(size - 1)) = IF 0 > size - 1 THEN 0 ELSE size - 1 - 0 + 1
  <2>1. 0 \in Int /\ size - 1 \in Int
    OBVIOUS
  <2>. QED
    BY <2>1, FS_Interval
<1>. QED
  BY <1>1

LEMMA Pushed ==
    ASSUME NEW chain \in Seq(Cells), NEW c \in Cells
    PROVE  Pushes(<<c>> \o chain, chain, c)
BY DEF Pushes

LEMMA Removed ==
    ASSUME NEW chain \in Seq(Cells), NEW n \in 1..Len(chain)
    PROVE  Drops(RemoveAt(chain, n), chain, n)
<1>. DEFINE front == SubSeq(chain, 1, n - 1)
            back  == SubSeq(chain, n + 1, Len(chain))
<1>1. Len(chain) \in Nat /\ n \in Nat
  OBVIOUS
<1>2. /\ front \in Seq(Cells) /\ Len(front) = n - 1
      /\ \A m \in 1..(n - 1) : front[m] = chain[m]
  BY <1>1
<1>3. /\ back \in Seq(Cells) /\ Len(back) = Len(chain) - n
      /\ \A m \in 1..(Len(chain) - n) : back[m] = chain[n + m]
  BY <1>1
<1>4. RemoveAt(chain, n) = front \o back
  BY DEF RemoveAt
<1>. HIDE DEF front, back
<1>5. front \o back \in Seq(Cells) /\ Len(front \o back) = Len(chain) - 1
  <2>1. front \o back \in Seq(Cells) /\ Len(front \o back) = Len(front) + Len(back)
    BY <1>2, <1>3, ConcatProperties
  <2>. QED
    BY <2>1, <1>1, <1>2, <1>3
<1>6. ASSUME NEW m \in 1..(Len(chain) - 1)
      PROVE  (front \o back)[m] = IF m < n THEN chain[m] ELSE chain[m + 1]
  <2>1. CASE m < n
    BY <2>1, <1>1, <1>2, <1>3
  <2>2. CASE ~(m < n)
    <3>1. (front \o back)[m] = back[m - Len(front)]
      BY <2>2, <1>1, <1>2, <1>3
    <3>2. m - (n - 1) \in 1..(Len(chain) - n) /\ n + (m - (n - 1)) = m + 1
      BY <2>2, <1>1
    <3>. QED
      BY <2>2, <3>1, <3>2, <1>2, <1>3
  <2>. QED
    BY <2>1, <2>2
<1>. QED
  BY <1>4, <1>5, <1>6 DEF Drops

LEMMA NewIsChained ==
    ASSUME NEW size \in Nat \ {0}, NEW slot, slot = [c \in {} |-> 0]
    PROVE  Chained(NewChains(size), size, slot)
BY DEF Chained, NewChains, Belongs, Once, Holds

\* One chain after an entry has been linked in front of it ...
LEMMA LinkedChain ==
    ASSUME NEW old \in Seq(Cells), NEW slot, NEW s, Belongs(old, slot, s), Once(old),
           NEW c, NEW new, Pushes(new, old, c),
           NEW slot2, Gains(slot2, slot, c, s)
    PROVE  /\ Belongs(new, slot2, s)
           /\ Once(new)
           /\ Holds(new, c)
           /\ \A d : Holds(old, d) => Holds(new, d)
<1>. USE DEF Pushes, Gains
<1>1. Len(old) \in Nat
  OBVIOUS
<1>2. ASSUME NEW n \in 1..Len(new), n # 1
      PROVE  /\ n - 1 \in 1..Len(old) /\ new[n] = old[n - 1]
             /\ new[n] \in DOMAIN slot /\ slot[new[n]] = s
  <2>1. n - 1 \in 1..Len(old) /\ n \in 2..(Len(old) + 1)
    BY <1>1, <1>2
  <2>. QED
    BY <2>1 DEF Belongs
<1>3. Belongs(new, slot2, s)
  <2>. SUFFICES ASSUME NEW n \in 1..Len(new)
                PROVE  new[n] \in DOMAIN slot2 /\ slot2[new[n]] = s
    BY DEF Belongs
  <2>1. CASE n = 1
    BY <2>1
  <2>2. CASE n # 1
    BY <2>2, <1>2
  <2>. QED
    BY <2>1, <2>2
<1>4. Once(new)
  <2>. SUFFICES ASSUME NEW m \in 1..Len(new), NEW n \in 1..Len(new), new[m] = new[n]
                PROVE  m = n
    BY DEF Once
  <2>1. CASE m = 1 \/ n = 1
    BY <2>1, <1>2
  <2>2. CASE m # 1 /\ n # 1
    <3>1. m - 1 = n - 1
      BY <2>2, <1>2 DEF Once
    <3>. QED
      BY <3>1, <1>1
  <2>. QED
    BY <2>1, <2>2
<1>5. Holds(new, c)
  BY <1>1 DEF Holds
<1>6. ASSUME NEW d, Holds(old, d) PROVE Holds(new, d)
  <2>1. PICK n \in 1..Len(old) : old[n] = d
    BY <1>6 DEF Holds
  <2>2. n + 1 \in 2..(Len(old) + 1) /\ (n + 1) - 1 = n /\ n + 1 \in 1..Len(new)
    BY <1>1
  <2>3. new[n + 1] = d
    BY <2>1, <2>2
  <2>. QED
    BY <2>2, <2>3 DEF Holds
<1>. QED
  BY <1>3, <1>4, <1>5, <1>6

\* ... or one of its entries has been unlinked.
LEMMA UnlinkedChain ==
    ASSUME NEW old \in Seq(Cells), NEW slot, NEW s, Belongs(old, slot, s), Once(old),
           NEW p \in 1..Len(old), NEW c, c = old[p],
           NEW new, Drops(new, old, p),
           NEW slot2, Loses(slot2, slot, c)
    PROVE  /\ Belongs(new, slot2, s)
           /\ Once(new)
           /\ \A d : Holds(old, d) /\ d # c => Holds(new, d)
<1>. USE DEF Drops, Loses
<1>1. Len(old) \in Nat /\ p \in Nat
  OBVIOUS
\* Where a place of the new chain was.
<1>2. ASSUME NEW n \in 1..Len(new)
      PROVE  \E m \in 1..Len(old) : m = (IF n < p THEN n ELSE n + 1) /\ m # p /\ new[n] = old[m]
  <2>1. n \in 1..(Len(old) - 1) /\ n \in Nat
    BY <1>1
  <2>2. CASE n < p
    BY <2>1, <2>2, <1>1
  <2>3. CASE ~(n < p)
    BY <2>1, <2>3, <1>1
  <2>. QED
    BY <2>2, <2>3
<1>3. Belongs(new, slot2, s)
  <2>. SUFFICES ASSUME NEW n \in 1..Len(new)
                PROVE  new[n] \in DOMAIN slot2 /\ slot2[new[n]] = s
    BY DEF Belongs
  <2>1. PICK m \in 1..Len(old) : m # p /\ new[n] = old[m]
    BY <1>2
  <2>. QED
    BY <2>1 DEF Belongs, Once
<1>4. Once(new)
  <2>. SUFFICES ASSUME NEW m \in 1..Len(new), NEW n \in 1..Len(new), new[m] = new[n]
                PROVE  m = n
    BY DEF Once
  <2>1. PICK i \in 1..Len(old) : i = (IF m < p THEN m ELSE m + 1) /\ i # p /\ new[m] = old[i]
    BY <1>2
  <2>2. PICK j \in 1..Len(old) : j = (IF n < p THEN n ELSE n + 1) /\ j # p /\ new[n] = old[j]
    BY <1>2
  <2>3. i = j
    BY <2>1, <2>2 DEF Once
  <2>. QED
    BY <2>1, <2>2, <2>3, <1>1
<1>5. ASSUME NEW d, Holds(old, d), d # c PROVE Holds(new, d)
  <2>1. PICK n \in 1..Len(old) : old[n] = d
    BY <1>5 DEF Holds
  <2>2. CASE n < p
    <3>1. n \in 1..(Len(old) - 1) /\ n \in 1..Len(new)
      BY <2>2, <1>1
    <3>. QED
      BY <3>1, <2>1, <2>2 DEF Holds
  <2>3. CASE n > p
    <3>1. n - 1 \in 1..(Len(old) - 1) /\ n - 1 \in 1..Len(new) /\ ~(n - 1 < p) /\ (n - 1) + 1 = n
      BY <2>3, <1>1
    <3>2. new[n - 1] = d
      BY <3>1, <2>1
    <3>. QED
      BY <3>1, <3>2 DEF Holds
  <2>4. n # p
    BY <2>1, <1>5
  <2>. QED
    BY <2>2, <2>3, <2>4, <1>1
<1>. QED
  BY <1>3, <1>4, <1>5

\* The table after one of its chains has changed and an entry came or went.
LEMMA OneChainChanged ==
    ASSUME NEW tab, NEW size, NEW slot, Chained(tab, size, slot),
           NEW s \in 0..(size - 1), NEW new \in Seq(Cells),
           NEW slot2, Belongs(new, slot2, s), Once(new),
           slot2 \in [DOMAIN slot2 -> 0..(size - 1)],
           OnlyChain(slot2, slot, s, new),
           NEW tab2, tab2 = [tab EXCEPT ![s] = new]
    PROVE  Chained(tab2, size, slot2)
<1>. USE DEF OnlyChain
<1>1. /\ size \in Nat \ {0} /\ tab \in [0..(size - 1) -> Seq(Cells)]
      /\ slot \in [DOMAIN slot -> 0..(size - 1)]
      /\ \A i \in 0..(size - 1) : Belongs(tab[i], slot, i) /\ Once(tab[i])
      /\ \A c \in DOMAIN slot : Holds(tab[slot[c]], c)
  BY DEF Chained
<1>2. /\ tab2 \in [0..(size - 1) -> Seq(Cells)]
      /\ tab2[s] = new
      /\ \A i \in 0..(size - 1) : i # s => tab2[i] = tab[i]
  BY <1>1
<1>3. ASSUME NEW i \in 0..(size - 1) PROVE Belongs(tab2[i], slot2, i) /\ Once(tab2[i])
  <2>1. CASE i = s
    BY <2>1, <1>2
  <2>2. CASE i # s
    <3>1. tab2[i] = tab[i] /\ Belongs(tab[i], slot, i) /\ Once(tab[i])
      BY <2>2, <1>1, <1>2
    <3>2. Belongs(tab[i], slot2, i)
      BY <2>2, <3>1 DEF Belongs
    <3>. QED
      BY <3>1, <3>2
  <2>. QED
    BY <2>1, <2>2
<1>4. ASSUME NEW d \in DOMAIN slot2 PROVE Holds(tab2[slot2[d]], d)
  <2>1. CASE slot2[d] = s
    BY <2>1, <1>2
  <2>2. CASE slot2[d] # s
    <3>1. d \in DOMAIN slot /\ slot2[d] \in 0..(size - 1)
      BY <2>2
    <3>. QED
      BY <2>2, <3>1, <1>1, <1>2
  <2>. QED
    BY <2>1, <2>2
<1>. QED
  BY <1>1, <1>2, <1>3, <1>4 DEF Chained

-----------------------------------------------------------------------------
(* A walk through the chains                                               *)

\* The chain of every entry in a table of some size, and in the table there is.
SlotsOf(size) == [c \in DOMAIN cell |-> Hash(cell[c].key) % size]
Slots == SlotsOf(table_size)

LEMMA PlaceInTable ==
    ASSUME Chained(table, table_size, Slots), NEW i \in DOMAIN table, NEW n \in 1..Len(table[i])
    PROVE  /\ table[i][n] \in DOMAIN cell
           /\ ChainOf(table[i][n]) = i
           /\ PlaceOf(table[i][n]) = n
<1>. DEFINE c == table[i][n]
<1>1. /\ table_size \in Nat \ {0} /\ table \in [0..(table_size - 1) -> Seq(Cells)]
      /\ \A j \in 0..(table_size - 1) : Belongs(table[j], Slots, j) /\ Once(table[j])
  BY DEF Chained
<1>2. \A j \in DOMAIN table :
          /\ table[j] \in Seq(Cells) /\ Len(table[j]) \in Nat
          /\ DOMAIN table[j] = 1..Len(table[j])
  BY <1>1
<1>3. DOMAIN Slots = DOMAIN cell
  BY DEF Slots, SlotsOf
<1>4. c \in DOMAIN cell /\ Slots[c] = i
  BY <1>1, <1>3 DEF Belongs
<1>5. \A j \in DOMAIN table : c \in ToSet(table[j]) <=> j = i
  <2>1. c \in ToSet(table[i])
    BY <1>2 DEF ToSet
  <2>2. ASSUME NEW j \in DOMAIN table, c \in ToSet(table[j]) PROVE j = i
    <3>1. PICK m \in 1..Len(table[j]) : table[j][m] = c
      BY <1>2, <2>2 DEF ToSet
    <3>2. Slots[c] = j
      BY <3>1, <1>1 DEF Belongs
    <3>. QED
      BY <3>2, <1>4
  <2>. QED
    BY <2>1, <2>2
<1>6. ChainOf(c) = i
  BY <1>5 DEF ChainOf
<1>7. \A m \in DOMAIN table[i] : table[i][m] = c <=> m = n
  BY <1>1, <1>2 DEF Once
<1>8. PlaceOf(c) = n
  BY <1>2, <1>6, <1>7 DEF PlaceOf
<1>. QED
  BY <1>4, <1>6, <1>8

LEMMA EntryInTable ==
    ASSUME Chained(table, table_size, Slots), NEW c \in DOMAIN cell
    PROVE  /\ ChainOf(c) = Slots[c] /\ ChainOf(c) \in DOMAIN table
           /\ PlaceOf(c) \in 1..Len(table[ChainOf(c)])
           /\ table[ChainOf(c)][PlaceOf(c)] = c
<1>1. /\ table_size \in Nat \ {0} /\ table \in [0..(table_size - 1) -> Seq(Cells)]
      /\ Slots \in [DOMAIN Slots -> 0..(table_size - 1)]
      /\ \A d \in DOMAIN Slots : Holds(table[Slots[d]], d)
  BY DEF Chained
<1>2. c \in DOMAIN Slots
  BY DEF Slots, SlotsOf
<1>3. PICK n \in 1..Len(table[Slots[c]]) : table[Slots[c]][n] = c
  BY <1>1, <1>2 DEF Holds
<1>4. Slots[c] \in DOMAIN table
  BY <1>1, <1>2
<1>5. ChainOf(c) = Slots[c] /\ PlaceOf(c) = n
  BY <1>3, <1>4, PlaceInTable
<1>. QED
  BY <1>3, <1>4, <1>5

\* What is linked is what is allocated.
LEMMA LinkedIsAllocated ==
    ASSUME Chained(table, table_size, Slots)
    PROVE  Linked = DOMAIN cell
<1>1. \A i \in DOMAIN table : DOMAIN table[i] = 1..Len(table[i])
  BY DEF Chained
<1>2. ASSUME NEW c \in Linked PROVE c \in DOMAIN cell
  <2>1. PICK i \in DOMAIN table : c \in ToSet(table[i])
    BY <1>2 DEF Linked
  <2>2. PICK n \in 1..Len(table[i]) : table[i][n] = c
    BY <2>1, <1>1 DEF ToSet
  <2>. QED
    BY <2>2, PlaceInTable
<1>3. ASSUME NEW c \in DOMAIN cell PROVE c \in Linked
  <2>1. c \in ToSet(table[ChainOf(c)]) /\ ChainOf(c) \in DOMAIN table
    BY EntryInTable, <1>1 DEF ToSet
  <2>. QED
    BY <2>1 DEF Linked
<1>. QED
  BY <1>2, <1>3

\* The walk comes to one entry after the other.
LEMMA WalkIsOrder ==
    ASSUME Chained(table, table_size, Slots)
    PROVE  /\ \A c \in DOMAIN cell : ~Before(c, c)
           /\ \A c, d, e \in DOMAIN cell : Before(c, d) /\ Before(d, e) => Before(c, e)
           /\ \A c, d \in DOMAIN cell : c = d \/ Before(c, d) \/ Before(d, c)
<1>1. \A c \in DOMAIN cell : ChainOf(c) \in Nat /\ PlaceOf(c) \in Nat
  <2>1. DOMAIN table = 0..(table_size - 1) /\ table_size \in Nat
    BY DEF Chained
  <2>. QED
    BY <2>1, EntryInTable
<1>2. \A c, d \in DOMAIN cell : ChainOf(c) = ChainOf(d) /\ PlaceOf(c) = PlaceOf(d) => c = d
  BY EntryInTable
<1>3. \A c \in DOMAIN cell : ~Before(c, c)
  BY <1>1 DEF Before
<1>4. \A c, d, e \in DOMAIN cell : Before(c, d) /\ Before(d, e) => Before(c, e)
  BY <1>1 DEF Before
<1>5. \A c, d \in DOMAIN cell : c = d \/ Before(c, d) \/ Before(d, c)
  BY <1>1, <1>2 DEF Before
<1>. QED
  BY <1>3, <1>4, <1>5

\* hash_table_enlarge: every entry is in the new table, and in the right chain.
LEMMA EnlargedIsChained ==
    ASSUME Chained(table, table_size, Slots), IsFiniteSet(DOMAIN cell),
           DOMAIN cell \subseteq Cells,
           \A c \in DOMAIN cell : Hash(cell[c].key) \in Nat,
           NEW size \in Nat \ {0}
    PROVE  Chained(Enlarged(size), size, SlotsOf(size))
<1>. SUFFICES ASSUME NEW slot, slot = SlotsOf(size),
                     NEW tab, tab = Enlarged(size)
              PROVE  Chained(tab, size, slot)
  OBVIOUS
<1>1. slot \in [DOMAIN slot -> 0..(size - 1)] /\ DOMAIN slot = DOMAIN cell
        /\ \A c \in DOMAIN cell : slot[c] = Hash(cell[c].key) % size
  BY SlotInTable DEF SlotsOf
<1>2. ASSUME NEW i \in 0..(size - 1)
      PROVE  /\ tab[i] \in Seq(Cells)
             /\ Belongs(tab[i], slot, i) /\ Once(tab[i])
             /\ \A c \in DOMAIN cell : slot[c] = i => Holds(tab[i], c)
  <2>. DEFINE C == Rehashing(size, i)
              before == {e \in C \X C : Before(e[1], e[2])}
              rank(c) == Cardinality(InFront(size, i, c))
  <2>1. C = {c \in DOMAIN cell : slot[c] = i}
    <3>1. Linked = DOMAIN cell
      BY LinkedIsAllocated
    <3>. QED
      BY <3>1, <1>1 DEF Rehashing
  <2>2. IsFiniteSet(C) /\ Cardinality(C) \in Nat
    BY <2>1, FS_Subset, FS_CardinalityType
  <2>3. \A c \in C : InFront(size, i, c) = Later(C, before, c)
    BY DEF InFront, Later
  <2>4. /\ \A c \in C : rank(c) + 1 \in 1..Cardinality(C)
        /\ \A n \in 1..Cardinality(C) : \E c \in C : rank(c) = n - 1
        /\ \A c, d \in C : rank(c) = rank(d) => c = d
    <3>. HIDE DEF C
    <3>1. before \in SUBSET (C \X C)
      OBVIOUS
    <3>2. \A c, d \in C : <<c, d>> \in before <=> Before(c, d)
      OBVIOUS
    <3>. HIDE DEF before
    <3>3. /\ \A c \in C : <<c, c>> \notin before
          /\ \A c, d, e \in C : <<c, d>> \in before /\ <<d, e>> \in before => <<c, e>> \in before
          /\ \A c, d \in C : c = d \/ <<c, d>> \in before \/ <<d, c>> \in before
      BY <3>2, <2>1, WalkIsOrder
    <3>4. /\ \A c \in C : Cardinality(Later(C, before, c)) + 1 \in 1..Cardinality(C)
          /\ \A n \in 1..Cardinality(C) : \E c \in C : Cardinality(Later(C, before, c)) = n - 1
          /\ \A c, d \in C :
                 Cardinality(Later(C, before, c)) = Cardinality(Later(C, before, d)) => c = d
      BY <2>2, <3>1, <3>3, Ranking
    <3>. QED
      BY <2>3, <3>4
  <2>5. tab[i] = [n \in 1..Cardinality(C) |-> CHOOSE c \in C : rank(c) = n - 1]
    BY DEF Enlarged
  <2>. HIDE DEF C, rank
  <2>6. \A n \in 1..Cardinality(C) : tab[i][n] \in C /\ rank(tab[i][n]) = n - 1
    BY <2>4, <2>5
  <2>7. tab[i] \in Seq(Cells) /\ Len(tab[i]) = Cardinality(C)
    <3>1. \A c \in C : c \in Cells
      BY <2>1
    <3>2. tab[i] \in [1..Cardinality(C) -> Cells]
      BY <2>5, <2>6, <3>1
    <3>. QED
      BY <3>2, <2>2, SeqDef
  <2>8. Belongs(tab[i], slot, i)
    BY <1>1, <2>1, <2>6, <2>7 DEF Belongs
  <2>9. Once(tab[i])
    BY <2>2, <2>6, <2>7 DEF Once
  <2>10. ASSUME NEW c \in C PROVE Holds(tab[i], c)
    <3>1. rank(c) \in Nat
      <4>1. InFront(size, i, c) \in SUBSET C
        BY DEF InFront, C
      <4>2. IsFiniteSet(InFront(size, i, c))
        BY <4>1, <2>2, FS_Subset
      <4>. QED
        BY <4>2, FS_CardinalityType DEF rank
    <3>2. rank(c) + 1 \in 1..Cardinality(C) /\ (rank(c) + 1) - 1 = rank(c)
      BY <3>1, <2>4
    <3>3. tab[i][rank(c) + 1] = c
      BY <3>2, <2>4, <2>6
    <3>. QED
      BY <3>2, <3>3, <2>7 DEF Holds
  <2>. QED
    BY <2>1, <2>7, <2>8, <2>9, <2>10
<1>3. DOMAIN tab = 0..(size - 1) /\ tab = [i \in 0..(size - 1) |-> tab[i]]
  BY DEF Enlarged
<1>4. tab \in [0..(size - 1) -> Seq(Cells)]
  BY <1>2, <1>3
<1>5. \A c \in DOMAIN slot : Holds(tab[slot[c]], c)
  BY <1>1, <1>2
<1>. QED
  BY <1>1, <1>2, <1>4, <1>5 DEF Chained

-----------------------------------------------------------------------------
(* The invariant of the table                                              *)

Types ==
    /\ hash_func \in {"none", "string_hash", "int_hash"}
    /\ prime_index \in Nat /\ entries \in Nat
    /\ DOMAIN cell \subseteq Cells /\ IsFiniteSet(DOMAIN cell)
    /\ \A c \in DOMAIN cell : cell[c] \in [key : Keys, value : Values]
    /\ answer \in Values \cup {NoValue, 0, 1}
    /\ iterator \in [on : BOOLEAN, next_chain : Nat, next_entry : Cells \cup {NoCell}]
    /\ twice \in BOOLEAN /\ listed \in SUBSET Cells /\ staying \in SUBSET Cells

\* There is a table that holds every entry once, or there is nothing.
WellChained ==
    IF live THEN Chained(table, table_size, Slots)
    ELSE table = <<>> /\ DOMAIN cell = {} /\ ~iterator.on

KeysDiffer == \A c, d \in DOMAIN cell : Equal(cell[c].key, cell[d].key) => c = d

Counted == entries = Cardinality(DOMAIN cell)

\* Up to the last prime, the size is the one of the index.
Sized ==
    live => /\ (entries - 1) * 3 < table_size
            /\ prime_index < Len(Primes) => table_size = Primes[prime_index + 1]

TableInv == Types /\ WellChained /\ KeysDiffer /\ Counted /\ Sized

-----------------------------------------------------------------------------
(* Keys and sizes                                                          *)

LEMMA HashIsNat ==
    ASSUME NEW k \in Keys
    PROVE  Hash(k) \in Nat
BY HashAssumption DEF Keys, Hash, int_hash

LEMMA EqualHash ==
    ASSUME NEW k, NEW l, Equal(k, l)
    PROVE  Hash(k) = Hash(l) /\ Equal(l, k)
BY DEF Equal, Hash, string_equal, int_equal, int_hash

LEMMA EqualKeys ==
    ASSUME NEW k, NEW l, NEW m, Equal(k, l), Equal(m, l)
    PROVE  Equal(k, m)
BY DEF Equal, string_equal, int_equal

LEMMA DivPositive ==
    ASSUME NEW a \in Nat, NEW b \in Nat \ {0}
    PROVE  a \div b > 0 <=> a >= b
OBVIOUS

\* The size an insertion goes on with, and the chains then.
NewSize  == IF Grows THEN AllocatedSize(prime_index + 1, entries) ELSE table_size
NewSlots == SlotsOf(NewSize)

\* One step of growth is enough to have room for one more entry.
LEMMA RoomForOne ==
    ASSUME TableInv, live
    PROVE  /\ NewSize \in Nat \ {0}
           /\ entries * 3 < NewSize
           /\ NextPrime \in Nat
           /\ NextPrime < Len(Primes) => NewSize = Primes[NextPrime + 1]
<1>1. /\ table_size \in Nat \ {0} /\ entries \in Nat /\ prime_index \in Nat
      /\ (entries - 1) * 3 < table_size
      /\ prime_index < Len(Primes) => table_size = Primes[prime_index + 1]
  BY DEF TableInv, Types, WellChained, Sized, Chained
<1>2. Grows <=> entries * 3 >= table_size
  BY <1>1, DivPositive DEF Grows, Full
<1>3. CASE ~Grows
  BY <1>1, <1>2, <1>3 DEF NewSize, NextPrime
<1>4. CASE Grows
  <2>1. Primes \in Seq(Nat \ {0}) /\ Len(Primes) \in Nat
    BY HashAssumption
  <2>2. CASE prime_index + 1 < Len(Primes)
    <3>1. prime_index + 1 \in 1..(Len(Primes) - 1) /\ prime_index + 2 \in 1..Len(Primes)
      BY <1>1, <2>1, <2>2
    <3>2. Primes[prime_index + 1] + 3 <= Primes[(prime_index + 1) + 1]
      BY <3>1, HashAssumption
    <3>3. (prime_index + 1) + 1 = prime_index + 2
      BY <1>1
    <3>4. Primes[prime_index + 2] \in Nat \ {0} /\ Primes[prime_index + 1] \in Nat
      BY <3>1, <2>1
    <3>5. NewSize = Primes[prime_index + 2] /\ NextPrime = prime_index + 1
      BY <1>4, <2>2, <3>3 DEF NewSize, NextPrime, AllocatedSize
    <3>6. table_size = Primes[prime_index + 1]
      BY <1>1, <2>1, <2>2
    <3>7. entries * 3 < NewSize
      BY <1>1, <3>2, <3>3, <3>4, <3>5, <3>6
    <3>. QED
      BY <1>1, <3>3, <3>4, <3>5, <3>7
  <2>3. CASE ~(prime_index + 1 < Len(Primes))
    <3>1. NewSize = entries * 10 /\ NextPrime = prime_index + 1
      BY <1>4, <2>3 DEF NewSize, NextPrime, AllocatedSize
    <3>2. entries > 0
      BY <1>1, <1>2, <1>4
    <3>. QED
      BY <1>1, <2>3, <3>1, <3>2
  <2>. QED
    BY <2>2, <2>3
<1>. QED
  BY <1>3, <1>4

LEMMA RehashedIsChained ==
    ASSUME TableInv, live
    PROVE  /\ Chained(Rehashed, NewSize, NewSlots)
           /\ Cardinality(DOMAIN Rehashed) = NewSize
<1>1. Chained(Rehashed, NewSize, NewSlots)
  <2>1. CASE Grows
    <3>1. \A c \in DOMAIN cell : Hash(cell[c].key) \in Nat
      BY HashIsNat DEF TableInv, Types
    <3>2. Rehashed = Enlarged(NewSize)
      BY <2>1 DEF Rehashed, NewSize
    <3>3. Chained(Enlarged(NewSize), NewSize, NewSlots)
      BY <3>1, RoomForOne, EnlargedIsChained DEF TableInv, Types, WellChained, NewSlots
    <3>. QED
      BY <3>2, <3>3
  <2>2. CASE ~Grows
    BY <2>2 DEF TableInv, WellChained, Rehashed, NewSize, NewSlots, Slots
  <2>. QED
    BY <2>1, <2>2
<1>2. NewSize \in Nat \ {0} /\ DOMAIN Rehashed = 0..(NewSize - 1)
  BY <1>1 DEF Chained
<1>. QED
  BY <1>1, <1>2, SizeOfTable

\* Walking a chain finds the only entry with an equal key, if there is one.
Finds(chain, k) ==
    /\ chain \in Seq(Cells)
    /\ \A n \in Matches(chain, k) :
           n \in 1..Len(chain) /\ chain[n] \in DOMAIN cell /\ Equal(cell[chain[n]].key, k)
    /\ Matches(chain, k) # {} => FirstMatch(chain, k) \in Matches(chain, k)
    /\ \A c \in DOMAIN cell :
           Equal(cell[c].key, k) =>
               Matches(chain, k) # {} /\ chain[FirstMatch(chain, k)] = c

LEMMA Matching ==
    ASSUME TableInv, NEW tab, NEW size,
           Chained(tab, size, SlotsOf(size)),
           NEW k \in Keys, NEW chain, chain = tab[Hash(k) % size]
    PROVE  Finds(chain, k)
<1>. DEFINE slot == SlotsOf(size)
            i == Hash(k) % size
            S == Matches(chain, k)
<1>1. size \in Nat \ {0} /\ i \in 0..(size - 1)
  BY HashIsNat, SlotInTable DEF Chained
<1>2. chain \in Seq(Cells) /\ Belongs(chain, slot, i) /\ DOMAIN chain = 1..Len(chain)
  BY <1>1 DEF Chained
<1>3. \A n \in S : n \in 1..Len(chain) /\ chain[n] \in DOMAIN cell /\ Equal(cell[chain[n]].key, k)
  BY <1>2 DEF Matches, Belongs, SlotsOf
<1>4. ASSUME S # {} PROVE FirstMatch(chain, k) \in S
  <2>1. S \in SUBSET Nat
    BY <1>3
  <2>2. \E m \in S : \A n \in S : m <= n
    BY <2>1, <1>4, LeastOf
  <2>. QED
    BY <2>2 DEF FirstMatch
<1>5. ASSUME NEW c \in DOMAIN cell, Equal(cell[c].key, k)
      PROVE  S # {} /\ chain[FirstMatch(chain, k)] = c
  <2>1. slot[c] = i
    BY <1>5, EqualHash DEF SlotsOf
  <2>2. Holds(chain, c)
    BY <2>1 DEF Chained, SlotsOf
  <2>3. PICK n \in 1..Len(chain) : chain[n] = c
    BY <2>2 DEF Holds
  <2>4. n \in S
    BY <2>3, <1>2, <1>5 DEF Matches
  <2>5. FirstMatch(chain, k) \in S
    BY <2>4, <1>4
  <2>6. Equal(cell[chain[FirstMatch(chain, k)]].key, cell[c].key)
    BY <2>5, <1>3, <1>5, EqualKeys
  <2>. QED
    BY <2>4, <2>5, <2>6, <1>3 DEF TableInv, KeysDiffer
<1>. QED
  BY <1>2, <1>3, <1>4, <1>5 DEF Finds

\* The chain of a key, in the table as it is, and as an insertion finds it.
LEMMA OldMatching ==
    ASSUME TableInv, live, NEW k \in Keys
    PROVE  /\ Slot(table, k) = Hash(k) % table_size /\ Slot(table, k) \in 0..(table_size - 1)
           /\ Finds(table[Slot(table, k)], k)
<1>1. Chained(table, table_size, SlotsOf(table_size))
  BY DEF TableInv, WellChained, Slots
<1>2. Slot(table, k) = Hash(k) % table_size
  BY DEF Slot, table_size
<1>3. table_size \in Nat \ {0}
  BY <1>1 DEF Chained
<1>4. Hash(k) % table_size \in 0..(table_size - 1)
  BY <1>3, HashIsNat, SlotInTable
<1>. QED
  BY <1>1, <1>2, <1>4, Matching

LEMMA NewMatching ==
    ASSUME TableInv, live, NEW k \in Keys
    PROVE  /\ Slot(Rehashed, k) = Hash(k) % NewSize /\ Slot(Rehashed, k) \in 0..(NewSize - 1)
           /\ Finds(Rehashed[Slot(Rehashed, k)], k)
<1>1. Chained(Rehashed, NewSize, SlotsOf(NewSize))
  BY RehashedIsChained DEF NewSlots
<1>2. Slot(Rehashed, k) = Hash(k) % NewSize
  BY RehashedIsChained DEF Slot
<1>3. NewSize \in Nat \ {0}
  BY RoomForOne
<1>4. Hash(k) % NewSize \in 0..(NewSize - 1)
  BY <1>3, HashIsNat, SlotInTable
<1>. QED
  BY <1>1, <1>2, <1>4, Matching

-----------------------------------------------------------------------------
(* The table after a call                                                  *)

LEMMA ChainedNext ==
    ASSUME hash_func' = hash_func, live,
           NEW size, NEW slot, Chained(table', size, slot),
           DOMAIN slot = DOMAIN cell',
           \A c \in DOMAIN cell' : slot[c] = Hash(cell'[c].key) % size
    PROVE  WellChained' /\ table_size' = size /\ Slots' = slot
<1>1. size \in Nat \ {0} /\ DOMAIN table' = 0..(size - 1)
  BY DEF Chained
<1>2. table_size' = size
  BY <1>1, SizeOfTable DEF table_size
<1>3. Slots' = [c \in DOMAIN cell' |-> Hash(cell'[c].key) % size]
  BY <1>2 DEF Slots, SlotsOf, Hash
<1>4. slot = [c \in DOMAIN cell' |-> Hash(cell'[c].key) % size]
  BY DEF Chained
<1>5. Slots' = slot
  BY <1>3, <1>4
<1>6. live'
  BY DEF live
<1>. QED
  BY <1>2, <1>5, <1>6 DEF WellChained

LEMMA KeysNext ==
    ASSUME hash_func' = hash_func,
           \A c, d \in DOMAIN cell' : Equal(cell'[c].key, cell'[d].key) => c = d
    PROVE  KeysDiffer'
BY DEF KeysDiffer, Equal

\* What Types says of everything but the table.
LEMMA TypesNext ==
    ASSUME TableInv, hash_func' = hash_func,
           prime_index' \in Nat, entries' \in Nat,
           DOMAIN cell' \subseteq Cells, IsFiniteSet(DOMAIN cell'),
           \A c \in DOMAIN cell' : cell'[c] \in [key : Keys, value : Values],
           answer' \in Values \cup {NoValue, 0, 1},
           iterator' = iterator, twice' = twice, listed' = listed, staying' \in SUBSET staying
    PROVE  Types'
<1>1. Keys' = Keys
  BY DEF Keys
<1>. QED
  BY <1>1 DEF TableInv, Types

LEMMA InvOverwrite ==
    ASSUME TableInv, NEW k \in Keys, NEW v \in Values, Overwrite(k, v)
    PROVE  TableInv'
<1>. DEFINE chain == Rehashed[Slot(Rehashed, k)]
            c == chain[FirstMatch(chain, k)]
<1>1. live /\ hash_func' = hash_func
  BY DEF Overwrite, Inserting
<1>2. c \in DOMAIN cell /\ Equal(cell[c].key, k)
  BY <1>1, NewMatching DEF Overwrite, Finds
<1>3. \A d \in DOMAIN cell : Equal(cell[d].key, k) => d = c
  BY <1>1, NewMatching DEF Finds
<1>4. cell' = Stored(c, k, v)
  BY DEF Overwrite
<1>. HIDE DEF c
<1>5. /\ DOMAIN cell' = DOMAIN cell /\ cell'[c] = [key |-> k, value |-> v]
      /\ \A d \in DOMAIN cell : d # c => cell'[d] = cell[d]
  BY <1>2, <1>4 DEF Stored
<1>6. /\ table' = Rehashed /\ prime_index' = NextPrime /\ entries' = entries /\ answer' = 1
      /\ iterator' = iterator /\ listed' = listed /\ twice' = twice /\ staying' = staying
  BY DEF Overwrite, ivars
<1>7. Hash(cell[c].key) = Hash(k)
  BY <1>2, EqualHash
<1>8. \A d \in DOMAIN cell' : NewSlots[d] = Hash(cell'[d].key) % NewSize
  BY <1>5, <1>7 DEF NewSlots, SlotsOf
<1>9. Chained(table', NewSize, NewSlots) /\ DOMAIN NewSlots = DOMAIN cell'
  BY <1>1, <1>5, <1>6, RehashedIsChained DEF NewSlots, SlotsOf
<1>10. WellChained' /\ table_size' = NewSize
  BY <1>1, <1>8, <1>9, ChainedNext
<1>11. KeysDiffer'
  <2>1. ASSUME NEW d \in DOMAIN cell', NEW e \in DOMAIN cell', Equal(cell'[d].key, cell'[e].key)
        PROVE  d = e
    <3>1. CASE d # c /\ e # c
      BY <2>1, <3>1, <1>5 DEF TableInv, KeysDiffer
    <3>2. CASE d = c
      BY <2>1, <3>2, <1>3, <1>5, EqualHash
    <3>3. CASE e = c
      BY <2>1, <3>3, <1>3, <1>5
    <3>. QED
      BY <3>1, <3>2, <3>3
  <2>. QED
    BY <1>1, <2>1, KeysNext
<1>12. Types'
  <2>1. \A d \in DOMAIN cell' : cell'[d] \in [key : Keys, value : Values]
    BY <1>5 DEF TableInv, Types
  <2>. QED
    BY <1>1, <1>5, <1>6, <2>1, RoomForOne, TypesNext DEF TableInv, Types
<1>13. Sized' /\ Counted'
  BY <1>1, <1>5, <1>6, <1>10, RoomForOne DEF TableInv, Types, Sized, Counted
<1>. QED
  BY <1>10, <1>11, <1>12, <1>13 DEF TableInv

LEMMA InvAdd ==
    ASSUME TableInv, NEW k \in Keys, NEW v \in Values, Add(k, v)
    PROVE  TableInv'
<1>. DEFINE s == Slot(Rehashed, k)
            chain == Rehashed[s]
<1>1. live /\ hash_func' = hash_func
  BY DEF Add, Inserting
<1>2. \A d \in DOMAIN cell : ~Equal(cell[d].key, k)
  BY <1>1, NewMatching DEF Add, Finds
<1>3. PICK c \in Cells \ DOMAIN cell :
          table' = [Rehashed EXCEPT ![s] = <<c>> \o @] /\ cell' = Stored(c, k, v)
  BY DEF Add
<1>4. /\ DOMAIN cell' = DOMAIN cell \cup {c} /\ cell'[c] = [key |-> k, value |-> v]
      /\ \A d \in DOMAIN cell : cell'[d] = cell[d]
  BY <1>3 DEF Stored
<1>5. /\ prime_index' = NextPrime /\ entries' = entries + 1 /\ answer' = 1
      /\ iterator' = iterator /\ listed' = listed /\ twice' = twice /\ staying' = staying
  BY DEF Add, ivars
<1>6. s = Hash(k) % NewSize /\ s \in 0..(NewSize - 1)
  BY <1>1, NewMatching
<1>7. /\ Chained(Rehashed, NewSize, NewSlots)
      /\ NewSize \in Nat \ {0} /\ DOMAIN NewSlots = DOMAIN cell
  BY <1>1, RehashedIsChained, RoomForOne DEF NewSlots, SlotsOf
<1>8. PICK slot2 : slot2 = [d \in DOMAIN cell' |-> IF d = c THEN s ELSE NewSlots[d]]
  OBVIOUS
<1>9. /\ DOMAIN slot2 = DOMAIN NewSlots \cup {c} /\ slot2[c] = s
      /\ \A d \in DOMAIN NewSlots : slot2[d] = NewSlots[d]
      /\ Gains(slot2, NewSlots, c, s)
  BY <1>3, <1>4, <1>7, <1>8 DEF Gains
<1>10. \A d \in DOMAIN cell' : slot2[d] = Hash(cell'[d].key) % NewSize
  BY <1>4, <1>6, <1>8 DEF NewSlots, SlotsOf
<1>11. Chained(table', NewSize, slot2)
  <2>1. chain \in Seq(Cells) /\ Belongs(chain, NewSlots, s) /\ Once(chain)
    BY <1>6, <1>7 DEF Chained
  <2>2. PICK new : new = <<c>> \o chain
    OBVIOUS
  <2>3. Pushes(new, chain, c)
    BY <2>1, <2>2, <1>3, Pushed
  <2>4. table' = [Rehashed EXCEPT ![s] = new]
    BY <1>3, <1>6, <1>7, <2>2 DEF Chained
  <2>5. /\ Belongs(new, slot2, s) /\ Once(new) /\ Holds(new, c)
        /\ \A d : Holds(chain, d) => Holds(new, d)
    BY <2>1, <2>3, <1>9, LinkedChain
  <2>6. slot2 \in [DOMAIN slot2 -> 0..(NewSize - 1)]
    <3>1. NewSlots \in [DOMAIN NewSlots -> 0..(NewSize - 1)]
      BY <1>7 DEF Chained
    <3>2. \A d \in DOMAIN slot2 : slot2[d] \in 0..(NewSize - 1)
      BY <3>1, <1>6, <1>9
    <3>. QED
      BY <3>2, <1>8
  <2>7. OnlyChain(slot2, NewSlots, s, new)
    <3>1. ASSUME NEW d \in DOMAIN NewSlots, NewSlots[d] = s PROVE Holds(chain, d)
      BY <3>1, <1>7 DEF Chained
    <3>. QED
      BY <3>1, <2>5, <1>9 DEF OnlyChain
  <2>8. new \in Seq(Cells)
    BY <2>3 DEF Pushes
  <2>. HIDE DEF s, chain
  <2>. QED
    BY <1>6, <1>7, <2>4, <2>5, <2>6, <2>7, <2>8, OneChainChanged
<1>12. WellChained' /\ table_size' = NewSize
  BY <1>1, <1>8, <1>10, <1>11, ChainedNext
<1>13. KeysDiffer'
  <2>1. ASSUME NEW d \in DOMAIN cell', NEW e \in DOMAIN cell', Equal(cell'[d].key, cell'[e].key)
        PROVE  d = e
    <3>1. CASE d # c /\ e # c
      BY <2>1, <3>1, <1>4 DEF TableInv, KeysDiffer
    <3>2. CASE d = c
      BY <2>1, <3>2, <1>2, <1>4, EqualHash
    <3>3. CASE e = c
      BY <2>1, <3>3, <1>2, <1>4
    <3>. QED
      BY <3>1, <3>2, <3>3
  <2>. QED
    BY <1>1, <2>1, KeysNext
<1>14. IsFiniteSet(DOMAIN cell') /\ Cardinality(DOMAIN cell') = Cardinality(DOMAIN cell) + 1
  BY <1>3, <1>4, FS_AddElement DEF TableInv, Types
<1>15. Types'
  <2>1. \A d \in DOMAIN cell' : cell'[d] \in [key : Keys, value : Values]
    BY <1>4 DEF TableInv, Types
  <2>2. /\ prime_index' \in Nat /\ entries' \in Nat /\ DOMAIN cell' \subseteq Cells
        /\ answer' \in Values \cup {NoValue, 0, 1} /\ staying' \in SUBSET staying
    BY <1>1, <1>3, <1>4, <1>5, RoomForOne DEF TableInv, Types
  <2>. QED
    BY <1>1, <1>5, <1>14, <2>1, <2>2, TypesNext
<1>16. Sized' /\ Counted'
  BY <1>1, <1>5, <1>12, <1>14, RoomForOne DEF TableInv, Types, Sized, Counted
<1>. QED
  BY <1>12, <1>13, <1>15, <1>16 DEF TableInv

\* A removal that finds nothing leaves the table as it is.
LEMMA InvDelete ==
    ASSUME TableInv, NEW k \in Keys, Delete(k)
    PROVE  TableInv'
<1>. DEFINE s == Slot(table, k)
            old == table[s]
            p == FirstMatch(old, k)
            c == old[p]
<1>1. /\ live /\ hash_func' = hash_func /\ prime_index' = prime_index
      /\ iterator' = iterator /\ listed' = listed /\ twice' = twice
      /\ staying' \in SUBSET staying
      /\ entries' = Fewer(entries, Matches(old, k))
      /\ answer' \in {0, 1}
  BY DEF Delete
<1>2. s \in 0..(table_size - 1) /\ Finds(old, k)
  BY <1>1, OldMatching
<1>3. /\ Chained(table, table_size, Slots) /\ table_size \in Nat \ {0}
      /\ DOMAIN Slots = DOMAIN cell
  BY <1>1 DEF TableInv, WellChained, Chained, Slots, SlotsOf
<1>4. IsFiniteSet(DOMAIN cell) /\ NoCell \notin DOMAIN cell
  BY HashAssumption DEF TableInv, Types
<1>5. CASE Matches(old, k) = {}
  <2>1. Find(k) = NoCell
    BY <1>5 DEF Find
  <2>2. table' = table /\ entries' = entries
    BY <1>1, <1>5 DEF Delete, Fewer
  <2>3. DOMAIN cell' = DOMAIN cell /\ \A d \in DOMAIN cell : cell'[d] = cell[d]
    BY <1>4, <2>1 DEF Delete, Without
  <2>4. WellChained' /\ table_size' = table_size
    <3>1. \A d \in DOMAIN cell' : Slots[d] = Hash(cell'[d].key) % table_size
      BY <2>3 DEF Slots, SlotsOf
    <3>. QED
      BY <1>1, <1>3, <2>2, <2>3, <3>1, ChainedNext
  <2>5. KeysDiffer'
    BY <1>1, <2>3, KeysNext DEF TableInv, KeysDiffer
  <2>6. Types'
    BY <1>1, <1>4, <2>2, <2>3, TypesNext DEF TableInv, Types
  <2>7. Sized' /\ Counted'
    BY <1>1, <2>2, <2>3, <2>4 DEF TableInv, Sized, Counted, live
  <2>. QED
    BY <2>4, <2>5, <2>6, <2>7 DEF TableInv
<1>6. CASE Matches(old, k) # {}
  <2>1. /\ Find(k) = c
        /\ p \in 1..Len(old) /\ c \in DOMAIN cell
    BY <1>2, <1>6 DEF Find, Finds
  <2>2. entries' = entries - 1
    BY <1>1, <1>6 DEF Fewer
  <2>3. /\ DOMAIN cell' = DOMAIN cell \ {c}
        /\ \A d \in DOMAIN cell' : d \in DOMAIN cell /\ cell'[d] = cell[d]
    BY <2>1 DEF Delete, Without
  <2>4. PICK slot2 : slot2 = [d \in DOMAIN cell' |-> Slots[d]]
    OBVIOUS
  <2>5. Loses(slot2, Slots, c) /\ DOMAIN slot2 = DOMAIN cell'
    BY <1>3, <2>3, <2>4 DEF Loses
  <2>6. \A d \in DOMAIN cell' : slot2[d] = Hash(cell'[d].key) % table_size
    BY <2>3, <2>4 DEF Slots, SlotsOf
  <2>7. Chained(table', table_size, slot2)
    <3>1. old \in Seq(Cells) /\ Belongs(old, Slots, s) /\ Once(old)
      BY <1>2, <1>3 DEF Chained
    <3>2. PICK new : new = RemoveAt(old, p)
      OBVIOUS
    <3>3. Drops(new, old, p)
      BY <2>1, <3>1, <3>2, Removed
    <3>4. table' = [table EXCEPT ![s] = new]
      BY <1>2, <1>3, <1>6, <3>2 DEF Delete, Chained
    <3>5. /\ Belongs(new, slot2, s) /\ Once(new)
          /\ \A d : Holds(old, d) /\ d # c => Holds(new, d)
      <4>1. c = old[p]
        OBVIOUS
      <4>. HIDE DEF s, old, p, c
      <4>. QED
        BY <2>1, <2>5, <3>1, <3>3, <4>1, UnlinkedChain
    <3>6. slot2 \in [DOMAIN slot2 -> 0..(table_size - 1)]
      BY <1>3, <2>3, <2>4 DEF Chained
    <3>7. Slots[c] = s
      BY <2>1, <3>1 DEF Belongs
    <3>8. OnlyChain(slot2, Slots, s, new)
      <4>1. ASSUME NEW d \in DOMAIN Slots, Slots[d] = s PROVE Holds(old, d)
        BY <4>1, <1>3 DEF Chained
      <4>. QED
        BY <4>1, <1>3, <2>3, <2>4, <3>5, <3>7 DEF OnlyChain
    <3>9. new \in Seq(Cells)
      BY <3>3 DEF Drops
    <3>. HIDE DEF s, old, p, c
    <3>. QED
      BY <1>2, <1>3, <3>4, <3>5, <3>6, <3>8, <3>9, OneChainChanged
  <2>8. WellChained' /\ table_size' = table_size
    BY <1>1, <2>5, <2>6, <2>7, ChainedNext
  <2>9. KeysDiffer'
    BY <1>1, <2>3, KeysNext DEF TableInv, KeysDiffer
  <2>10. /\ IsFiniteSet(DOMAIN cell')
         /\ Cardinality(DOMAIN cell') = Cardinality(DOMAIN cell) - 1
         /\ Cardinality(DOMAIN cell') \in Nat
    BY <1>4, <2>1, <2>3, FS_RemoveElement, FS_CardinalityType
  <2>11. entries' \in Nat
    BY <2>2, <2>10 DEF TableInv, Counted
  <2>12. Types'
    <3>1. /\ \A d \in DOMAIN cell' : cell'[d] \in [key : Keys, value : Values]
          /\ DOMAIN cell' \subseteq Cells
      BY <2>3 DEF TableInv, Types
    <3>. QED
      BY <1>1, <2>10, <2>11, <3>1, TypesNext DEF TableInv, Types
  <2>13. Counted'
    BY <2>2, <2>10 DEF TableInv, Counted
  <2>14. Sized'
    <3>1. entries \in Nat /\ table_size \in Nat
      BY <1>3 DEF TableInv, Types
    <3>. QED
      BY <1>1, <2>2, <2>8, <3>1 DEF TableInv, Sized
  <2>. QED
    BY <2>8, <2>9, <2>12, <2>13, <2>14 DEF TableInv
<1>. QED
  BY <1>5, <1>6

LEMMA InvInsertFails ==
    ASSUME TableInv, NEW k \in Keys, InsertFails(k)
    PROVE  TableInv'
<1>1. /\ live /\ hash_func' = hash_func /\ cell' = cell /\ entries' = entries /\ answer' = 0
      /\ iterator' = iterator /\ listed' = listed /\ twice' = twice /\ staying' = staying
  BY DEF InsertFails, Inserting, ivars
<1>2. KeysDiffer' /\ Counted'
  BY <1>1, KeysNext DEF TableInv, KeysDiffer, Counted
<1>3. CASE table' = table /\ prime_index' = prime_index
  <2>1. WellChained' /\ table_size' = table_size
    BY <1>1, <1>3 DEF TableInv, WellChained, Slots, SlotsOf, Hash, table_size, live
  <2>2. Sized'
    BY <1>1, <1>3, <2>1 DEF TableInv, Sized
  <2>3. Types'
    BY <1>1, <1>3, TypesNext DEF TableInv, Types
  <2>. QED
    BY <1>2, <2>1, <2>2, <2>3 DEF TableInv
<1>4. CASE table' = Rehashed /\ prime_index' = NextPrime
  <2>1. Chained(table', NewSize, NewSlots) /\ DOMAIN NewSlots = DOMAIN cell'
    BY <1>1, <1>4, RehashedIsChained DEF NewSlots, SlotsOf
  <2>2. \A c \in DOMAIN cell' : NewSlots[c] = Hash(cell'[c].key) % NewSize
    BY <1>1 DEF NewSlots, SlotsOf
  <2>3. WellChained' /\ table_size' = NewSize
    BY <1>1, <2>1, <2>2, ChainedNext
  <2>4. Types'
    BY <1>1, <1>4, RoomForOne, TypesNext DEF TableInv, Types
  <2>5. Sized'
    BY <1>1, <1>4, <2>3, RoomForOne DEF TableInv, Types, Sized
  <2>. QED
    BY <1>2, <2>3, <2>4, <2>5 DEF TableInv
<1>. QED
  BY <1>3, <1>4 DEF InsertFails

LEMMA InvNew ==
    ASSUME TableInv, New
    PROVE  TableInv'
<1>1. /\ ~live /\ hash_func' \in {"string_hash", "int_hash"}
      /\ table' = NewChains(AllocatedSize(0, 0)) /\ prime_index' = 0 /\ entries' = 0
      /\ cell' = cell /\ answer' = answer
      /\ iterator' = iterator /\ listed' = listed /\ twice' = twice /\ staying' = staying
  BY DEF New, ivars
<1>2. DOMAIN cell = {} /\ DOMAIN cell' = {} /\ live'
  BY <1>1 DEF TableInv, WellChained, live
<1>3. Primes \in Seq(Nat \ {0}) /\ Len(Primes) \in Nat /\ Len(Primes) > 0 /\ Primes[1] \in Nat \ {0}
  BY HashAssumption
<1>4. AllocatedSize(0, 0) = Primes[1]
  BY <1>3 DEF AllocatedSize
<1>5. DOMAIN table' = 0..(Primes[1] - 1)
  BY <1>1, <1>4 DEF NewChains
<1>6. table_size' = Primes[1]
  BY <1>3, <1>5, SizeOfTable DEF table_size
<1>7. Slots' = [c \in {} |-> 0]
  BY <1>2 DEF Slots, SlotsOf
<1>8. WellChained'
  BY <1>1, <1>2, <1>3, <1>4, <1>6, <1>7, NewIsChained DEF WellChained
<1>9. KeysDiffer' /\ Counted'
  BY <1>1, <1>2, FS_EmptySet DEF KeysDiffer, Counted
<1>10. Sized'
  BY <1>1, <1>3, <1>6 DEF Sized
<1>11. Types'
  BY <1>1, <1>2, FS_EmptySet DEF TableInv, Types
<1>. QED
  BY <1>8, <1>9, <1>10, <1>11 DEF TableInv

LEMMA InvFree ==
    ASSUME TableInv, Free
    PROVE  TableInv'
<1>1. /\ live /\ ~iterator.on /\ hash_func' = "none" /\ table' = <<>> /\ prime_index' = 0
      /\ entries' = 0 /\ cell' = Without(Linked) /\ answer' = answer
      /\ iterator' = iterator /\ listed' = listed /\ twice' = twice /\ staying' = staying
  BY DEF Free, ivars
<1>2. DOMAIN cell' = {}
  BY <1>1, LinkedIsAllocated DEF TableInv, WellChained, Without
<1>3. ~live'
  BY <1>1 DEF live
<1>4. WellChained' /\ KeysDiffer' /\ Counted' /\ Sized'
  BY <1>1, <1>2, <1>3, FS_EmptySet DEF WellChained, KeysDiffer, Counted, Sized
<1>5. Types'
  BY <1>1, <1>2, FS_EmptySet DEF TableInv, Types
<1>. QED
  BY <1>4, <1>5 DEF TableInv

\* A call that leaves the table alone.
LEMMA SameTable ==
    ASSUME TableInv, UNCHANGED <<hash_func, table, prime_index, entries, cell>>,
           Types', ~live => ~iterator.on'
    PROVE  TableInv'
<1>1. live' = live /\ table_size' = table_size /\ Slots' = Slots
  BY DEF live, table_size, Slots, SlotsOf, Hash
<1>2. WellChained'
  BY <1>1 DEF TableInv, WellChained
<1>3. KeysDiffer' /\ Counted' /\ Sized'
  BY <1>1, KeysNext DEF TableInv, KeysDiffer, Counted, Sized
<1>. QED
  BY <1>2, <1>3 DEF TableInv

LEMMA InvLookup ==
    ASSUME TableInv, NEW k \in Keys, Lookup(k)
    PROVE  TableInv'
<1>1. /\ live /\ UNCHANGED <<hash_func, table, prime_index, entries, cell>>
      /\ iterator' = iterator /\ listed' = listed /\ twice' = twice /\ staying' = staying
  BY DEF Lookup, ivars
<1>2. Find(k) # NoCell => Find(k) \in DOMAIN cell
  BY <1>1, OldMatching DEF Find, Finds
<1>3. answer' \in Values \cup {NoValue, 0, 1}
  BY <1>2 DEF Lookup, TableInv, Types
<1>4. Types'
  BY <1>1, <1>3, TypesNext DEF TableInv, Types
<1>. QED
  BY <1>1, <1>4, SameTable

-----------------------------------------------------------------------------
(* An iteration                                                            *)

\* The first chain that holds something, if any.
LEMMA FirstOccupied ==
    ASSUME TableInv, live, NEW i \in Nat
    PROVE  \/ /\ Occupied(i) \in DOMAIN table /\ Occupied(i) >= i
              /\ table[Occupied(i)] # <<>>
              /\ \A j \in DOMAIN table : j >= i /\ table[j] # <<>> => Occupied(i) <= j
           \/ /\ Occupied(i) = table_size /\ Occupied(i) \notin DOMAIN table
              /\ \A j \in DOMAIN table : j >= i => table[j] = <<>>
<1>. DEFINE held == {j \in DOMAIN table : j >= i /\ table[j] # <<>>}
<1>1. DOMAIN table = 0..(table_size - 1) /\ table_size \in Nat
  BY DEF TableInv, WellChained, Chained
<1>2. CASE held = {}
  BY <1>1, <1>2 DEF Occupied
<1>3. CASE held # {}
  <2>1. held \in SUBSET Nat
    BY <1>1
  <2>2. \E m \in held : \A j \in held : m <= j
    BY <2>1, <1>3, LeastOf
  <2>3. Occupied(i) \in held /\ \A j \in held : Occupied(i) <= j
    BY <1>3, <2>2 DEF Occupied
  <2>. QED
    BY <2>3
<1>. QED
  BY <1>2, <1>3

\* An iterator at the first entry from some chain on.
LEMMA AtOccupied ==
    ASSUME TableInv, live, NEW i \in Nat
    PROVE  /\ At(Occupied(i)) \in
                  [on : {TRUE}, next_chain : Nat, next_entry : DOMAIN cell \cup {NoCell}]
           /\ At(Occupied(i)).next_chain = Occupied(i)
           /\ Occupied(i) \in DOMAIN table =>
                  /\ At(Occupied(i)).next_entry = table[Occupied(i)][1]
                  /\ 1 \in 1..Len(table[Occupied(i)])
           /\ Occupied(i) \notin DOMAIN table => At(Occupied(i)).next_entry = NoCell
<1>1. /\ Chained(table, table_size, Slots) /\ table_size \in Nat
      /\ DOMAIN table = 0..(table_size - 1)
      /\ \A j \in DOMAIN table : table[j] \in Seq(Cells)
  BY DEF TableInv, WellChained, Chained
<1>2. CASE Occupied(i) \in DOMAIN table
  <2>1. Occupied(i) \in Nat /\ table[Occupied(i)] \in Seq(Cells) /\ table[Occupied(i)] # <<>>
    BY <1>1, <1>2, FirstOccupied
  <2>2. 1 \in 1..Len(table[Occupied(i)]) /\ Head(table[Occupied(i)]) = table[Occupied(i)][1]
    BY <2>1
  <2>3. table[Occupied(i)][1] \in DOMAIN cell
    BY <1>1, <1>2, <2>2, PlaceInTable
  <2>. QED
    BY <1>2, <2>1, <2>2, <2>3 DEF At
<1>3. CASE Occupied(i) \notin DOMAIN table
  <2>1. Occupied(i) = table_size
    BY <1>3, FirstOccupied
  <2>. QED
    BY <1>1, <1>3, <2>1 DEF At
<1>. QED
  BY <1>2, <1>3

LEMMA InvIterate ==
    ASSUME TableInv, Iterate
    PROVE  TableInv'
<1>1. /\ live /\ UNCHANGED <<hash_func, table, prime_index, entries, cell>>
      /\ answer' = answer /\ listed' = listed /\ twice' = twice /\ staying' = DOMAIN cell
      /\ iterator' = At(Occupied(0))
  BY DEF Iterate, tvars
<1>2. iterator' \in [on : BOOLEAN, next_chain : Nat, next_entry : Cells \cup {NoCell}]
  BY <1>1, AtOccupied DEF TableInv, Types
<1>3. Types'
  BY <1>1, <1>2 DEF TableInv, Types, Keys
<1>. QED
  BY <1>1, <1>3, SameTable

\* Where the iterator goes from an entry of the table.
LEMMA AfterEntry ==
    ASSUME TableInv, live, iterator.on, iterator.next_entry \in DOMAIN cell
    PROVE  LET c == iterator.next_entry
               i == ChainOf(c)
               p == PlaceOf(c)
           IN  IF p < Len(table[i])
               THEN /\ p + 1 \in 1..Len(table[i])
                    /\ table[i][p + 1] \in DOMAIN cell
                    /\ After(iterator) = [iterator EXCEPT !.next_entry = table[i][p + 1]]
               ELSE After(iterator) = At(Occupied(iterator.next_chain + 1))
<1>. DEFINE c == iterator.next_entry
            i == ChainOf(c)
            p == PlaceOf(c)
<1>1. Chained(table, table_size, Slots)
  BY DEF TableInv, WellChained
<1>2. i \in DOMAIN table /\ p \in 1..Len(table[i])
  BY <1>1, EntryInTable
<1>3. Len(table[i]) \in Nat
  BY <1>1, <1>2 DEF Chained
<1>4. ASSUME p < Len(table[i]) PROVE p + 1 \in 1..Len(table[i]) /\ table[i][p + 1] \in DOMAIN cell
  <2>1. p + 1 \in 1..Len(table[i])
    BY <1>2, <1>3, <1>4
  <2>. QED
    BY <2>1, <1>1, <1>2, PlaceInTable
<1>. QED
  BY <1>4 DEF After

LEMMA InvIterNext ==
    ASSUME TableInv, IterNext
    PROVE  TableInv'
<1>1. /\ UNCHANGED <<hash_func, table, prime_index, entries, cell>>
      /\ answer' = answer /\ staying' = staying
      /\ iterator.on /\ iterator.next_entry \in Linked
      /\ iterator' = After(iterator)
      /\ twice' = (twice \/ iterator.next_entry \in listed)
      /\ listed' = listed \cup {iterator.next_entry}
  BY DEF IterNext, tvars
<1>2. live
  BY <1>1 DEF TableInv, WellChained
<1>3. iterator.next_entry \in DOMAIN cell
  BY <1>1, <1>2, LinkedIsAllocated DEF TableInv, WellChained
<1>4. iterator' \in [on : BOOLEAN, next_chain : Nat, next_entry : Cells \cup {NoCell}]
  <2>1. iterator \in [on : BOOLEAN, next_chain : Nat, next_entry : Cells \cup {NoCell}]
    BY DEF TableInv, Types
  <2>2. DOMAIN cell \subseteq Cells
    BY DEF TableInv, Types
  <2>3. CASE PlaceOf(iterator.next_entry) < Len(table[ChainOf(iterator.next_entry)])
    BY <1>1, <1>2, <1>3, <2>1, <2>2, <2>3, AfterEntry
  <2>4. CASE ~(PlaceOf(iterator.next_entry) < Len(table[ChainOf(iterator.next_entry)]))
    <3>1. iterator.next_chain + 1 \in Nat
      BY <2>1
    <3>2. iterator' = At(Occupied(iterator.next_chain + 1))
      BY <1>1, <1>2, <1>3, <2>4, AfterEntry
    <3>. QED
      BY <1>2, <2>2, <3>1, <3>2, AtOccupied
  <2>. QED
    BY <2>3, <2>4
<1>5. twice' \in BOOLEAN /\ listed' \in SUBSET Cells
  BY <1>1, <1>3 DEF TableInv, Types
<1>6. Types'
  BY <1>1, <1>4, <1>5 DEF TableInv, Types, Keys
<1>. QED
  BY <1>1, <1>2, <1>6, SameTable

LEMMA InvIterEnd ==
    ASSUME TableInv, IterEnd
    PROVE  TableInv'
<1>1. /\ UNCHANGED <<hash_func, table, prime_index, entries, cell>>
      /\ answer' = answer /\ iterator' = NotIterating
      /\ listed' = {} /\ twice' = FALSE /\ staying' = {}
  BY DEF IterEnd, tvars
<1>2. Types'
  BY <1>1 DEF TableInv, Types, NotIterating, Keys
<1>3. ~iterator'.on
  BY <1>1 DEF NotIterating
<1>. QED
  BY <1>1, <1>2, <1>3, SameTable

LEMMA InvNext ==
    ASSUME TableInv, [Next]_vars
    PROVE  TableInv'
<1>1. CASE UNCHANGED vars
  <2>1. /\ UNCHANGED <<hash_func, table, prime_index, entries, cell>>
        /\ answer' = answer /\ UNCHANGED <<iterator, listed, twice, staying>>
    BY <1>1 DEF vars, tvars, ivars
  <2>2. Types'
    BY <2>1 DEF TableInv, Types, Keys
  <2>3. ~live => ~iterator.on'
    BY <2>1 DEF TableInv, WellChained
  <2>. QED
    BY <2>1, <2>2, <2>3, SameTable
<1>2. CASE New \/ Free
  BY <1>2, InvNew, InvFree
<1>3. ASSUME NEW k \in Keys, NEW v \in Values, Overwrite(k, v) \/ Add(k, v) PROVE TableInv'
  BY <1>3, InvOverwrite, InvAdd
<1>4. ASSUME NEW k \in Keys, InsertFails(k) \/ Lookup(k) \/ Delete(k) PROVE TableInv'
  BY <1>4, InvInsertFails, InvLookup, InvDelete
<1>5. CASE Iterate \/ IterNext \/ IterEnd
  BY <1>5, InvIterate, InvIterNext, InvIterEnd
<1>. QED
  BY <1>1, <1>2, <1>3, <1>4, <1>5 DEF Next

LEMMA InvInit == Init => TableInv
<1>. SUFFICES ASSUME Init PROVE TableInv
  OBVIOUS
<1>1. ~live /\ DOMAIN cell = {} /\ ~iterator.on
  BY DEF Init, live, NotIterating
<1>2. WellChained /\ KeysDiffer /\ Counted /\ Sized
  BY <1>1, FS_EmptySet DEF Init, WellChained, KeysDiffer, Counted, Sized
<1>3. iterator \in [on : BOOLEAN, next_chain : Nat, next_entry : Cells \cup {NoCell}]
  BY DEF Init, NotIterating
<1>4. Types
  BY <1>1, <1>3, FS_EmptySet DEF Init, Types
<1>. QED
  BY <1>2, <1>4 DEF TableInv

\* Whatever calls are made, the chains hold every entry once, where the hash of
\* its key leads, and no two keys are equal.
THEOREM TableIsSound == Spec => []TableInv
<1>1. TableInv /\ [Next]_vars => TableInv'
  BY InvNext
<1>. QED
  BY <1>1, InvInit, PTL DEF Spec

\* The variables have their types, in every table, for any keys and hash
\* function: hash_table_remove never counts below zero, growing never makes a
\* table without chains, and chains only hold entries that are allocated.
THEOREM TypeCorrect == Spec => []TypeOK
<1>1. TableInv => TypeOK
  <2>. SUFFICES ASSUME TableInv PROVE TypeOK
    OBVIOUS
  <2>1. CASE live
    <3>1. /\ table_size \in Nat \ {0} /\ DOMAIN table = 0..(table_size - 1)
          /\ Chained(table, table_size, Slots)
      BY <2>1 DEF TableInv, WellChained, Chained
    <3>2. ASSUME NEW i \in DOMAIN table PROVE table[i] \in Seq(DOMAIN cell)
      <4>1. table[i] \in Seq(Cells) /\ Len(table[i]) \in Nat
        BY <3>1 DEF Chained
      <4>2. \A n \in 1..Len(table[i]) : table[i][n] \in DOMAIN cell
        BY <3>1, PlaceInTable
      <4>. QED
        BY <4>1, <4>2
    <3>. QED
      BY <3>1, <3>2 DEF TypeOK, TableInv, Types
  <2>2. CASE ~live
    BY <2>2 DEF TypeOK, TableInv, Types, WellChained
  <2>. QED
    BY <2>1, <2>2
<1>. QED
  BY <1>1, TableIsSound, PTL

\* hash_table_lookup finds every entry by its key, before and after the table
\* has grown: no file is in a directory and out of reach.
THEOREM EntriesAreFound == Spec => []EntriesFound
<1>1. TableInv => EntriesFound
  <2>. SUFFICES ASSUME TableInv, NEW c \in DOMAIN cell PROVE live /\ Find(cell[c].key) = c
    BY DEF EntriesFound
  <2>1. live
    BY DEF TableInv, WellChained
  <2>2. cell[c].key \in Keys
    BY DEF TableInv, Types
  <2>3. Equal(cell[c].key, cell[c].key)
    BY DEF Equal, string_equal, int_equal
  <2>. QED
    BY <2>1, <2>2, <2>3, OldMatching DEF Find, Finds
<1>. QED
  BY <1>1, TableIsSound, PTL

\* hash_table_num_entries is the number of entries, each of which is linked once.
THEOREM EntriesAreCounted == Spec => []EntriesCounted
<1>1. TableInv => EntriesCounted
  <2>. SUFFICES ASSUME TableInv PROVE EntriesCounted
    OBVIOUS
  <2>1. CASE live
    <3>1. Chained(table, table_size, Slots) /\ DOMAIN table = 0..(table_size - 1)
      BY <2>1 DEF TableInv, WellChained, Chained
    <3>2. \A i \in DOMAIN table :
              /\ table[i] \in Seq(Cells) /\ Len(table[i]) \in Nat
              /\ DOMAIN table[i] = 1..Len(table[i]) /\ Once(table[i])
      BY <3>1 DEF Chained
    <3>3. ASSUME NEW i \in DOMAIN table, NEW j \in DOMAIN table, i # j
          PROVE  ToSet(table[i]) \cap ToSet(table[j]) = {}
      <4>1. \A c \in ToSet(table[i]) : ChainOf(c) = i
        BY <3>1, <3>2, PlaceInTable DEF ToSet
      <4>2. \A c \in ToSet(table[j]) : ChainOf(c) = j
        BY <3>1, <3>2, PlaceInTable DEF ToSet
      <4>. QED
        BY <3>3, <4>1, <4>2
    <3>4. ASSUME NEW i \in DOMAIN table PROVE Len(table[i]) = Cardinality(ToSet(table[i]))
      <4>1. table[i] \in Bijection(1..Len(table[i]), ToSet(table[i]))
        <5>1. table[i] \in [1..Len(table[i]) -> ToSet(table[i])]
          BY <3>2 DEF ToSet
        <5>2. \A m, n \in 1..Len(table[i]) : table[i][m] = table[i][n] => m = n
          BY <3>2 DEF Once
        <5>3. \A c \in ToSet(table[i]) : \E n \in 1..Len(table[i]) : table[i][n] = c
          BY <3>2 DEF ToSet
        <5>. QED
          BY <5>1, <5>2, <5>3 DEF Bijection, Injection, Surjection, IsInjective
      <4>2. ExistsBijection(1..Len(table[i]), ToSet(table[i]))
        BY <4>1 DEF ExistsBijection
      <4>. QED
        BY <3>2, <4>2, FS_CountingElements
    <3>. QED
      BY <3>1, <3>3, <3>4, LinkedIsAllocated DEF EntriesCounted, TableInv, Counted
  <2>2. CASE ~live
    <3>1. table = <<>> /\ DOMAIN table = {} /\ DOMAIN cell = {}
      BY <2>2 DEF TableInv, WellChained
    <3>. QED
      BY <3>1 DEF EntriesCounted, TableInv, Counted, Linked
  <2>. QED
    BY <2>1, <2>2
<1>. QED
  BY <1>1, TableIsSound, PTL

\* No table is more than a third full before its newest entry, whether growing
\* succeeds or fails and however far the primes have been used up.
THEOREM LoadIsBounded == Spec => []LoadBounded
<1>1. TableInv => LoadBounded
  BY DEF TableInv, Sized, LoadBounded
<1>. QED
  BY <1>1, TableIsSound, PTL

-----------------------------------------------------------------------------
(* What an iteration returns                                               *)

\* The entries a walk comes to from e on, e included.
AheadOf(e) == IF e = NoCell THEN {} ELSE {d \in DOMAIN cell : d = e \/ Before(e, d)}
Ahead == AheadOf(iterator.next_entry)

\* Nothing that has been returned is ahead, and nothing that stays is missing.
OnItsWay ==
    IF iterator.on
    THEN /\ iterator.next_entry \in DOMAIN cell \cup {NoCell}
         /\ iterator.next_entry # NoCell => iterator.next_chain = ChainOf(iterator.next_entry)
         /\ ~twice
         /\ listed \subseteq DOMAIN cell /\ listed \cap Ahead = {}
         /\ staying \subseteq listed \cup Ahead
    ELSE listed = {} /\ ~twice /\ staying = {}

IterInv == TableInv /\ OnItsWay

\* The places of entries, as a fact of the state before and after a step.
Placed ==
    TableInv /\ live =>
        /\ \A d \in DOMAIN cell :
               /\ ChainOf(d) \in DOMAIN table /\ PlaceOf(d) \in 1..Len(table[ChainOf(d)])
               /\ table[ChainOf(d)][PlaceOf(d)] = d
        /\ \A i \in DOMAIN table : \A n \in 1..Len(table[i]) :
               ChainOf(table[i][n]) = i /\ PlaceOf(table[i][n]) = n

LEMMA AllPlaced == Placed
BY PlaceInTable, EntryInTable DEF Placed, TableInv, WellChained

LEMMA TableNumbers ==
    ASSUME TableInv, live
    PROVE  /\ table_size \in Nat /\ DOMAIN table = 0..(table_size - 1)
           /\ \A i \in DOMAIN table : table[i] \in Seq(Cells) /\ Len(table[i]) \in Nat
           /\ \A d \in DOMAIN cell : ChainOf(d) \in Nat /\ PlaceOf(d) \in Nat
           /\ NoCell \notin DOMAIN cell
<1>1. table_size \in Nat /\ table \in [0..(table_size - 1) -> Seq(Cells)]
  BY DEF TableInv, WellChained, Chained
<1>2. \A i \in DOMAIN table : table[i] \in Seq(Cells) /\ Len(table[i]) \in Nat
  BY <1>1
<1>3. \A d \in DOMAIN cell : ChainOf(d) \in Nat /\ PlaceOf(d) \in Nat
  BY <1>1, <1>2, AllPlaced DEF Placed
<1>. QED
  BY <1>1, <1>2, <1>3, HashAssumption DEF TableInv, Types

\* Ahead of the first entry from chain i on are all entries from there on.
LEMMA AheadFromChain ==
    ASSUME TableInv, live, NEW i \in Nat
    PROVE  LET e == At(Occupied(i)).next_entry
           IN  /\ e \in DOMAIN cell \cup {NoCell}
               /\ e # NoCell => At(Occupied(i)).next_chain = ChainOf(e)
               /\ AheadOf(e) = {d \in DOMAIN cell : ChainOf(d) >= i}
<1>. DEFINE o == Occupied(i)
            e == At(o).next_entry
<1>1. \A d \in DOMAIN cell :
          /\ ChainOf(d) \in DOMAIN table /\ ChainOf(d) \in Nat
          /\ table[ChainOf(d)] # <<>>
          /\ PlaceOf(d) \in Nat /\ PlaceOf(d) >= 1
          /\ table[ChainOf(d)][PlaceOf(d)] = d
  BY AllPlaced, TableNumbers DEF Placed
<1>2. CASE o \in DOMAIN table
  <2>1. e = table[o][1] /\ 1 \in 1..Len(table[o]) /\ At(o).next_chain = o
    BY <1>2, AtOccupied
  <2>2. e \in DOMAIN cell /\ ChainOf(e) = o /\ PlaceOf(e) = 1
    <3>1. ChainOf(e) = o /\ PlaceOf(e) = 1
      BY <1>2, <2>1, AllPlaced DEF Placed
    <3>2. e \in DOMAIN cell
      BY <1>2, <2>1, PlaceInTable DEF TableInv, WellChained
    <3>. QED
      BY <3>1, <3>2
  <2>3. /\ o \in Nat /\ o >= i
        /\ \A j \in DOMAIN table : j >= i /\ table[j] # <<>> => o <= j
    BY <1>2, FirstOccupied, TableNumbers
  <2>. HIDE DEF o, e
  <2>4. e # NoCell
    BY <2>2, TableNumbers
  <2>5. ASSUME NEW d \in DOMAIN cell, ChainOf(d) >= i PROVE d = e \/ Before(e, d)
    <3>1. o <= ChainOf(d)
      BY <1>1, <2>3, <2>5
    <3>2. CASE o = ChainOf(d) /\ PlaceOf(d) = 1
      BY <3>2, <1>1, <2>1
    <3>3. CASE o < ChainOf(d) \/ PlaceOf(d) > 1
      BY <3>1, <3>3, <1>1, <2>2, <2>3 DEF Before
    <3>. QED
      BY <3>1, <3>2, <3>3, <1>1, <2>3
  <2>6. ASSUME NEW d \in DOMAIN cell, d = e \/ Before(e, d) PROVE ChainOf(d) >= i
    BY <2>6, <1>1, <2>2, <2>3 DEF Before
  <2>7. AheadOf(e) = {d \in DOMAIN cell : ChainOf(d) >= i}
    BY <2>4, <2>5, <2>6 DEF AheadOf
  <2>. QED
    BY <2>1, <2>2, <2>7 DEF o, e
<1>3. CASE o \notin DOMAIN table
  <2>1. e = NoCell /\ \A j \in DOMAIN table : j >= i => table[j] = <<>>
    BY <1>3, AtOccupied, FirstOccupied
  <2>2. {d \in DOMAIN cell : ChainOf(d) >= i} = {}
    BY <2>1, <1>1
  <2>. QED
    BY <2>1, <2>2 DEF AheadOf
<1>. QED
  BY <1>2, <1>3

\* hash_table_iter_next leaves everything ahead but the entry it returns.
LEMMA AheadOfNext ==
    ASSUME TableInv, live, iterator.on, iterator.next_entry \in DOMAIN cell,
           iterator.next_chain = ChainOf(iterator.next_entry)
    PROVE  LET c == iterator.next_entry
               e == After(iterator).next_entry
           IN  /\ After(iterator).on
               /\ e \in DOMAIN cell \cup {NoCell}
               /\ e # NoCell => After(iterator).next_chain = ChainOf(e)
               /\ AheadOf(e) = {d \in DOMAIN cell : Before(c, d)}
<1>. DEFINE c == iterator.next_entry
            i == ChainOf(c)
            p == PlaceOf(c)
            e == After(iterator).next_entry
<1>1. /\ i \in DOMAIN table /\ i \in Nat /\ p \in 1..Len(table[i])
      /\ Len(table[i]) \in Nat
  BY AllPlaced, TableNumbers DEF Placed
<1>2. iterator \in [on : BOOLEAN, next_chain : Nat, next_entry : Cells \cup {NoCell}]
  BY DEF TableInv, Types
<1>3. \A d \in DOMAIN cell :
          /\ ChainOf(d) \in Nat /\ PlaceOf(d) \in 1..Len(table[ChainOf(d)])
          /\ table[ChainOf(d)][PlaceOf(d)] = d
  BY AllPlaced, TableNumbers DEF Placed
<1>4. CASE p < Len(table[i])
  <2>1. /\ p + 1 \in 1..Len(table[i])
        /\ table[i][p + 1] \in DOMAIN cell
        /\ After(iterator) = [iterator EXCEPT !.next_entry = table[i][p + 1]]
    BY <1>4, AfterEntry
  <2>2. e = table[i][p + 1] /\ After(iterator).on /\ After(iterator).next_chain = i
    BY <1>2, <2>1
  <2>3. ChainOf(e) = i /\ PlaceOf(e) = p + 1
    BY <1>1, <2>1, <2>2, AllPlaced DEF Placed
  <2>4. e \in DOMAIN cell /\ e # NoCell
    BY <2>1, <2>2, TableNumbers
  <2>5. ASSUME NEW d \in DOMAIN cell PROVE Before(c, d) <=> d = e \/ Before(e, d)
    <3>. HIDE DEF c, i, p, e
    <3>1. ChainOf(d) = i /\ PlaceOf(d) = p + 1 => d = e
      BY <1>3, <2>2
    <3>2. ChainOf(c) = i /\ PlaceOf(c) = p
      BY DEF i, p
    <3>. QED
      BY <1>1, <1>3, <2>3, <3>1, <3>2 DEF Before
  <2>. QED
    BY <2>2, <2>3, <2>4, <2>5 DEF AheadOf
<1>5. CASE ~(p < Len(table[i]))
  <2>1. After(iterator) = At(Occupied(i + 1))
    BY <1>5, AfterEntry
  <2>2. /\ e \in DOMAIN cell \cup {NoCell}
        /\ e # NoCell => After(iterator).next_chain = ChainOf(e)
        /\ AheadOf(e) = {d \in DOMAIN cell : ChainOf(d) >= i + 1}
    <3>1. i + 1 \in Nat
      BY <1>1
    <3>. QED
      BY <2>1, <3>1, AheadFromChain
  <2>3. ASSUME NEW d \in DOMAIN cell PROVE Before(c, d) <=> ChainOf(d) >= i + 1
    <3>. HIDE DEF c, i, p
    <3>1. ChainOf(d) = i => PlaceOf(d) <= p
      BY <1>1, <1>3, <1>5
    <3>2. ChainOf(c) = i /\ PlaceOf(c) = p
      BY DEF i, p
    <3>. QED
      BY <1>1, <1>3, <3>1, <3>2 DEF Before
  <2>4. After(iterator).on
    BY <2>1 DEF At
  <2>. QED
    BY <2>2, <2>3, <2>4
<1>. QED
  BY <1>4, <1>5

\* A call that changes neither the places of the entries nor the iteration.
LEMMA SameWay ==
    ASSUME OnItsWay, UNCHANGED <<table, iterator, listed, twice>>,
           DOMAIN cell' = DOMAIN cell, iterator.on => staying' = staying,
           ~iterator.on => staying' = {}
    PROVE  OnItsWay'
<1>1. \A c : ChainOf(c)' = ChainOf(c) /\ PlaceOf(c)' = PlaceOf(c)
  BY DEF ChainOf, PlaceOf
<1>2. Ahead' = Ahead /\ ChainOf(iterator.next_entry)' = ChainOf(iterator.next_entry)
  BY <1>1 DEF Ahead, AheadOf, Before, ChainOf, PlaceOf
<1>. QED
  BY <1>1, <1>2 DEF OnItsWay

LEMMA WayInsertion ==
    ASSUME Overlaps \subseteq {"insert"}, NEW k \in Keys, Inserting(k), iterator.on
    PROVE  ~Grows /\ Rehashed = table
BY DEF Inserting, MayOverlap, Rehashed

\* A new entry goes in front of its chain: it does not change which entries
\* come before which others.
LEMMA WayAdd ==
    ASSUME Overlaps \subseteq {"insert"}, IterInv, TableInv',
           NEW k \in Keys, NEW v \in Values, Add(k, v), iterator.on
    PROVE  OnItsWay'
<1>. DEFINE s == Slot(table, k)
<1>1. live /\ live' /\ Rehashed = table
  BY WayInsertion DEF Add, Inserting, live
<1>2. UNCHANGED <<iterator, listed, twice, staying>>
  BY DEF Add, ivars
<1>3. PICK c \in Cells \ DOMAIN cell :
          table' = [table EXCEPT ![s] = <<c>> \o @] /\ DOMAIN cell' = DOMAIN cell \cup {c}
  BY <1>1 DEF Add, Stored
<1>4. s \in DOMAIN table
  BY <1>1, OldMatching, TableNumbers DEF IterInv
<1>5. \A i \in DOMAIN table : table[i] \in Seq(Cells) /\ Len(table[i]) \in Nat
  BY <1>1, TableNumbers DEF IterInv
<1>6. /\ DOMAIN table' = DOMAIN table
      /\ \A i \in DOMAIN table : i # s => table'[i] = table[i]
      /\ Pushes(table'[s], table[s], c)
  <2>1. Pushes(<<c>> \o table[s], table[s], c)
    BY <1>3, <1>4, <1>5, Pushed
  <2>. QED
    BY <1>3, <1>4, <2>1
<1>7. Placed'
  BY AllPlaced, PTL
<1>8. ASSUME NEW d \in DOMAIN cell
      PROVE  /\ ChainOf(d)' = ChainOf(d)
             /\ PlaceOf(d)' = IF ChainOf(d) = s THEN PlaceOf(d) + 1 ELSE PlaceOf(d)
  <2>. PICK i, p : i = ChainOf(d) /\ p = PlaceOf(d)
    OBVIOUS
  <2>1. i \in DOMAIN table /\ p \in 1..Len(table[i]) /\ table[i][p] = d
    BY <1>1, AllPlaced DEF Placed, IterInv
  <2>. HIDE DEF s
  <2>2. CASE i # s
    <3>1. table'[i] = table[i] /\ i \in DOMAIN table' /\ table'[i][p] = d
      BY <1>6, <2>1, <2>2
    <3>2. ChainOf(d)' = i /\ PlaceOf(d)' = p
      BY <1>1, <1>7, <2>1, <3>1 DEF Placed
    <3>. QED
      BY <2>1, <2>2, <3>2
  <2>3. CASE i = s
    <3>1. p + 1 \in 2..(Len(table[s]) + 1) /\ p + 1 \in 1..(Len(table[s]) + 1) /\ (p + 1) - 1 = p
      BY <1>5, <2>1, <2>3
    <3>2. table'[s][p + 1] = d /\ p + 1 \in 1..Len(table'[s]) /\ s \in DOMAIN table'
      BY <1>4, <1>6, <2>1, <2>3, <3>1 DEF Pushes
    <3>3. ChainOf(d)' = s /\ PlaceOf(d)' = p + 1
      BY <1>1, <1>7, <3>2 DEF Placed
    <3>. QED
      BY <2>1, <2>3, <3>3
  <2>. QED
    BY <2>2, <2>3
<1>9. \A d, e \in DOMAIN cell : Before(d, e)' <=> Before(d, e)
  BY <1>1, <1>8, TableNumbers DEF Before, IterInv
<1>10. Ahead \subseteq Ahead' /\ Ahead' \subseteq Ahead \cup {c}
  BY <1>2, <1>3, <1>9 DEF Ahead, AheadOf, IterInv, OnItsWay
<1>11. iterator'.next_entry # NoCell => iterator'.next_chain = ChainOf(iterator.next_entry)'
  <2>. PICK e : e = iterator.next_entry
    OBVIOUS
  <2>1. ChainOf(iterator.next_entry)' = ChainOf(e)'
    BY <1>2 DEF ChainOf
  <2>. QED
    BY <1>2, <1>8, <2>1 DEF IterInv, OnItsWay
<1>. QED
  BY <1>2, <1>3, <1>10, <1>11 DEF IterInv, OnItsWay

LEMMA WayIterate ==
    ASSUME IterInv, Iterate
    PROVE  OnItsWay'
<1>. PICK e : e = At(Occupied(0)).next_entry
  OBVIOUS
<1>1. /\ live /\ UNCHANGED <<table, cell>> /\ iterator' = At(Occupied(0))
      /\ listed' = listed /\ twice' = twice /\ staying' = DOMAIN cell
      /\ listed = {} /\ ~twice
  BY DEF Iterate, tvars, IterInv, OnItsWay
<1>2. /\ e \in DOMAIN cell \cup {NoCell}
      /\ e # NoCell => iterator'.next_chain = ChainOf(e)
      /\ AheadOf(e) = {d \in DOMAIN cell : ChainOf(d) >= 0}
  BY <1>1, AheadFromChain DEF IterInv
<1>3. AheadOf(e) = DOMAIN cell
  BY <1>1, <1>2, TableNumbers DEF IterInv
<1>4. iterator'.on /\ iterator'.next_entry = e
  BY <1>1 DEF At
<1>5. Ahead' = AheadOf(e) /\ ChainOf(e)' = ChainOf(e)
  BY <1>1, <1>4 DEF Ahead, AheadOf, Before, ChainOf, PlaceOf
<1>6. ChainOf(iterator.next_entry)' = ChainOf(e)
  BY <1>1, <1>4 DEF ChainOf
<1>. QED
  BY <1>1, <1>2, <1>3, <1>4, <1>5, <1>6 DEF OnItsWay

LEMMA WayIterNext ==
    ASSUME IterInv, IterNext
    PROVE  OnItsWay'
<1>. PICK c, e : c = iterator.next_entry /\ e = After(iterator).next_entry
  OBVIOUS
<1>1. /\ UNCHANGED <<table, cell>> /\ staying' = staying
      /\ iterator.on /\ c \in Linked /\ iterator' = After(iterator)
      /\ twice' = (twice \/ c \in listed) /\ listed' = listed \cup {c}
  BY DEF IterNext, tvars
<1>2. live
  BY <1>1 DEF IterInv, TableInv, WellChained
<1>3. c \in DOMAIN cell /\ c # NoCell
  BY <1>1, <1>2, LinkedIsAllocated, TableNumbers DEF IterInv, TableInv, WellChained
<1>4. /\ iterator.next_chain = ChainOf(c) /\ ~twice
      /\ listed \subseteq DOMAIN cell /\ listed \cap Ahead = {}
      /\ staying \subseteq listed \cup Ahead
  BY <1>1, <1>3 DEF IterInv, OnItsWay
<1>5. /\ iterator'.on /\ e \in DOMAIN cell \cup {NoCell}
      /\ e # NoCell => iterator'.next_chain = ChainOf(e)
      /\ AheadOf(e) = {d \in DOMAIN cell : Before(c, d)}
  BY <1>1, <1>2, <1>3, <1>4, AheadOfNext DEF IterInv
<1>6. Ahead = AheadOf(e) \cup {c} /\ c \notin AheadOf(e)
  <2>1. Ahead = {d \in DOMAIN cell : d = c \/ Before(c, d)}
    BY <1>3 DEF Ahead, AheadOf
  <2>2. ~Before(c, c)
    BY <1>2, <1>3, WalkIsOrder DEF IterInv, TableInv, WellChained
  <2>. QED
    BY <1>3, <1>5, <2>1, <2>2
<1>7. iterator'.next_entry = e
  BY <1>1
<1>8. Ahead' = AheadOf(e)
  BY <1>1, <1>7 DEF Ahead, AheadOf, Before, ChainOf, PlaceOf
<1>9. ChainOf(iterator.next_entry)' = ChainOf(e)
  BY <1>1, <1>7 DEF ChainOf
<1>10. ~twice'
  BY <1>1, <1>4, <1>6
<1>11. /\ listed' \subseteq DOMAIN cell' /\ listed' \cap Ahead' = {}
       /\ staying' \subseteq listed' \cup Ahead'
  BY <1>1, <1>3, <1>4, <1>6, <1>8
<1>12. iterator'.next_entry # NoCell => iterator'.next_chain = ChainOf(iterator.next_entry)'
  BY <1>5, <1>7, <1>9
<1>. QED
  BY <1>1, <1>5, <1>7, <1>10, <1>11, <1>12 DEF OnItsWay

LEMMA WayNext ==
    ASSUME Overlaps \subseteq {"insert"}, IterInv, TableInv', [Next]_vars
    PROVE  OnItsWay'
<1>. USE DEF IterInv
<1>1. CASE UNCHANGED vars
  BY <1>1, SameWay DEF vars, tvars, ivars, OnItsWay
<1>2. CASE New \/ Free
  <2>1. ~iterator.on /\ UNCHANGED <<iterator, listed, twice, staying>>
    BY <1>2 DEF New, Free, ivars, TableInv, WellChained
  <2>. QED
    BY <2>1 DEF OnItsWay
<1>3. ASSUME NEW k \in Keys, NEW v \in Values, Overwrite(k, v) PROVE OnItsWay'
  <2>1. UNCHANGED <<iterator, listed, twice, staying>>
    BY <1>3 DEF Overwrite, ivars
  <2>2. CASE iterator.on
    <3>1. live /\ Rehashed = table /\ table' = table
      BY <1>3, <2>2, WayInsertion DEF Overwrite, Inserting
    <3>2. Rehashed[Slot(Rehashed, k)][FirstMatch(Rehashed[Slot(Rehashed, k)], k)] \in DOMAIN cell
      BY <1>3, <3>1, NewMatching DEF Overwrite, Finds
    <3>3. DOMAIN cell' = DOMAIN cell
      BY <1>3, <3>2 DEF Overwrite, Stored
    <3>. QED
      BY <2>1, <2>2, <3>1, <3>3, SameWay
  <2>3. CASE ~iterator.on
    BY <2>1, <2>3 DEF OnItsWay
  <2>. QED
    BY <2>2, <2>3
<1>4. ASSUME NEW k \in Keys, NEW v \in Values, Add(k, v) PROVE OnItsWay'
  <2>1. UNCHANGED <<iterator, listed, twice, staying>>
    BY <1>4 DEF Add, ivars
  <2>2. CASE iterator.on
    BY <1>4, <2>2, WayAdd
  <2>3. CASE ~iterator.on
    BY <2>1, <2>3 DEF OnItsWay
  <2>. QED
    BY <2>2, <2>3
<1>5. ASSUME NEW k \in Keys, InsertFails(k) PROVE OnItsWay'
  <2>1. UNCHANGED <<cell, iterator, listed, twice, staying>>
    BY <1>5 DEF InsertFails, ivars
  <2>2. CASE iterator.on
    <3>1. table' = table
      BY <1>5, <2>2, WayInsertion DEF InsertFails
    <3>. QED
      BY <2>1, <2>2, <3>1, SameWay
  <2>3. CASE ~iterator.on
    BY <2>1, <2>3 DEF OnItsWay
  <2>. QED
    BY <2>2, <2>3
<1>6. ASSUME NEW k \in Keys, Lookup(k) PROVE OnItsWay'
  BY <1>6, SameWay DEF Lookup, ivars, OnItsWay
<1>7. ASSUME NEW k \in Keys, Delete(k) PROVE OnItsWay'
  <2>1. ~iterator.on /\ UNCHANGED <<iterator, listed, twice>>
    BY <1>7 DEF Delete, MayOverlap
  <2>2. staying' = {}
    BY <1>7, <2>1 DEF Delete, OnItsWay
  <2>. QED
    BY <2>1, <2>2 DEF OnItsWay
<1>8. CASE Iterate \/ IterNext
  BY <1>8, WayIterate, WayIterNext
<1>9. CASE IterEnd
  BY <1>9 DEF IterEnd, NotIterating, OnItsWay
<1>. QED
  BY <1>1, <1>2, <1>3, <1>4, <1>5, <1>6, <1>7, <1>8, <1>9 DEF Next

\* As long as only insertions overlap an iteration, in a table that does not
\* grow, whatever was there from its start to its end is returned exactly once.
THEOREM IterationsAreComplete ==
    ASSUME Overlaps \subseteq {"insert"}
    PROVE  Spec => []ListedOnce
<1>1. Init => OnItsWay
  BY DEF Init, NotIterating, OnItsWay
<1>2. TableInv /\ TableInv' /\ OnItsWay /\ [Next]_vars => OnItsWay'
  BY WayNext DEF IterInv
<1>3. OnItsWay => ListedOnce
  BY DEF OnItsWay, ListedOnce, Ahead, AheadOf
<1>. QED
  BY <1>1, <1>2, <1>3, TableIsSound, PTL DEF Spec

\* An insertion frees nothing, and neither does the growth before it.
LEMMA InsertionKeeps ==
    ASSUME NEW k \in Keys,
           (\E v \in Values : Overwrite(k, v) \/ Add(k, v)) \/ InsertFails(k)
    PROVE  DOMAIN cell \subseteq DOMAIN cell' /\ iterator' = iterator
<1>1. ASSUME NEW c, NEW v, cell' = Stored(c, k, v) PROVE DOMAIN cell \subseteq DOMAIN cell'
  BY <1>1 DEF Stored
<1>2. ASSUME NEW v \in Values, Overwrite(k, v) PROVE DOMAIN cell \subseteq DOMAIN cell'
  BY <1>1, <1>2 DEF Overwrite
<1>3. ASSUME NEW v \in Values, Add(k, v) PROVE DOMAIN cell \subseteq DOMAIN cell'
  BY <1>1, <1>3 DEF Add
<1>. QED
  BY <1>2, <1>3 DEF Overwrite, Add, InsertFails, ivars

\* An iterator is set to an entry of the table, and only a removal frees one.
LEMMA SafeNext ==
    ASSUME "remove" \notin Overlaps, TableInv, NoRemovedListed, [Next]_vars
    PROVE  NoRemovedListed'
<1>. USE DEF NoRemovedListed
<1>1. CASE UNCHANGED vars
  BY <1>1 DEF vars, tvars, ivars
<1>2. CASE New \/ Free
  BY <1>2 DEF New, Free, ivars, TableInv, WellChained
<1>3. ASSUME NEW k \in Keys,
             (\E v \in Values : Overwrite(k, v) \/ Add(k, v)) \/ InsertFails(k)
      PROVE  NoRemovedListed'
  BY <1>3, InsertionKeeps
<1>4. ASSUME NEW k \in Keys, Lookup(k) PROVE NoRemovedListed'
  BY <1>4 DEF Lookup, ivars
<1>5. ASSUME NEW k \in Keys, Delete(k) PROVE NoRemovedListed'
  BY <1>5 DEF Delete, MayOverlap
<1>6. CASE Iterate
  BY <1>6, AtOccupied DEF Iterate, tvars
<1>7. CASE IterNext
  <2>1. /\ iterator.on /\ iterator.next_entry \in Linked
        /\ iterator' = After(iterator) /\ cell' = cell
    BY <1>7 DEF IterNext, tvars
  <2>2. live
    BY <2>1 DEF TableInv, WellChained
  <2>3. iterator.next_entry \in DOMAIN cell
    BY <2>1, <2>2, LinkedIsAllocated DEF TableInv, WellChained
  <2>4. /\ iterator \in [on : BOOLEAN, next_chain : Nat, next_entry : Cells \cup {NoCell}]
        /\ iterator.next_chain + 1 \in Nat
    BY DEF TableInv, Types
  <2>5. CASE PlaceOf(iterator.next_entry) < Len(table[ChainOf(iterator.next_entry)])
    BY <2>1, <2>2, <2>3, <2>4, <2>5, AfterEntry
  <2>6. CASE ~(PlaceOf(iterator.next_entry) < Len(table[ChainOf(iterator.next_entry)]))
    <3>1. iterator' = At(Occupied(iterator.next_chain + 1))
      BY <2>1, <2>2, <2>3, <2>6, AfterEntry
    <3>. QED
      BY <2>1, <2>2, <2>4, <3>1, AtOccupied
  <2>. QED
    BY <2>5, <2>6
<1>8. CASE IterEnd
  BY <1>8 DEF IterEnd, NotIterating
<1>. QED
  BY <1>1, <1>2, <1>3, <1>4, <1>5, <1>6, <1>7, <1>8 DEF Next

\* As long as nothing is removed, an iteration never goes on with an entry that
\* is freed, although the table may grow under it: readdir is put at risk by
\* unlinks alone.
THEOREM IterationsAreSafe ==
    ASSUME "remove" \notin Overlaps
    PROVE  Spec => []NoRemovedListed
<1>1. Init => NoRemovedListed
  BY DEF Init, NotIterating, NoRemovedListed
<1>2. TableInv /\ NoRemovedListed /\ [Next]_vars => NoRemovedListed'
  BY SafeNext
<1>. QED
  BY <1>1, <1>2, TableIsSound, PTL DEF Spec

-----------------------------------------------------------------------------
(* The table is a dictionary                                               *)

\* What the dictionary has is what the entries have, as a fact of the state
\* before and after a step.
Kept ==
    TableInv =>
        /\ contents = [q \in DOMAIN contents |-> contents[q]]
        /\ DOMAIN contents = {ClassOf(c) : c \in DOMAIN cell}
        /\ \A c \in DOMAIN cell : contents[ClassOf(c)] = cell[c].value

LEMMA ClassIsEqual ==
    ASSUME NEW k \in Keys, NEW l \in Keys
    PROVE  Class(k) = Class(l) <=> Equal(k, l)
BY DEF Class, Equal, string_equal, int_equal

LEMMA AllKept == Kept
<1>. SUFFICES ASSUME TableInv
              PROVE  /\ contents = [q \in DOMAIN contents |-> contents[q]]
                     /\ DOMAIN contents = {ClassOf(c) : c \in DOMAIN cell}
                     /\ \A c \in DOMAIN cell : contents[ClassOf(c)] = cell[c].value
  BY DEF Kept
<1>1. ASSUME NEW c \in DOMAIN cell, NEW d \in DOMAIN cell, ClassOf(c) = ClassOf(d)
      PROVE  c = d
  <2>1. cell[c].key \in Keys /\ cell[d].key \in Keys
    BY DEF TableInv, Types
  <2>2. Equal(cell[c].key, cell[d].key)
    BY <1>1, <2>1, ClassIsEqual DEF ClassOf
  <2>. QED
    BY <2>2 DEF TableInv, KeysDiffer
<1>2. ASSUME NEW c \in DOMAIN cell PROVE contents[ClassOf(c)] = cell[c].value
  <2>1. (CHOOSE d \in DOMAIN cell : ClassOf(d) = ClassOf(c)) = c
    BY <1>1
  <2>. QED
    BY <2>1 DEF contents
<1>. QED
  BY <1>2 DEF contents

\* hash_table_lookup's entry is the one the dictionary has for the key.
LEMMA FindIsKept ==
    ASSUME TableInv, live, NEW k \in Keys
    PROVE  /\ Find(k) = NoCell <=> Class(k) \notin DOMAIN contents
           /\ Find(k) # NoCell =>
                  /\ Find(k) \in DOMAIN cell /\ ClassOf(Find(k)) = Class(k)
                  /\ contents[Class(k)] = cell[Find(k)].value
<1>. PICK chain : chain = table[Slot(table, k)]
  OBVIOUS
<1>1. Finds(chain, k)
  BY OldMatching
<1>2. NoCell \notin DOMAIN cell /\ \A c \in DOMAIN cell : cell[c].key \in Keys
  BY HashAssumption DEF TableInv, Types
<1>3. CASE Matches(chain, k) = {}
  <2>1. Find(k) = NoCell
    BY <1>3 DEF Find
  <2>2. \A c \in DOMAIN cell : ~Equal(cell[c].key, k)
    BY <1>1, <1>3 DEF Finds
  <2>3. \A c \in DOMAIN cell : ClassOf(c) # Class(k)
    BY <1>2, <2>2, ClassIsEqual DEF ClassOf
  <2>. QED
    BY <2>1, <2>3, AllKept DEF Kept
<1>4. CASE Matches(chain, k) # {}
  <2>1. Find(k) = chain[FirstMatch(chain, k)]
    BY <1>4 DEF Find
  <2>2. Find(k) \in DOMAIN cell /\ Equal(cell[Find(k)].key, k)
    BY <1>1, <1>4, <2>1 DEF Finds
  <2>3. ClassOf(Find(k)) = Class(k)
    BY <1>2, <2>2, ClassIsEqual DEF ClassOf
  <2>. QED
    BY <1>2, <2>2, <2>3, AllKept DEF Kept
<1>. QED
  BY <1>3, <1>4

\* Calls that change neither keys nor values leave the dictionary alone.
LEMMA SameContents ==
    ASSUME UNCHANGED <<hash_func, cell>>
    PROVE  contents' = contents
BY DEF contents, ClassOf, Class

\* An entry gets a key and a value, and no other entry has an equal key.
LEMMA StoredIsInserted ==
    ASSUME TableInv, TableInv', hash_func' = hash_func,
           NEW k \in Keys, NEW v \in Values, NEW c, cell' = Stored(c, k, v),
           \A d \in DOMAIN cell : Equal(cell[d].key, k) => d = c,
           c \in DOMAIN cell => Equal(cell[c].key, k)
    PROVE  contents' = [q \in DOMAIN contents \cup {Class(k)} |->
                            IF q = Class(k) THEN v ELSE contents[q]]
<1>. PICK new : new = [q \in DOMAIN contents \cup {Class(k)} |->
                           IF q = Class(k) THEN v ELSE contents[q]]
  OBVIOUS
<1>1. Kept /\ Kept'
  BY AllKept, PTL
<1>2. /\ DOMAIN cell' = DOMAIN cell \cup {c} /\ cell'[c] = [key |-> k, value |-> v]
      /\ \A d \in DOMAIN cell : d # c => cell'[d] = cell[d]
  BY DEF Stored
<1>3. \A d : ClassOf(d)' = Class(cell'[d].key)
  BY DEF ClassOf, Class
<1>4. \A d \in DOMAIN cell : cell[d].key \in Keys
  BY DEF TableInv, Types
<1>5. ClassOf(c)' = Class(k) /\ (c \in DOMAIN cell => ClassOf(c) = Class(k))
  BY <1>2, <1>3, <1>4, ClassIsEqual DEF ClassOf
<1>6. \A d \in DOMAIN cell : d # c => ClassOf(d)' = ClassOf(d) /\ ClassOf(d) # Class(k)
  BY <1>2, <1>3, <1>4, ClassIsEqual DEF ClassOf
<1>7. DOMAIN contents' = DOMAIN new
  BY <1>1, <1>2, <1>5, <1>6 DEF Kept
<1>8. ASSUME NEW d \in DOMAIN cell' PROVE contents'[ClassOf(d)'] = new[ClassOf(d)']
  <2>1. contents'[ClassOf(d)'] = cell'[d].value
    BY <1>1 DEF Kept
  <2>2. CASE d = c
    BY <2>1, <2>2, <1>2, <1>5
  <2>3. CASE d # c
    <3>1. /\ d \in DOMAIN cell /\ ClassOf(d) \in DOMAIN contents
          /\ contents[ClassOf(d)] = cell[d].value
      BY <2>3, <1>1, <1>2 DEF Kept
    <3>. QED
      BY <2>1, <2>3, <3>1, <1>2, <1>6
  <2>. QED
    BY <2>2, <2>3
<1>9. ASSUME NEW q \in DOMAIN contents' PROVE contents'[q] = new[q]
  <2>1. DOMAIN contents' = {Class(cell'[d].key) : d \in DOMAIN cell'}
    BY <1>1, <1>3 DEF Kept
  <2>2. PICK d \in DOMAIN cell' : q = Class(cell'[d].key)
    BY <2>1
  <2>3. q = ClassOf(d)'
    BY <1>3, <2>2
  <2>. QED
    BY <1>8, <2>3
<1>10. contents' = [q \in DOMAIN contents' |-> contents'[q]]
  BY <1>1 DEF Kept
<1>. QED
  BY <1>7, <1>9, <1>10

LEMMA DictInsert ==
    ASSUME TableInv, TableInv', NEW k \in Keys, NEW v \in Values, Overwrite(k, v) \/ Add(k, v)
    PROVE  Dict!Insert(Class(k), v)
<1>1. live /\ hash_func' = hash_func /\ answer' = 1
  BY DEF Overwrite, Add, Inserting
<1>. PICK chain : chain = Rehashed[Slot(Rehashed, k)]
  OBVIOUS
<1>2. Finds(chain, k)
  BY <1>1, NewMatching
<1>3. CASE Overwrite(k, v)
  <2>. PICK c : c = chain[FirstMatch(chain, k)]
    OBVIOUS
  <2>1. cell' = Stored(c, k, v) /\ Matches(chain, k) # {}
    BY <1>3 DEF Overwrite
  <2>2. Equal(cell[c].key, k) /\ \A d \in DOMAIN cell : Equal(cell[d].key, k) => d = c
    BY <1>2, <2>1 DEF Finds
  <2>. QED
    BY <1>1, <2>1, <2>2, StoredIsInserted DEF Dict!Insert, Dict!Yes
<1>4. CASE Add(k, v)
  <2>1. PICK c \in Cells \ DOMAIN cell : cell' = Stored(c, k, v)
    BY <1>4 DEF Add
  <2>2. \A d \in DOMAIN cell : ~Equal(cell[d].key, k)
    BY <1>2, <1>4 DEF Add, Finds
  <2>. QED
    BY <1>1, <2>1, <2>2, StoredIsInserted DEF Dict!Insert, Dict!Yes
<1>. QED
  BY <1>3, <1>4

LEMMA DictLookup ==
    ASSUME TableInv, NEW k \in Keys, Lookup(k)
    PROVE  Dict!Lookup(Class(k))
<1>1. live /\ UNCHANGED <<hash_func, cell>>
  BY DEF Lookup
<1>2. contents' = contents
  BY <1>1, SameContents
<1>. QED
  BY <1>1, <1>2, FindIsKept DEF Lookup, Dict!Lookup

LEMMA DictRemove ==
    ASSUME TableInv, TableInv', NEW k \in Keys, Delete(k)
    PROVE  Dict!Remove(Class(k))
<1>. PICK c, new : c = Find(k) /\ new = [q \in DOMAIN contents \ {Class(k)} |-> contents[q]]
  OBVIOUS
<1>1. live /\ hash_func' = hash_func /\ cell' = Without({c})
  BY DEF Delete
<1>2. Kept /\ Kept'
  BY AllKept, PTL
<1>3. /\ DOMAIN cell' = DOMAIN cell \ {c}
      /\ \A d \in DOMAIN cell' : cell'[d] = cell[d]
  BY <1>1 DEF Without
<1>4. \A d \in DOMAIN cell' : ClassOf(d)' = ClassOf(d)
  BY <1>1, <1>3 DEF ClassOf, Class
<1>5. answer' = IF Class(k) \in DOMAIN contents THEN 1 ELSE 0
  <2>. PICK chain : chain = table[Slot(table, k)]
    OBVIOUS
  <2>1. answer' = IF Matches(chain, k) = {} THEN 0 ELSE 1
    BY DEF Delete
  <2>2. Matches(chain, k) = {} <=> c = NoCell
    <3>1. Finds(chain, k) /\ NoCell \notin DOMAIN cell
      BY <1>1, OldMatching, HashAssumption DEF TableInv, Types
    <3>. QED
      BY <3>1 DEF Find, Finds
  <2>. QED
    BY <1>1, <2>1, <2>2, FindIsKept
\* The classes that stay are those of the entries that stay.
<1>6. ASSUME NEW d \in DOMAIN cell PROVE d # c <=> ClassOf(d) # Class(k)
  <2>1. cell[d].key \in Keys
    BY DEF TableInv, Types
  <2>2. Equal(cell[d].key, k) => d = c
    <3>. PICK chain : chain = table[Slot(table, k)]
      OBVIOUS
    <3>1. Finds(chain, k)
      BY <1>1, OldMatching
    <3>. QED
      BY <3>1 DEF Find, Finds
  <2>3. d = c => ClassOf(d) = Class(k)
    <3>1. NoCell \notin DOMAIN cell
      BY HashAssumption DEF TableInv, Types
    <3>. QED
      BY <1>1, <3>1, FindIsKept
  <2>. QED
    BY <2>1, <2>2, <2>3, ClassIsEqual DEF ClassOf
<1>7. DOMAIN contents' = DOMAIN new
  BY <1>2, <1>3, <1>4, <1>6 DEF Kept
<1>8. \A d \in DOMAIN cell' : contents'[ClassOf(d)] = new[ClassOf(d)]
  BY <1>2, <1>3, <1>4, <1>6 DEF Kept
<1>9. \A q \in DOMAIN contents' : contents'[q] = new[q]
  BY <1>2, <1>4, <1>8 DEF Kept
<1>10. contents' = [q \in DOMAIN contents' |-> contents'[q]]
  BY <1>2 DEF Kept
<1>11. contents' = new
  BY <1>7, <1>9, <1>10
<1>. QED
  BY <1>5, <1>11 DEF Dict!Remove, Dict!Yes, Dict!No

LEMMA DictNext ==
    ASSUME TableInv, TableInv', [Next]_vars
    PROVE  [Dict!Next]_Dict!vars
<1>. USE DEF Dict!Next, Dict!vars
<1>1. CASE UNCHANGED vars
  BY <1>1, SameContents DEF vars, tvars
<1>2. CASE New
  <2>1. DOMAIN cell = {} /\ cell' = cell /\ answer' = answer
    BY <1>2 DEF New, TableInv, WellChained
  <2>2. DOMAIN contents = {} /\ DOMAIN contents' = {}
    BY <2>1 DEF contents
  <2>3. contents' = contents
    BY <2>1 DEF contents
  <2>. QED
    BY <2>1, <2>3
<1>3. CASE Free
  <2>1. cell' = Without(Linked) /\ answer' = answer /\ live
    BY <1>3 DEF Free
  <2>2. DOMAIN cell' = {}
    BY <2>1, LinkedIsAllocated DEF Without, TableInv, WellChained
  <2>3. contents' = <<>>
    BY <2>2 DEF contents
  <2>. QED
    BY <2>1, <2>3 DEF Dict!Clear
\* What a key is to the dictionary.
<1>4. ASSUME NEW k \in Keys PROVE Class(k) \in Names \cup {<<id[1]>> : id \in Ids}
  BY DEF Keys, Class
<1>5. ASSUME NEW k \in Keys, NEW v \in Values, Overwrite(k, v) \/ Add(k, v) PROVE Dict!Next
  BY <1>4, <1>5, DictInsert
<1>6. ASSUME NEW k \in Keys, InsertFails(k) PROVE Dict!Next
  BY <1>6, SameContents DEF InsertFails, Dict!InsertFails, Dict!No
<1>7. ASSUME NEW k \in Keys, Lookup(k) PROVE Dict!Next
  BY <1>4, <1>7, DictLookup
<1>8. ASSUME NEW k \in Keys, Delete(k) PROVE Dict!Next
  BY <1>4, <1>8, DictRemove
<1>9. CASE Iterate \/ IterNext \/ IterEnd
  BY <1>9, SameContents DEF Iterate, IterNext, IterEnd, tvars
<1>. QED
  BY <1>1, <1>2, <1>3, <1>5, <1>6, <1>7, <1>8, <1>9 DEF Next

\* Whatever the hash function and the sizes, every call does and answers what a
\* dictionary does; growing, collisions and iterations do not show.
THEOREM TableIsDictionary == Spec => DictSpec
<1>1. Init => Dict!Init
  <2>. SUFFICES ASSUME Init PROVE Dict!Init
    OBVIOUS
  <2>1. contents = <<>>
    BY DEF Init, contents
  <2>. QED
    BY <2>1 DEF Init, Dict!Init, Dict!No
<1>2. TableInv /\ TableInv' /\ [Next]_vars => [Dict!Next]_Dict!vars
  BY DictNext
<1>. QED
  BY <1>1, <1>2, TableIsSound, PTL DEF Spec, DictSpec, Dict!Spec
=============================================================================
