------------------------------ MODULE HashTable ------------------------------
(***************************************************************************)
(* src/hash-table.c: the chained table behind every directory of the path  *)
(* tree and every file's transactions, and an iteration over it, as        *)
(* procfuse_FUSEreaddir does it.                                           *)
(*                                                                         *)
(* An entry is a cell of memory; a chain is the sequence of its cells.     *)
(* Each call but the iteration is one step, since procfuse makes it under  *)
(* a lock.  An iteration takes one step per entry: readdir has the read    *)
(* lock of the directory only, which a create or an unlink in that         *)
(* directory does not ask for.                                             *)
(***************************************************************************)
EXTENDS Integers, FiniteSets, SequencesExt

CONSTANTS Names,      \* keys of a directory
          NameHash,   \* what string_hash says of them
          Ids,        \* keys of a transactions table: the two halves of an id
          Values,
          NoValue,    \* HASH_TABLE_NULL
          Cells,      \* what malloc can return for an entry
          NoCell,     \* a NULL entry
          Primes,     \* hash_table_primes, scaled down
          Overlaps    \* what may happen between two steps of an iteration

ASSUME HashAssumption ==
    /\ NameHash \in [Names -> Nat]
    /\ Ids \subseteq Nat \X Nat
    /\ NoCell \notin Cells /\ NoValue \notin Values
    /\ Primes \in Seq(Nat \ {0}) /\ Primes # <<>>
    /\ \A i \in 1..(Len(Primes) - 1) : Primes[i] + 3 <= Primes[i + 1]
    /\ Overlaps \subseteq {"insert", "enlarge", "remove"}

VARIABLES
    hash_func,    \* the hash function of the table there is, or "none"
    table,        \* the chains, from 0 to table_size-1
    prime_index,
    entries,
    cell,         \* the allocated entries: their key and value
    answer,       \* what the last call returned
    iterator,     \* an iteration going on: next_entry and next_chain
    listed,       \* the cells it has returned,
    twice,        \* ... one of them more than once
    staying       \* the cells in the table since it started

tvars == <<hash_func, table, prime_index, entries, cell, answer>>
ivars == <<iterator, listed, twice, staying>>
vars  == <<tvars, ivars>>

-----------------------------------------------------------------------------
(* Keys                                                                    *)

string_equal(name1, name2) == name1 = name2

\* An int is read where an int64_t is, which is its lower half.
int_hash(id) == id[1]
int_equal(id1, id2) == id1[1] = id2[1]

live == hash_func # "none"

Keys == IF hash_func = "string_hash" THEN Names ELSE Ids

Hash(k) == IF hash_func = "string_hash" THEN NameHash[k] ELSE int_hash(k)

Equal(k, l) == IF hash_func = "string_hash" THEN string_equal(k, l) ELSE int_equal(k, l)

-----------------------------------------------------------------------------
(* Chains                                                                  *)

AllocatedSize(index, n) == IF index < Len(Primes) THEN Primes[index + 1] ELSE n * 10

NewChains(size) == [i \in 0..(size - 1) |-> <<>>]

table_size == Cardinality(DOMAIN table)

Slot(chains, k) == Hash(k) % Cardinality(DOMAIN chains)

MatchesAnyHash(chain, k) == {i \in DOMAIN chain : Hash(cell[chain[i]].key) = Hash(k)}  \* mutant

\* The places in a chain that compare equal to k; a walk stops at the first.
Matches(chain, k) == {i \in DOMAIN chain : Equal(cell[chain[i]].key, k)}

FirstMatch(chain, k) ==
    CHOOSE i \in Matches(chain, k) : \A j \in Matches(chain, k) : i <= j

FullLate(n, size) == (n * 3) \div size > 1   \* mutant of Full

\* "Table is more than 1/3 full"
Full(n, size) == (n * 3) \div size > 0

\* The entries in the chains.
Linked == UNION {ToSet(table[i]) : i \in DOMAIN table}

\* Where an entry is, and whether a walk through the table, chain by chain,
\* comes to one entry before it comes to another.
ChainOf(c) == CHOOSE j \in DOMAIN table : c \in ToSet(table[j])
PlaceOf(c) == CHOOSE n \in DOMAIN table[ChainOf(c)] : table[ChainOf(c)][n] = c
Before(c, d) ==
    \/ ChainOf(c) < ChainOf(d)
    \/ ChainOf(c) = ChainOf(d) /\ PlaceOf(c) < PlaceOf(d)

EnlargedUnhashed(size) ==   \* mutant of Enlarged: the chains keep their index
    [i \in 0..(size - 1) |-> IF i \in DOMAIN table THEN table[i] ELSE <<>>]

\* Every entry, in the order of a walk, is put in front of the chain it belongs
\* to now: in its new chain it comes after those that are walked after it.
Rehashing(size, i) == {c \in Linked : Hash(cell[c].key) % size = i}
InFront(size, i, c) == {d \in Rehashing(size, i) : Before(c, d)}
Enlarged(size) ==
    [i \in 0..(size - 1) |->
        [n \in 1..Cardinality(Rehashing(size, i)) |->
            CHOOSE c \in Rehashing(size, i) : Cardinality(InFront(size, i, c)) = n - 1]]

\* The chains as the rest of an insertion finds them.
Grows == Full(entries, table_size)
Rehashed == IF Grows THEN Enlarged(AllocatedSize(prime_index + 1, entries)) ELSE table
NextPrime == IF Grows THEN prime_index + 1 ELSE prime_index

FewerAlways(n, hits) == n - 1   \* mutants of Fewer
FewerNever(n, hits)  == n

Fewer(n, hits) == IF hits = {} THEN n ELSE n - 1

\* The memory when an entry has got a key and a value, ...
Stored(c, k, v) ==
    [d \in DOMAIN cell \cup {c} |-> IF d = c THEN [key |-> k, value |-> v] ELSE cell[d]]

\* ... and after entries are freed, with their keys and values.
Without(freed) == [c \in DOMAIN cell \ freed |-> cell[c]]

-----------------------------------------------------------------------------
(* The iteration                                                           *)

\* The first chain from i on that holds something, table_size if there is none.
Occupied(i) ==
    LET held == {j \in DOMAIN table : j >= i /\ table[j] # <<>>}
    IN  IF held = {} THEN table_size ELSE CHOOSE j \in held : \A l \in held : j <= l

\* The iterator at the head of that chain.
At(i) == [on |-> TRUE, next_chain |-> i,
          next_entry |-> IF i \in DOMAIN table THEN Head(table[i]) ELSE NoCell]

AfterHeadOnly(it) == At(Occupied(it.next_chain + 1))   \* mutant of After

\* The iterator behind the entry it stands on: the next one of the chain that
\* entry is in, or the first one of the chains after next_chain.
After(it) ==
    LET chain == table[ChainOf(it.next_entry)]
        p     == PlaceOf(it.next_entry)
    IN  IF p < Len(chain) THEN [it EXCEPT !.next_entry = chain[p + 1]]
        ELSE At(Occupied(it.next_chain + 1))

NotIterating == [on |-> FALSE, next_chain |-> 0, next_entry |-> NoCell]

-----------------------------------------------------------------------------
Init ==
    /\ hash_func = "none"
    /\ table = <<>> /\ prime_index = 0 /\ entries = 0
    /\ cell = <<>>
    /\ answer = 0
    /\ iterator = NotIterating /\ listed = {} /\ twice = FALSE /\ staying = {}

MayOverlap(kind) == iterator.on => kind \in Overlaps

\* procfuse_ctorht, and procfuse_dtorht which frees every entry.
New ==
    /\ ~live
    /\ hash_func' \in {"string_hash", "int_hash"}
    /\ table' = NewChains(AllocatedSize(0, 0)) /\ prime_index' = 0 /\ entries' = 0
    /\ UNCHANGED <<cell, answer, ivars>>

Free ==
    /\ live /\ ~iterator.on
    /\ hash_func' = "none"
    /\ table' = <<>> /\ prime_index' = 0 /\ entries' = 0
    /\ cell' = Without(Linked)
    /\ UNCHANGED <<answer, ivars>>

\* An insertion first makes the table larger if it is full.
Inserting(k) ==
    /\ live
    /\ MayOverlap("insert")
    /\ Grows => MayOverlap("enlarge")

(* hash_table_insert: the key is there, its entry gets the new data ...    *)
Overwrite(k, v) ==
    LET chain == Rehashed[Slot(Rehashed, k)]
    IN  /\ Inserting(k)
        /\ Matches(chain, k) # {}
        /\ table' = Rehashed /\ prime_index' = NextPrime
        /\ cell' = Stored(chain[FirstMatch(chain, k)], k, v)
        /\ answer' = 1
        /\ UNCHANGED <<hash_func, entries, ivars>>

(* ... or a new entry goes to the front of the chain ...                   *)
Add(k, v) ==
    LET s == Slot(Rehashed, k)
    IN  /\ Inserting(k)
        /\ Matches(Rehashed[s], k) = {}
        /\ \E c \in Cells \ DOMAIN cell :
               /\ table' = [Rehashed EXCEPT ![s] = <<c>> \o @]
               /\ cell' = Stored(c, k, v)
        /\ prime_index' = NextPrime
        /\ entries' = entries + 1
        /\ answer' = 1
        /\ UNCHANGED <<hash_func, ivars>>

(* ... or there is no memory: for the larger table, which leaves the old   *)
(* one in place, or for the entry.                                         *)
InsertFails(k) ==
    /\ Inserting(k)
    /\ \/ Grows /\ UNCHANGED <<table, prime_index>>
       \/ /\ Matches(Rehashed[Slot(Rehashed, k)], k) = {}
          /\ table' = Rehashed /\ prime_index' = NextPrime
    /\ answer' = 0
    /\ UNCHANGED <<hash_func, entries, cell, ivars>>

\* The entry hash_table_lookup finds, going through one chain only.
Find(k) ==
    LET chain == table[Slot(table, k)]
    IN  IF Matches(chain, k) = {} THEN NoCell ELSE chain[FirstMatch(chain, k)]

Lookup(k) ==
    /\ live
    /\ answer' = IF Find(k) = NoCell THEN NoValue ELSE cell[Find(k)].value
    /\ UNCHANGED <<hash_func, table, prime_index, entries, cell, ivars>>

(* hash_table_remove: the first match is unlinked and freed.               *)
Delete(k) ==
    LET s    == Slot(table, k)
        hits == Matches(table[s], k)
    IN  /\ live /\ MayOverlap("remove")
        /\ table' = IF hits = {} THEN table
                    ELSE [table EXCEPT ![s] = RemoveAt(@, FirstMatch(table[s], k))]
        /\ cell' = Without({Find(k)})
        /\ entries' = Fewer(entries, hits)
        /\ answer' = IF hits = {} THEN 0 ELSE 1
        /\ staying' = staying \ {Find(k)}
        /\ UNCHANGED <<hash_func, prime_index, iterator, listed, twice>>

-----------------------------------------------------------------------------
(* hash_table_iterate                                                      *)
Iterate ==
    /\ live /\ ~iterator.on
    /\ iterator' = At(Occupied(0))
    /\ staying' = DOMAIN cell
    /\ UNCHANGED <<tvars, listed, twice>>

(* hash_table_iter_next.  The entry it stands on is one of the table:      *)
(* anything else has no meaning (see NoRemovedListed).                     *)
IterNext ==
    LET c == iterator.next_entry
    IN  /\ iterator.on /\ c \in Linked
        /\ iterator' = After(iterator)
        /\ twice' = (twice \/ c \in listed)
        /\ listed' = listed \cup {c}
        /\ UNCHANGED <<tvars, staying>>

(* hash_table_iter_has_more says no.                                       *)
IterEnd ==
    /\ iterator.on /\ iterator.next_entry = NoCell
    /\ iterator' = NotIterating /\ listed' = {} /\ twice' = FALSE /\ staying' = {}
    /\ UNCHANGED tvars

Next ==
    \/ New
    \/ Free
    \/ \E k \in Keys :
           \/ \E v \in Values : Overwrite(k, v) \/ Add(k, v)
           \/ InsertFails(k)
           \/ Lookup(k)
           \/ Delete(k)
    \/ Iterate
    \/ IterNext
    \/ IterEnd

Spec == Init /\ [][Next]_vars

-----------------------------------------------------------------------------
(* Properties                                                              *)

\* The variables have their types: a table has at least one chain, and chains
\* hold allocated entries.
TypeOK ==
    /\ hash_func \in {"none", "string_hash", "int_hash"}
    /\ live => DOMAIN table = 0..(table_size - 1) /\ table_size > 0
    /\ \A i \in DOMAIN table : table[i] \in Seq(DOMAIN cell)
    /\ prime_index \in Nat /\ entries \in Nat
    /\ DOMAIN cell \subseteq Cells
    /\ \A c \in DOMAIN cell : cell[c] \in [key : Keys, value : Values]
    /\ answer \in Values \cup {NoValue, 0, 1}
    /\ iterator.next_entry \in Cells \cup {NoCell}
    /\ listed \cup staying \subseteq Cells

\* Every entry is the one that a lookup of its key finds: entries are in the
\* chain their hash asks for, before and after the table grows, and no two
\* entries have equal keys -- else a file would be in the tree and out of reach.
EntriesFound == \A c \in DOMAIN cell : live /\ Find(cell[c].key) = c

\* hash_table_num_entries is the number of entries, none of which is linked
\* twice or lost: unregisterNodeInternal removes a directory when it says 0.
EntriesCounted ==
    /\ entries = Cardinality(DOMAIN cell)
    /\ DOMAIN cell = Linked
    /\ \A i, j \in DOMAIN table : i # j => ToSet(table[i]) \cap ToSet(table[j]) = {}
    /\ \A i \in DOMAIN table : Len(table[i]) = Cardinality(ToSet(table[i]))

\* The table is never more than a third full before its newest entry, also when
\* growing failed and after the last prime: an insertion grows it once at most,
\* so one step of growth has to be enough.
LoadBounded == live => (entries - 1) * 3 < table_size

\* An iteration that has come to its end has returned every entry that was in
\* the table all the time exactly once, whatever was put into it meanwhile --
\* as long as nothing was removed and the table did not grow (Overlaps).
ListedOnce ==
    iterator.on /\ iterator.next_entry = NoCell => staying \subseteq listed /\ ~twice

\* readdir: "don't list files which shall have been unlinked" -- the entry an
\* iteration goes on with is not one that has been removed.
NoRemovedListed == iterator.on => iterator.next_entry \in DOMAIN cell \cup {NoCell}

-----------------------------------------------------------------------------
\* The table as a dictionary: of names, or of lower halves of ids, since int_equal
\* cannot tell two ids apart that differ in the other one.
Class(k) == IF hash_func = "string_hash" THEN k ELSE <<k[1]>>
ClassOf(c) == Class(cell[c].key)

contents ==
    [q \in {ClassOf(c) : c \in DOMAIN cell} |->
        cell[CHOOSE c \in DOMAIN cell : ClassOf(c) = q].value]

Dict == INSTANCE Dictionary WITH
    Keys <- Names \cup {<<id[1]>> : id \in Ids}, map <- contents

\* Every call does, and answers, what the dictionary does; growing and iterating
\* do not show.
DictSpec == Dict!Spec
=============================================================================
