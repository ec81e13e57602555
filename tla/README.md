# A TLA+ model of procfuse

procfuse is a C library with which a program serves a /proc-like file system
through FUSE: it registers paths, and libfuse's worker threads call back into
the program, or read and write a plain value ("POD"), when somebody opens, reads
or writes those paths. Everything below refers to `src/procfuse.c` unless it
names another file.

## Inventory

| component | state | operations | talks to |
|---|---|---|---|
| path tree (471-629) | `pf->root`, a hash table of `struct procfuse_hashnode`, each with an optional `subdirs` table | `pathToNode` (find, or find and make), `unregisterNodeInternal` (remove and prune) | hash table; always under `pf->lock` |
| node access protocol (826-963) | `pf->lock`, per node `lock`, `concurrent_access_counter`, `pendingforunlink` | acquire, upgrade, downgrade, release, unlink | path tree; every request and every accessor of the application |
| creation (677-824) | the node's contents, its `transactions` table | `create`, `createPOD` | path tree, temporary files |
| FUSE handlers (1838-2096) | `fi->fh`, `pf->tidcounter` | getattr, readdir, open, truncate, read, write, release (mknod and create return 0) | access protocol, then a callback of the program or a POD handler |
| POD handlers (1451-1835) | `onpodevent.value`, the transactions | open, read, write, truncate, release | upgrade and downgrade of the node's lock, `onModify` |
| POD accessors (980-1449) | the same values | `readPOD_*`, `writePOD_*`, `copyPOD`, `isPOD`, `exists`, `chmod`, `chown`, `utime`, `utimes` | access protocol |
| lifecycle (257-357, 2099-2228) | `running`, `fuse`, `procfuseth`, `fuselock` | ctor, run, the fuse thread, teardown, dtor | libfuse, signal handlers |
| hash table (`src/hash-table.c`) | chains, `entries`, `prime_index`, an iterator | new, free, insert, lookup, remove, iterate, enlarge | the path tree, readdir, the transactions |
| hash and compare helpers (`src/hash-*.c`, `src/compare-*.c`) | - | `string_hash`, `string_equal`, `int_hash`, `int_equal`; the others are called by nobody | hash table |
| error reporting (359-450) | thread-local | setters nobody calls | - |
| temporary files (631-674) | - | `openTempFile` | the file system |
| amalgamation, examples, `gcc-poison.h` | - | generated copy, usage | - |

What is hard here:

* **Interleaving.** libfuse runs requests in several threads, and the program's
  own threads create, unlink and access paths meanwhile. Two locks are nested
  (`pf->lock` outside, the node's lock inside), the inner one is given up and
  taken again by each upgrade and downgrade, and a request spans several holds.
* **Deferred removal.** A file unlinked while it is used is only marked; the
  last request to leave removes it, by path, after it has let go of the node.
* **Pruning.** Removing the last entry of a directory removes the directory,
  and so on upwards; creating makes directories on the way, also when it fails.
* **Waiting under a lock.** Three operations wait for a node while they hold
  `pf->lock`, which every other request needs in order to begin or to end.
* **Lifecycle.** The thread that serves requests is started, asked to stop and
  joined by others, from signal handlers too, with a teardown that may come too
  early, a mount point that outlives a crash, and flags read without a lock.
* **Values in pieces.** A write or a truncation of a POD goes through up to seven
  holds of the node's lock, with offsets and lengths that are checked in some of
  them and used in others.
* **An iteration without its lock.** readdir walks a table that creates and
  removals change meanwhile.

What makes each component correct. *Path tree*: it is closed under parents, the
two walks agree, nothing is left behind. *Access protocol*: the counter and the
locks say what the threads do, no file goes away under its user, no removal is
forgotten or done twice, whoever has a lock gives it back. *POD handlers and
accessors*: every call acts on the value of one moment, nothing reaches
behind a mapping or behind `podtmp`, a conversion gives the same number where the
type can hold it. *Lifecycle*: one session at
a time, nothing is freed under the fuse thread, every teardown and every dtor
comes to its end. *Hash table*: it is a dictionary whatever its size, and an
iteration returns each entry once.

`PROJECT.json` lists 39 hazards at their lines, with the properties that would
catch each, or why none does.

## Modules

| module | models |
|---|---|
| `NodeTree` | the tree as a set of present paths and a subset of directories; what the walks find, make and remove, in closed form |
| `NodeWalk` | the recursive walks as they are written, over the same tree |
| `NodeAccess` | threads, locks, counters, the requests and the calls of the program, creation and removal |
| `NodePins` | what the access protocol promises: a registry of files with pins, without locks, counters or a tree |
| `NodeTree_proof` | prefixes of paths, where walks end, what a removal leaves behind |
| `NodeWalk_proof` | the recursive walks do what the closed forms of `NodeTree` say |
| `NodeAccess_proof` | type correctness of `NodeAccess`; its counter, its locks, opens and unlinks |
| `NodeAccessTree_proof` | the shape of the tree and the removal of unlinked files |
| `NodePins_proof` | files in use, the last user, and that `NodeAccess` implements `NodePins` |
| `HashTable` | `hash-table.c` with the two kinds of keys procfuse uses; cells of memory, chains, growth, and an iteration at one step per entry |
| `HashFunctions` | `string_hash`, for the names of the configurations |
| `Dictionary` | what the table promises: a map and the answer of each call |
| `HashTable_proof` | the table is sound for any hash function, iterations are complete, and it implements `Dictionary` |
| `Lifecycle` | ctor, run, the fuse thread, teardown, dtor, signals, unmounting, a killed process |
| `Lifecycle_proof` | its type correctness and safety invariants |
| `PodValues` | the values of PODs: conversion, printing and reading numbers, writes at an offset |
| `PodIO` | the handlers of one POD at the grain of its lock |
| `PodRegister` | what they promise: a register on which every call acts at one moment |
| `PodIO_proof` | types, strings within their mapping, writes within `podtmp`, conversion, and that `PodIO` implements `PodRegister` |
| `MCNodeAccess`, `MCNodeWalk`, `MCHashTable`, `MCPodIO` | values of the constants for the configurations |

`NodeAccess` extends `NodeTree` and instantiates `NodePins` with the refinement
mapping at its end. `NodeWalk` extends `NodeTree` too: it is where the closed forms
that `NodeAccess` and the proofs use are compared with the code's recursion.
`HashTable` refines `Dictionary`, and `NodeTree` takes
a directory's table as the finite map that `Dictionary` is. `PodIO` and
`PodRegister` share the values of `PodValues`; `PodIO` refines `PodRegister`. It
takes up where `NodeAccess` leaves off: there a handler is a script of lock modes
(`Script`), and `Holds` of `PodIO` spells the same scripts out with what is done
in each hold.

### The tree

A path is the sequence of its components: `ltrim` and `rtrim` make repeated and
trailing slashes disappear. The tree is the set of paths that have a node and
the set of those with a `subdirs` table. A walk ends at the first component that
is not the last one and is no directory, or at a component in `LongNames`, the
names that `getNextFileName` refuses (from 8 characters on, because `fname` is a
pointer where line 504 takes its size). It then returns that node, returns NULL,
or - when a component that is not the last has no node at all - reads
`node->subdirs` of NULL (line 559): `Faults`.

### Threads and nodes

A thread of `NodeAccess` is a worker of libfuse or a thread of the program. `pc`
says where it is; each label is a place where another thread can run in between:

| pc | next action | lines |
|---|---|---|
| idle | `Acquire`: takes `pf->lock`, looks the node up | 868-873 |
| counting | `Count`: the counter goes up under the write lock | 874-879 |
| pinning | `Pin`: read lock taken, `pf->lock` released; the handler chooses its script | 881-888 |
| held, something to do | `Drop`: first half of an upgrade or downgrade | 896, 907 |
| gap | `Retake`: second half | 897, 908 |
| held, nothing to do | `Unpin`: read lock released | 922 |
| leaving | `Leave`: takes `pf->lock` | 925 |
| uncounting | `Uncount`: the counter goes down, the removal happens or not | 927-963 |
| idle | `Unlink`: takes `pf->lock`, looks the node up | 836-839 |
| unlinking | `Mark`: marks the node, removes it or not | 840-858 |
| idle | `Create`, `CreateTooLong`, `CreateNoFile` | 677-802 |
| idle | `Fault`: the process dies in a lookup | 559 |

`Count`, the wait and the increment, is one action because the write lock is
given back in it; likewise for `Uncount` and `Mark`, which keep `pf->lock` to
their end, and nobody else touches the tree, the counter or the mark without it.
A create never waits for a node, so it is one action.

What a handler does with the node it holds matters here only through the locks
it goes through. `Script` gives the sequences of lock modes, by the type of the
node and any flags it may have: `<<"W", "R">>` is an upgrade with its downgrade,
and a write to a number goes through `NestedUpDown`, since it calls the read
handler in the middle, whose downgrade leaves it with the read lock.
`OpenScript` never yields anything but the empty one: `(flags & O_RDONLY) ==
O_RDONLY` is always true, `O_RDONLY` being 0. That is also why the transactions
tables stay empty, and why `Reaps` does not count entries.

A node is a path and a *generation*. Memory is never given back
(`freeHashNode` returns at once for every node, line 179), so a thread may hold
a node that has left the tree while a new node lives under the same path; the
generation tells them apart. A node that is in no tree and held by nobody is set
back to blank, `Swept`, so that its generation can be used again.

### What the program does

`Liberties` names calls the library accepts and a careful program would not
make: `recreate` (create a path that is present), `childOfFile` (create below a
file), `unlinkDir` (unlink a directory). `Kinds` are the types of the files it
creates. Each run says which are allowed. Calls
the code refuses change nothing and are left out.

### The hash table

An entry is a cell of memory, a chain the sequence of its cells, head first
(`hash_table_insert` puts a new entry in front). A call is one step, since
procfuse makes each of them under `pf->lock` or a write lock; only the iteration
takes a step per entry, because readdir holds the read lock of the directory,
which creates and removals inside that directory do not ask for. `Overlaps` says
which calls may come between two of its steps.

| action | code |
|---|---|
| `New`, `Free` | `hash_table_new`, `hash_table_free` with the functions `procfuse_ctorht` and `procfuse_dtorht` give |
| `Overwrite`, `Add`, `InsertFails` | the three ends of `hash_table_insert`, each after `hash_table_enlarge` when the table is more than a third full |
| `Lookup`, `Delete` | `hash_table_lookup`, `hash_table_remove` |
| `Iterate`, `IterNext`, `IterEnd` | `hash_table_iterate`, `hash_table_iter_next`, `hash_table_iter_has_more` saying no |

A directory's keys are names with `string_hash`, a transactions table's are ids
with `int_hash`, which reads an `int` where an `int64_t` is: an id is a pair of
halves and only the lower one counts. The hash of a name is the constant
`NameHash`: what is proved holds for any function, and for TLC it is what
`HashFunctions` computes (with `* 32` for `<< 5` and names of at most three
characters, so that it stays within 31 bits).

`Enlarged` says in one expression where `hash_table_enlarge` puts the entries. The
code walks the old table chain by chain and puts each entry in front of its new
chain, so a new chain holds the entries that belong there, the last one walked
first: the place of an entry is the number of those that are walked after it.

### The lifecycle

The *owner* makes, runs and destroys the file system; its calls are `Ctor`,
`RunCheck` and `Run` (the test of `pf->running` and the assignment, between which
the fuse thread may run), `RunJoin`, `Dtor`, `DtorRetry` and `DtorFree`. The
*handler* is a signal handler that calls teardown: the thread it interrupts
(`on`) stands still meanwhile. *Others* are further threads that call teardown.
A fuse thread goes through started, locked, setup, looping, stopped, closing,
closed, ended and joined; teardown is `Teardown`, `TeardownLock`, `TeardownExit` and
`TeardownStat`, with the lock released before `stat`. libfuse and the kernel are
external: `fuse_exit` sets a flag which the loop looks at after a request
(`asked`), a stat on the mount point is a request, or waits for the unmounting
when the loop has ended, and `Unmounted` is somebody's `fusermount -u`. `Crash`
kills the process at any point; what stays is a stale mount point, which the
next `Ctor` may or may not be able to unmount.

`Liberties` are again what a careful program, or the kernel, would not do:
`signalInTeardown` (a signal interrupts a teardown that has the lock),
`signalInThread` (a signal goes to the fuse thread before it blocks signals) and
`dtorAfterJoin` (dtor after a run that blocked).

### PODs

A number is the text it prints as; a string is its mapping `r` of `MapSize` bytes,
4 MB in the code, and its `length_r`. `Digits` are told apart; a sign, a point or an
exponent is a `Mark`. Where a text is digits only, and the type holds and prints
that many of them exactly (`Precision`: six for `%g`, nine for an int), what the code
computes is computed: the zeros that fill a hole, the digits a conversion stops
at, the casts of `procfuse_copyPOD`. Where a sign, a fraction, an overflow or a
rounding comes in - `(float)` of a large int, `(double)` of a large int64, "1-" -
the outcome is *any* number: `Readings` and `Casts` are sets.

A call is a sequence of *holds* of the node's lock (`todo`), let go between two of
them; in a hold a scalar is copied in one step, bytes are copied one by one. So a
read that overlapped a write would see half of it.

| hold | actions | code |
|---|---|---|
| fetch | `FetchScalar`, `FetchBytes` | `procfuse_onFuseReadPOD`, between its upgrade and downgrade |
| put | `PutChar`, `PutRefused`, `PutBytes` | `procfuse_onFuseWritePOD` for characters and strings |
| check, store | `Check`, `Store` | ... for numbers, around the nested read |
| ask, clear | `Ask`, `Clear`, `GrowFails` | `procfuse_onFuseTruncatePOD` |
| get, put | `GetPOD`, `PutPOD` | `procfuse_readPOD`, `procfuse_writePOD` |
| pass | `Pass` | a hold in which nothing is done |

`Served` is what the FUSE handlers make of the answer: a write of nothing becomes
an I/O error, a truncation succeeds whatever happened. `CopyPOD` has all pairs of
types. All `procfuse_writePOD_*` functions call `procfuse_readPOD`, so they are
`Gets`; `procfuse_writePOD` itself is linked, and is there as `Puts`, by one thread
(`Setter`): it changes the value under the read lock, no header declares it, and two
threads in it are a data race.

`Store` has the end of `podtmp`: the write is cut to what is left of it (`Clamped`,
1641-1643), which is also what is returned, and a text that fills it has no NUL
behind it (1645), so that `atoi` and its like go on with whatever lies there:
`Behind` is the set of what may. Which of the two answers onModify gives is part
of the request (`agrees`), so that a refused truncation is told from one that was
agreed to.

`PodRegister` states what comes of a call position by position, without the
operators that `PodIO` is made of: a read gets at most as many bytes as it asked for,
a truncation acts if onModify agrees and not otherwise. A call begins, acts and ends.
A write to a number has one moment more, `Look`: the code fetches the old text in
one hold of the lock and stores in another, under the read lock, because the
nested `procfuse_onFuseReadPOD` downgrades. What others do in between is lost,
and no line of the repository says otherwise.

`Liberties` here: `growString` (onModify agrees to a string longer than its mapping,
where `mremap` is told the new size for the old one and its answer is dropped) and
`shortReads` (a read of a number asks for fewer bytes than it prints, where 1559
copies all of them nevertheless).

## Runs

| run | instance | shows |
|---|---|---|
| `core_contract` | 3 threads, `/net` and `/net/list`, no liberties | types; `AccessCounted`, `LockHeldAsBelieved`, `HeldFileRegistered`, `PendingReaped`, `OpenNotPending`, `NoEmptyDirs`; the refinement `PinsSpec`; no deadlock |
| `two_files` | 2 threads, `/net/list`, `/net/add` and a third file whose name is too long, no liberties | `HeldFileRegistered` when a sibling is removed and directories are pruned; `PfLockReleased` under fairness; no deadlock |
| `core_dirs` | the same tree, no strings or characters, `childOfFile` and `unlinkDir` | `TreeWellFormed`; no deadlock |
| `walk` | 14 paths of three levels, two names and one too long | the walks and their closed forms agree in all reachable trees |
| `recreate` | 3 threads, liberty `recreate` | violates `ReapsExclusively` |
| `empty_dirs` | 1 thread, the file's name too long | violates `NoEmptyDirs` |
| `hashtable` | 4 names, 4 ids, 4 cells, sizes 2, 5, 8 and then ten times the entries; insertions overlap an iteration | types; `EntriesFound`, `EntriesCounted`, `LoadBounded`, `ListedOnce`; the refinement `DictSpec` |
| `readdir` | the same, and removals and growth overlap it too | violates `NoRemovedListed` |
| `lifecycle` | the owner, its signal handler, one more thread, 2 fuse threads, no liberties | `OwnSession`, `RunsAgain`, `FreedAfterThread`; `TeardownReturns` and `DtorEnds` under fairness; no deadlock |
| `blocking_dtor` | the same with `dtorAfterJoin` | violates `DtorEnds` |
| `signal_thread` | the same with `signalInThread` | violates `TeardownReturns` |
| `pod` | 2 threads on a character, a float or a string; mapping of 3, `podtmp` of 4, writes of 3 bytes at 0, 2 and 4; no liberties | `TypeOK`, `WithinMapping`, `WithinPodtmp`; the refinement `RegisterSpec`; no deadlock |

Why the bounds are enough. The hardest interleavings of the protocol are about
one node: two accessors and somebody who unlinks or creates, which is what three
threads on one file in one directory give, with the directory pruned and made
again; the threads are interchangeable, hence the symmetry. Two files are needed
where one survives the removal of the other or of their directory. `MaxGen`
bounds how many nodes exist at once under one path. A thread holds at most one
node and the one that creates holds none, so a bound equal to the number of
threads, as in the three passing runs, never keeps a create from happening. In
`walk` a third level is where pruning passes through an inner directory.
A component that is too long makes half a create, so `two_files` and `core_dirs`
have one. `core_dirs` is about the shape of the tree, so it leaves out characters
and strings, which differ from callbacks only in the locks their handlers take.

For the table, the keys are chosen so that some share a chain and not a hash
("c" and "ab" in the smallest table), some a hash and not a name ("ab" and "`C",
which `MCNamesCollide` checks) and two ids differ in their upper half only. Four
entries are enough to grow past the last prime, where the size follows the
number of entries, and to fail an allocation at every size. With two equal values
nothing would distinguish an overwritten entry from an old one, hence two values.

In `lifecycle` one fuse thread serves at most (that is `OwnSession`), and a second
one is there to be started while the first has not ended; `MaxThreads` bounds
those that exist at once. A third could only wait for what the second waits for:
`OneActive` of the proof says there is never more than one that has not reset
`running`. Two further callers of teardown differ in nothing.

In `pod` two digits and the end of a line are written at the beginning, at 2, where
the write crosses the end of the mapping (three bytes), of `podtmp` (four) and of a
one-digit number with a hole before it, and at 4, behind everything. A string of
four bytes is the one that `procfuse_writePOD` refuses. A float of one digit is exact
and one of two is not, so both sides of `Readings` and `Casts` occur; numbers have
at most two characters, and those include signs. The other kinds of numbers go through
the same holds, with another `Precision`; the proof has them all. A read asks for two
bytes, so that a read of a string takes several steps and is cut off. The accessors
read as an int64, which is what `procfuse_readPOD_s` asks for, a double and a string.
Behind `podtmp` lies a NUL or a character that ends a number. Two threads are enough
for an overlap of two calls of several holds each, which includes two writers of
one number; who comes third meets the same holds.

Deadlock is checked in all runs but `recreate`: there a create starts a lock over
that a thread has, the thread's unlock makes the number of readers -1, and nobody
gets the write lock any more - which is the finding again, in another form.
A crash (`Fault`) ends everything in `Dead` and is no deadlock.

Fairness (`FairSpec`): weak fairness of each thread's `Step`, the steps of a call
that has begun. The scheduler runs every thread, a mutex or lock that stays free
is taken, and no callback of the program runs for ever. No fairness for calls:
nobody has to call. glibc's lock lets readers pass waiting writers; the model
allows any order, so a writer waiting in `Count` could starve only if readers
kept coming, and new ones need `pf->lock`, which the waiting thread has.
`PfLockReleased` says exactly that.

`FairSpec` of `Lifecycle`: strong fairness of the owner's steps inside a call, of
each other caller's teardown and of each fuse thread. Strong, because `fuselock`
is a mutex that others take and release meanwhile: who waits for it is enabled
again and again, not always. A mutex whose users sleep in between (dtor sleeps in
its timed join, teardown in stat, the fuse thread serves) is got at last. There
is no fairness for a signal, an unmount, a crash or a call. The loop of dtor is
one action for the owner, so fairness does not choose the successful join over
the failing one: `DtorEnds` holds because the thread ends.

### Findings

* `recreate`. `create` on a path that is present gets the existing node and starts
  its lock, its counter and its mark over. The counter then misses those who
  are using the node, and a release removes the file although another thread is
  in its handler - contrary to the comment of lines 943-957 ("we're the only
  ones having absolute exclusive access to the node").
* `empty_dirs`. `createPOD` cleans up after a failure ("clean up unneeded tree
  structures", 796), but not when the walk itself failed on a component that is
  too long: the directories it made stay.

* `readdir`. The iteration of readdir goes on with an entry that an unlink has
  removed and freed in the meantime: it holds the read lock of the directory, the
  unlink `pf->lock` and the lock of the file. The comment of 1913 ("don't list files
  which shall have been unlinked") looks at the mark of nodes that are still
  there.
* `blocking_dtor`. All examples run with `PROCFUSE_BLOCK` and call dtor then. run has
  joined the thread; dtor's timed join of the same thread fails for ever (`ESRCH`
  in glibc), and dtor repeats it for ever. Its comment says "waiting for the
  thread to exit" (338): it has.
* `signal_thread`. The fuse thread is said not to listen to signals (2222), but it
  starts with its creator's mask and takes `fuselock` (2107) before it blocks them
  (2112). A signal in between runs the handler on this thread; the teardown there
  waits for the lock of the thread it has interrupted.

Met while modelling and without a run of their own, because no comment or test
says otherwise, or because a property says precisely what happens: `Faults` above
(a lookup below a directory that does not exist ends the process; `LookupAgrees`
says when); `writePOD_*` calling `readPOD`, and `readPOD_s` asking for an INT64; the
never-registered transactions; unlinked callbacks and strings that stay in the
tree because only nodes with a transactions table are reaped (935); two writers
of one number, the second of which overwrites what the first has done (`Look`);
a number read into a buffer that is shorter than it (1559; the kernel does ask for
few bytes, as `direct_io` is among the options of 2200): with `shortReads` TLC
refutes `RegisterSpec`, which promises no more bytes than were asked for; `onModify`
agreeing to a string longer than its mapping: with `growString` TLC refutes
`WithinMapping`; `podtmp`, "more than long enough" (1571), filled to its end, so that
the conversion reads on behind it (1645): with a digit in `Behind` TLC refutes
`RegisterSpec`; `mmap`'s failure compared with NULL (780); a signal
during a teardown of the owner, which waits for itself (`signalInTeardown`); a
`run` that is refused for ever after a failed set-up, since the early return of 2118
leaves `pf->running` set (`RunsAgain` is about sessions that were served).

## Proofs

Every theorem is about all values of the constants that satisfy the named
assumptions; a condition beyond those is in the `ASSUME` of its theorem. Without the
condition TLC refutes the property on a small instance. (`growString` refutes
`WithinMapping`; the other properties of `PodIO` have no meaning in the state after
that, where the model looks for bytes that are not there.)

| module | theorem | states | condition |
|---|---|---|---|
| `NodeWalk_proof` | `LookupsAgree`, `CreatesAgree`, `UnregistrationsAgree`, `CreateThenUnregisters` | `LookupAgrees`, `CreateAgrees`, `UnregisterAgrees`, `CreateThenUnregister` | |
| `NodeAccess_proof` | `TypeCorrect` | `TypeOK` | |
| | `CounterTellsTheTruth` | `AccessCounted` | no `recreate` |
| | `LockTellsTheTruth` | `LockHeldAsBelieved` | no `recreate` |
| | `OpensBeforeUnlink` | `OpenNotPending` | no `recreate` |
| `NodeAccessTree_proof` | `TreeIsWellFormed` | `TreeWellFormed` | |
| | `UnlinkedIsReaped` | `PendingReaped` | |
| | `DirsAreNeeded` | `NoEmptyDirs` | no component is too long |
| `NodePins_proof` | `HeldFilesStay` | `HeldFileRegistered` | no liberties |
| | `ReapsAlone` | `ReapsExclusively` | no liberties |
| | `AccessesImplementPins` | `PinsSpec` | no liberties |
| `HashTable_proof` | `TypeCorrect`, `EntriesAreFound`, `EntriesAreCounted`, `LoadIsBounded` | `TypeOK`, `EntriesFound`, `EntriesCounted`, `LoadBounded` | |
| | `IterationsAreComplete` | `ListedOnce` | only insertions without growth overlap an iteration |
| | `IterationsAreSafe` | `NoRemovedListed` | no removal overlaps an iteration |
| | `TableIsDictionary` | `DictSpec` | |
| `Lifecycle_proof` | `TypeCorrect`, `OneSession`, `EndedRunsAgain`, `FreedLast` | `TypeOK`, `OwnSession`, `RunsAgain`, `FreedAfterThread` | |
| `PodIO_proof` | `TypeCorrect`, `StringsStayMapped`, `WritesStayInPodtmp` | `TypeOK`, `WithinMapping`, `WithinPodtmp` | no `growString` |
| | `CallsImplementRegister` | `RegisterSpec` | `Ordinary`: no liberties, and what lies behind `podtmp` begins with neither a digit nor a `Mark` |
| | `ConversionsAreCopies` | `CopyPOD` and `Copies` of `PodRegister` are equal | |

### The walks

From `PathsAssumption` (paths nonempty and closed under prefixes), for paths of any
length and any set of names that are too long.

The walks of `NodeWalk` are recursive functions: `PathToNodeAt` and
`UnregisterNodeAt` are one call each, in the order of the source, and refer to what
the call for the next component returns. The closed form of what a call for
component k returns (`Returns`, `Leaves`) satisfies the same equation
(`FindsStepwise`, `MakesStepwise`, `LeavesStepwise`); so there is a function that does
(`PathToNodeRecurs`, `UnregisterNodeRecurs`), and a last component at which it could
differ from the closed form leads to a later one (`PathToNodeReturns`,
`UnregisterNodeIs`). Induction is by a least counterexample (`SmallestOf`), because
the induction theorems of the library cannot be used with the installed provers.
The heart of it is `EmptyMeansPruned`: `hash_table_num_entries` says 0 on the way back
up exactly when nothing below the directory stays but directories that are
pruned themselves. That needs a tree without holes, which is the inductive
`WalkInv`, and does not hold of the directory's own entries in other trees.

With these theorems, what is proved below of the closed forms is true of the
code's recursion.

### The access protocol

For every set of threads, paths and names and every bound, from `PathsAssumption`
and `AccessAssumption` (finitely many threads; paths nonempty and closed under
prefixes).

* `TypeCorrect`. It is inductive by itself: besides types, it says that a thread
  points to a node exactly when it is inside a call, and that a thread in the
  gap has a mode to take.
* `CounterTellsTheTruth`. Inductive with `TypeOK`. The argument: `Count` and
  `Uncount` add and remove one accessor together with one unit; a create makes
  a node nobody points to (`NewGen`), so its counter starts at the number of its
  accessors, none; a node that is swept has no accessors.
* `LockTellsTheTruth`, by the inductive `LockInv`, which adds that a thread holds a
  lock exactly at `held` (`HeldIsLocked`). Without that a `Retake` could lock twice.
* `OpensBeforeUnlink`, by an invariant that adds that an open that was granted
  holds the read lock and has nothing left to do; it rests on the lock
  invariant, as `Mark` needs the write lock.
* `TreeIsWellFormed`, by `UnusedBlank /\ TreeInv`: every proper prefix of a present
  path is a directory, no component that is too long ever got a node, and memory
  that nobody can reach is blank, so that what a create finds there does not
  matter. `NodeTree_proof` has what this takes of paths and prefixes: where a walk
  ends (`EndOfWalk`), what a create makes, and that a removal with its pruning
  takes away either a subtree or nothing that a remaining path needs. Each step of
  `Next` leaves the tree as it is, makes a path, removes one, or does both at once
  (`NextShape`).
* `DirsAreNeeded`, by `Filled`: what is below a directory is not empty. Pruning goes
  up exactly as far as a directory would be left empty. The condition is the
  finding `empty_dirs`.
* `UnlinkedIsReaped`, inductive with the above, for all liberties: `Mark` removes
  what nobody counts, `Uncount` what it counts down to nothing, and a removal by
  path finds the marked node itself, or the node had left the tree before.
* `HeldFilesStay`, `ReapsAlone` and `AccessesImplementPins` rest on `SafeInv`, which
  adds `Orderly` to the invariants above: the thread between its lookup and its
  unlock is the one that has `pf->lock` (`LockOwner`), so nobody removes the node it
  has found and not yet counted; directories are never marked and have no
  transactions (`DirsPlain`), and are not unlinked (`UnlinksFile`); a file somebody
  points to is in the tree (`FilesInTree`). A file has nothing below it, so
  removing it leaves the other files alone, pruning included. For the
  refinement, each action changes the registered files, the marks and the pins as
  one action of `NodePins` does, or not at all (`NextIsRegistryStep`).

With any single liberty TLC finds a counterexample to `HeldFileRegistered`,
`ReapsExclusively` and `PinsSpec`: files below files and unlinked directories take
files away with them, and `recreate` is the run of that name.

### The hash table

From `HashAssumption`: the hashes and ids are natural numbers, and the sizes grow by
3 or more from one to the next (in `hash-table.c` each is nearly twice the one
before).

* `TableIsSound` is the inductive `TableInv`: every entry is in exactly one place,
  which is in the chain of its hash (`WellChained`); no two keys are equal
  (`KeysDiffer`); `entries` is the number of entries (`Counted`); and the table is as
  large as its index says, or as the number of entries said when the primes ran
  out (`Sized`). `EnlargedIsChained` is the lemma about growth: the chains of
  `Enlarged` hold the same entries, once each, where their hash leads in the new
  size. The first four theorems follow from `TableInv`. `LoadIsBounded` needs the
  assumption about the sizes: one growth per insertion is enough because one
  entry more needs three chains more.
* `IterationsAreComplete` adds `OnItsWay`: nothing returned is still ahead of the
  iterator, and what stays is returned or ahead. An insertion puts its entry in
  front of a chain, so it moves nothing past the iterator; a growth does.
* `IterationsAreSafe` needs no more than that removals do not overlap: however the
  table grows under the iterator, the entry it stands on is an allocated one. A
  removal leaves it on a freed entry, which is the run `readdir`.
* `TableIsDictionary`: the contents, which are the keys and values of the cells, and
  the answer of each call change as in `Dictionary`.

### The lifecycle

For `Lifecycle`, for any number of fuse threads and further callers and any
liberties, from `LifecycleAssumption` (callers and threads are told apart):

* `TypeCorrect`, `OneSession` (`OwnSession`), `EndedRunsAgain` (`RunsAgain`) and
  `FreedLast` (`FreedAfterThread`). None of the last three is inductive: that a thread
  in its loop serves `pf->fuse` needs that nobody else is about to set it, which
  needs that `run` starts no thread while one is active (`OneActive`), which needs
  that nothing sets `running` between run's check and its assignment (`CheckStands`:
  the assignment is the owner's alone). `LockKnown` says who has `fuselock`,
  `FuseKnown` that `pf->fuse` names a thread that is up, `Overtaken` that a thread that
  has reset `running`, and may already be overtaken by the next run, makes that
  run's thread wait for the lock; `FailureKnown` and `DeadIsBlank` carry the other
  two theorems. TLC checks the four properties in `lifecycle`.

### PODs

From `PodAssumption` and `InputAssumption` (what requests and the application hand
over is of its type, and `podtmp` has room for more than a number and a NUL), for any
requests, types and threads, one of which (`Setter`) may call `procfuse_writePOD`:

* `TypeCorrect`, `StringsStayMapped` and `WritesStayInPodtmp` have the inductive
  invariant `Control /\ Data`. `Control` says which holds may be left of each call
  (`Ahead`, `Now`). It is needed because lengths and offsets are checked in one hold
  and used in another: a string is cleared only in a truncation after `onModify` has
  agreed to a length within the mapping (`Agreed`), and a number is stored only after
  the check of its offset against `podtmp`. `Data` has the types of the value and of
  the copy a thread has of it: the old text of a number is one, however the number
  has changed since, so it is shorter than `podtmp`. Of the copying the proof needs
  that what fits ends where the string does (`FittingFits`) or `podtmp` does
  (`ClampedIs`), and that every branch of `procfuse_copyPOD` that writes a string
  looks at `length_r` (`CopyIsMapped`); of the numbers, that every reading is one
  (`ReadingsAreNumbers`), from a text of any length.
* `CallsImplementRegister`: the refinement of `PodRegister`, by `Control /\ Data /\
  Calm`. Every call has one step in which it acts, a write to a number one before in
  which it looks, and the others are stutters. `Calm` says for each thread that it is
  alone when it writes (`Alone`), that it has a result exactly when it has acted
  (`Answered`), and that what it has read or written so far is true of the value: the
  bytes a read has copied are the string's, those a write has put are in place
  (`Progress`). Nothing of the kind holds of the old text of a number, which is why
  the register has `seen`. At the step in which a call acts, value and answer are
  compared with the register's, position by position: `ByteIsPut` for what is put at an
  offset, `NumbersAfterIs` for the numbers that the changed text may be read as, with
  `ReadingEnds` for what lies behind `podtmp` (`Ordinary`).
* `ConversionsAreCopies`: what `procfuse_copyPOD` may return and leave, for all pairs of
  types, is what `PodRegister` states of sizes, fractions and room: a scalar is
  converted where the destination is as large as the source and keeps a fraction, to
  the same number where the destination holds and prints it exactly; a string is filled
  whole or not at all, or with what leaves room for a NUL.

### What is only model-checked

* Liveness: `PfLockReleased`, `TeardownReturns` and `DtorEnds`. The prover has no
  reasoning about fairness.
* `HashFunctions`, which needs `Bitwise`; no theorem depends on it.
* That the conditions of the theorems are needed, which takes counterexamples: the
  runs `recreate`, `empty_dirs` and `readdir` are three of them. What TLC finds with
  the liberties of `PodIO`, or a digit in `Behind`, is described above and has no run.

## Left out

* Running out of memory in a walk or in `strdup`; a temporary file that cannot be
  made, a table that cannot grow and an entry that cannot be allocated are in.
  `pthread_create` failing.
* Lookups that find nothing: they change nothing.
* `NodeAccess`: what files contain, what handlers return, and errno (`PodIO` has
  them for one file).
* Attributes: `getattr`, `chmod`, `chown`, `utime` change or copy fields nobody else
  looks at; the access check of `open`.
* Lifecycle: dtor without a run, and calls after dtor or on a struct another
  thread destroys - nothing is promised of them; a teardown from inside a FUSE callback;
  the nanoseconds that dtor adds up without a carry, which make a timed join
  fail early, which is what `DtorRetry` allows anyway; `setSingleThreaded`,
  which chooses between `fuse_loop` and `fuse_loop_mt`.
* Values: which number results from signs, fractions, exponents, overflow or
  rounding (it may be any); files of long doubles, whose text ("%Le") has an exponent
  even for zero. Files are made with `O_RDWR`. The buffer that `writePOD_s` never
  fills in. Two threads in `procfuse_writePOD` at once (`Setter`).

## Not modelled

* Open handles and transactions: `(flags & O_RDONLY) == O_RDONLY` is true, `open`
  never makes an entry, and every lookup finds none. What is left of it in the
  models is the hold that looks, the script that is empty, and the table of ids in
  `HashTable`.
* Callbacks that call the library: what they wait for depends on the program.
  A callback that unlinks the path it serves waits for itself while it holds
  `pf->lock` (2032); a model of it would show what a reader of those lines sees.
* Error reporting: thread-local, and its setters have no callers.
  (`procfuse_setError` cuts off the last character of a message.)
* The search of `openTempFile` for a name that is free: one call's I/O.
* The ordering and case-insensitive helpers, which have no callers; the generated
  amalgamation; the examples, which were read for how a program uses the library;
  the list of forbidden functions.

## Plan

1. Done: `NodeTree`, `NodeWalk`, `NodeAccess`, `NodePins` and their theorems.
2. Done: `Lifecycle` with its theorems; `HashTable` over `Dictionary`; `PodValues`,
   `PodIO` over `PodRegister` with its theorems. (The `OpenHandles` once foreseen has
   no state to model, see above; `PodCopy` is in `PodValues`.)
3. Done: the theorems about the walks, the tree and `NodePins`, about `HashTable` and
   `Dictionary`, and about `PodIO` and `PodRegister`, so that every safety property and
   every refinement of a passing run is proved.
4. Perhaps: callbacks that call back, as an extension of `NodeAccess`; readdir
   over `HashTable` composed with the unlink of `NodeAccess`.
