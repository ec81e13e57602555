------------------------------ MODULE NodePins ------------------------------
(***************************************************************************)
(* What the deferred unlink of procfuse promises its users, without locks, *)
(* counters or a tree: a registry of files, pinned while somebody accesses *)
(* them.  A file leaves the registry only when nobody has it pinned; one   *)
(* that is unlinked while pinned is doomed, and its last access removes it *)
(* if it is of the kind that is reaped.                                    *)
(***************************************************************************)
CONSTANTS Threads, Files, None

VARIABLES
    registered,  \* the files that exist
    reapable,    \* those the last access removes once they are doomed
    doomed,      \* those that were unlinked while pinned
    pins         \* the file each thread has pinned, or None

pinvars == <<registered, reapable, doomed, pins>>

PinnedBy(f) == {t \in Threads : pins[t] = f}

Init ==
    /\ registered = {}
    /\ reapable = {}
    /\ doomed = {}
    /\ pins = [t \in Threads |-> None]

Forget(f) ==
    /\ registered' = registered \ {f}
    /\ reapable' = reapable \ {f}
    /\ doomed' = doomed \ {f}

\* The application makes a file that is not there.
Register(f) ==
    /\ f \notin registered /\ PinnedBy(f) = {}
    /\ registered' = registered \cup {f}
    /\ reapable' \in {reapable, reapable \cup {f}}
    /\ UNCHANGED <<doomed, pins>>

\* A thread begins to access a file; a doomed one can still be accessed.
Pin(t, f) ==
    /\ pins[t] = None /\ f \in registered
    /\ pins' = [pins EXCEPT ![t] = f]
    /\ UNCHANGED <<registered, reapable, doomed>>

\* The access ends; the last one takes a doomed, reapable file with it.
Unpin(t, f) ==
    /\ pins[t] = f /\ f # None
    /\ pins' = [pins EXCEPT ![t] = None]
    /\ IF f \in doomed \cap reapable /\ PinnedBy(f) = {t}
       THEN Forget(f)
       ELSE UNCHANGED <<registered, reapable, doomed>>

\* The application unlinks a file that is pinned ...
Doom(f) ==
    /\ f \in registered /\ PinnedBy(f) # {}
    /\ doomed' = doomed \cup {f}
    /\ UNCHANGED <<registered, reapable, pins>>

\* ... or one that is not.
Remove(f) ==
    /\ f \in registered /\ PinnedBy(f) = {}
    /\ Forget(f)
    /\ UNCHANGED pins

Next == \E f \in Files :
            \/ Register(f)
            \/ Doom(f)
            \/ Remove(f)
            \/ \E t \in Threads : Pin(t, f) \/ Unpin(t, f)

Spec == Init /\ [][Next]_pinvars
=============================================================================
