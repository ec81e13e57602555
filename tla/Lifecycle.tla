------------------------------ MODULE Lifecycle ------------------------------
(***************************************************************************)
(* The life of a struct procfuse: procfuse_ctor, procfuse_run and the      *)
(* thread that serves FUSE, procfuse_teardown by any thread or by a signal *)
(* handler, procfuse_dtor, and a process that is killed and started again. *)
(*                                                                         *)
(* The owner is the thread that makes, runs and destroys the file system.  *)
(* The handler is a signal handler: while it runs, the thread it runs on   *)
(* stands still, which is the owner if all goes well.  Others are further  *)
(* threads of the program.  Fuse threads are numbered; a number is used    *)
(* again once its thread is joined.                                        *)
(***************************************************************************)
EXTENDS Naturals, FiniteSets

CONSTANTS Owner, Handler, Others,
          NoThread,
          MaxThreads,   \* bound: fuse threads that exist at once, running or unjoined
          Liberties     \* what may happen although the library does not bear it

\* "signalInTeardown": a signal arrives while the owner has pf->fuselock;
\* "signalInThread": a signal goes to a fuse thread that does not block it yet;
\* "dtorAfterJoin": dtor is called although a blocking run has joined the thread.
AllLiberties == {"signalInTeardown", "signalInThread", "dtorAfterJoin"}

Callers  == {Owner, Handler} \cup Others
Sessions == 1..MaxThreads

ASSUME LifecycleAssumption ==
    /\ MaxThreads \in Nat
    /\ Callers \cap Sessions = {} /\ NoThread \notin Callers \cup Sessions
    /\ Owner # Handler /\ {Owner, Handler} \cap Others = {}
    /\ 0 \notin Callers
    /\ Liberties \subseteq AllLiberties

VARIABLES
    live,        \* there is a struct procfuse
    running,     \* pf->running
    fuse,        \* pf->fuse, named by the thread that set it up; 0: NULL
    fuselock,    \* the owner of pf->fuselock
    procfuseth,  \* pf->procfuseth; 0: no thread was ever created
    th,          \* where the fuse threads are
    exited,      \* the sessions whose exit flag is set,
    asked,       \* ... and that got a request after that
    failed,      \* the last fuse_setup failed
    mount,       \* the mount point: free, served, or stale after a crash
    pc,          \* where the callers are
    then,        \* what follows the teardown a caller is in
    on           \* the thread the handler runs, or last ran, on

svars == <<running, fuse, th, exited, asked, failed, mount>>
vars  == <<live, fuselock, procfuseth, svars, pc, then, on>>

-----------------------------------------------------------------------------
Blank == [g \in Sessions |-> "none"]

Init ==
    /\ live = FALSE /\ running = FALSE /\ fuse = 0
    /\ fuselock = NoThread /\ procfuseth = 0
    /\ th = Blank /\ exited = {} /\ asked = {} /\ failed = FALSE
    /\ mount = "free"
    /\ pc = [t \in Callers |-> "idle"]
    /\ then = [t \in Callers |-> "idle"]
    /\ on = Owner

\* A thread stands still while the signal handler runs on it.
Moves(t) == pc[Handler] = "idle" \/ on # t

Goes(t, from, to) == Moves(t) /\ pc[t] = from /\ pc' = [pc EXCEPT ![t] = to]

-----------------------------------------------------------------------------
(* procfuse_ctor.  A mount point whose server has died is unmounted,       *)
(* unless neither umount2 nor fusermount can.                              *)
Ctor ==
    /\ Goes(Owner, "idle", "idle") /\ ~live
    /\ live' = TRUE /\ running' = FALSE /\ fuse' = 0 /\ procfuseth' = 0
    /\ failed' = FALSE
    /\ mount' \in IF mount = "stale" THEN {"stale", "free"} ELSE {mount}
    /\ UNCHANGED <<fuselock, th, exited, asked, then, on>>

StartsAlways == TRUE   \* mutant of Starts

\* procfuse_run goes on unless pf->running is set: no lock is taken.
Starts == ~running

(* procfuse_run: the check ...                                             *)
RunCheck ==
    /\ Goes(Owner, "idle", "checked") /\ live /\ Starts
    /\ UNCHANGED <<live, fuselock, procfuseth, svars, then, on>>

(* ... the assignment, the new thread, and the wait if it is asked for.    *)
Run(blocking) ==
    /\ Goes(Owner, "checked", IF blocking THEN "joining" ELSE "idle")
    /\ running' = TRUE
    /\ \E g \in Sessions :
           /\ th[g] \in {"none", "joined"}
           /\ procfuseth' = g
           /\ th' = [th EXCEPT ![g] = "started"]
           /\ exited' = exited \ {g} /\ asked' = asked \ {g}
    /\ UNCHANGED <<live, fuse, fuselock, failed, mount, then, on>>

Joinable(g) == g \in Sessions /\ th[g] = "ended"

RunJoin ==
    /\ Goes(Owner, "joining", "idle")
    /\ Joinable(procfuseth)
    /\ th' = [th EXCEPT ![procfuseth] = "joined"]
    /\ UNCHANGED <<live, running, fuse, fuselock, procfuseth, exited, asked, failed, mount, then, on>>

-----------------------------------------------------------------------------
(* procfuse_thread: pf->fuselock first ...                                 *)
ThreadLock(g) ==
    /\ Moves(g) /\ fuselock = NoThread
    /\ \/ th[g] = "started" /\ th' = [th EXCEPT ![g] = "locked"]
       \/ th[g] = "stopped" /\ th' = [th EXCEPT ![g] = "closing"]
    /\ fuselock' = g
    /\ UNCHANGED <<live, running, fuse, procfuseth, exited, asked, failed, mount, pc, then, on>>

(* ... then all signals are blocked: this thread had its creator's mask ... *)
Mask(g) ==
    /\ Moves(g)
    /\ th[g] = "locked" /\ th' = [th EXCEPT ![g] = "setup"]
    /\ UNCHANGED <<live, fuselock, procfuseth, running, fuse, exited, asked, failed, mount, pc, then, on>>

(* ... then the mount point is mounted and the loop entered ...            *)
SetupDone(g) ==
    /\ th[g] = "setup" /\ mount # "stale"
    /\ fuse' = g /\ mount' = "served" /\ failed' = FALSE
    /\ fuselock' = NoThread
    /\ th' = [th EXCEPT ![g] = "looping"]
    /\ UNCHANGED <<live, running, procfuseth, exited, asked, pc, then, on>>

(* ... or fuse_setup fails, and the thread returns at once: pf->running is *)
(* not reset.                                                              *)
SetupFails(g) ==
    /\ th[g] = "setup"
    /\ fuse' = 0 /\ failed' = TRUE
    /\ fuselock' = NoThread
    /\ th' = [th EXCEPT ![g] = "ended"]
    /\ UNCHANGED <<live, running, procfuseth, exited, asked, mount, pc, then, on>>

(* fuse_loop or fuse_loop_mt returns: the exit flag is looked at after     *)
(* each request, so it takes one.                                          *)
LoopExit(g) ==
    /\ th[g] = "looping" /\ g \in asked
    /\ th' = [th EXCEPT ![g] = "stopped"]
    /\ UNCHANGED <<live, fuselock, procfuseth, running, fuse, exited, asked, failed, mount, pc, then, on>>

(* ... or somebody unmounts the file system.                               *)
Unmounted(g) ==
    /\ th[g] = "looping"
    /\ th' = [th EXCEPT ![g] = "stopped"]
    /\ mount' = "free"
    /\ UNCHANGED <<live, fuselock, procfuseth, running, fuse, exited, asked, failed, pc, then, on>>

AfterTeardownLeft(m) == m   \* mutant of AfterTeardown

AfterTeardown(m) == IF m = "served" THEN "free" ELSE m

RunningLeft(run) == run   \* mutant of RunningAfterLoop

RunningAfterLoop(run) == FALSE

(* fuse_teardown(pf->fuse), then pf->fuse and pf->running are reset ...    *)
Close(g) ==
    /\ th[g] = "closing"
    /\ mount' = AfterTeardown(mount)
    /\ fuse' = 0 /\ running' = RunningAfterLoop(running)
    /\ th' = [th EXCEPT ![g] = "closed"]
    /\ UNCHANGED <<live, fuselock, procfuseth, exited, asked, failed, pc, then, on>>

(* ... and the lock is released.                                           *)
ThreadEnd(g) ==
    /\ th[g] = "closed"
    /\ fuselock' = NoThread
    /\ th' = [th EXCEPT ![g] = "ended"]
    /\ UNCHANGED <<live, procfuseth, running, fuse, exited, asked, failed, mount, pc, then, on>>

-----------------------------------------------------------------------------
InDtor == then[Owner] = "join"

\* The threads a signal may go to: the owner anywhere, but for where it has the
\* lock, and not the fuse threads, which block all signals at last.
Interrupted ==
    {t \in {Owner} : fuselock # Owner \/ "signalInTeardown" \in Liberties} \cup
    {g \in Sessions : th[g] \in {"started", "locked"} /\ "signalInThread" \in Liberties}

(* procfuse_teardown, called by the program: the other threads leave the   *)
(* file system alone once it is being destroyed ...                        *)
Teardown(t) ==
    /\ live
    /\ IF t = Handler THEN on' \in Interrupted ELSE UNCHANGED on
    /\ t \in Others => ~InDtor
    /\ Goes(t, "idle", "locking")
    /\ UNCHANGED <<live, fuselock, procfuseth, svars, then>>

(* ... pf->fuselock ...                                                    *)
TeardownLock(t) ==
    /\ Goes(t, "locking", "holding")
    /\ fuselock = NoThread /\ fuselock' = t
    /\ UNCHANGED <<live, procfuseth, svars, then, on>>

ExitsNothing(f)   == {}    \* mutants of Exits: no call,
ExitsUnchecked(f) == {f}   \* ... or no look at pf->fuse

\* The sessions that fuse_exit is called for: none while pf->fuse is NULL.
Exits(f) == IF f = 0 THEN {} ELSE {f}

(* ... fuse_exit, and the lock is released ...                             *)
TeardownExit(t) ==
    /\ Goes(t, "holding", "stat")
    /\ exited' = exited \cup Exits(fuse)
    /\ fuselock' = NoThread
    /\ UNCHANGED <<live, running, fuse, procfuseth, th, asked, failed, mount, then, on>>

\* What stat(2) on the mount point waits for: the loop, or the unmounting when
\* the loop has ended.
StatAnswered == mount = "served" => \E g \in Sessions : th[g] = "looping"

(* ... and stat, which wakes the loop.                                     *)
TeardownStat(t) ==
    /\ Goes(t, "stat", then[t])
    /\ StatAnswered
    /\ asked' = asked \cup {g \in exited : th[g] = "looping"}
    /\ UNCHANGED <<live, running, fuse, fuselock, procfuseth, th, exited, failed, mount, then, on>>

-----------------------------------------------------------------------------
(* procfuse_dtor.  The program has called run before, has no other call    *)
(* going on, and has not had the thread joined.                            *)
Dtor ==
    /\ live /\ procfuseth # 0
    /\ \A t \in Callers : pc[t] = "idle"
    /\ th[procfuseth] = "joined" => "dtorAfterJoin" \in Liberties
    /\ pc' = [pc EXCEPT ![Owner] = "locking"]
    /\ then' = [then EXCEPT ![Owner] = "join"]
    /\ UNCHANGED <<live, fuselock, procfuseth, svars, on>>

JoinedAnyway(g) == TRUE   \* mutant of Joined

Joined(g) == Joinable(g)

(* The timed join fails: the thread still runs, or it was joined before    *)
(* (ESRCH in glibc).  Another teardown follows.                            *)
DtorRetry ==
    /\ Goes(Owner, "join", "locking")
    /\ ~Joined(procfuseth)
    /\ UNCHANGED <<live, fuselock, procfuseth, svars, then, on>>

(* It succeeds; the second join returns at once with an error nobody looks *)
(* at, and everything is freed.                                            *)
DtorFree ==
    /\ Goes(Owner, "join", "idle")
    /\ Joined(procfuseth)
    /\ th' = [g \in Sessions |-> IF th[g] \in {"ended", "joined"} THEN "none" ELSE th[g]]
    /\ exited' = {} /\ asked' = {}
    /\ live' = FALSE /\ procfuseth' = 0
    /\ then' = [then EXCEPT ![Owner] = "idle"]
    /\ UNCHANGED <<running, fuse, fuselock, failed, mount, on>>

-----------------------------------------------------------------------------
(* The process is killed, and started again: what is left is a mount point *)
(* whose server is gone.                                                   *)
Crash ==
    /\ live
    /\ mount' = IF mount = "served" THEN "stale" ELSE mount
    /\ live' = FALSE /\ running' = FALSE /\ fuse' = 0
    /\ fuselock' = NoThread /\ procfuseth' = 0
    /\ th' = Blank /\ exited' = {} /\ asked' = {} /\ failed' = FALSE
    /\ pc' = [t \in Callers |-> "idle"]
    /\ then' = [t \in Callers |-> "idle"]
    /\ on' = Owner

-----------------------------------------------------------------------------
\* A call, or a fuse thread, that has begun goes on.
ThreadStep(g) ==
    \/ ThreadLock(g)
    \/ Mask(g)
    \/ SetupDone(g)
    \/ SetupFails(g)
    \/ LoopExit(g)
    \/ Close(g)
    \/ ThreadEnd(g)

TeardownStep(t) ==
    \/ TeardownLock(t)
    \/ TeardownExit(t)
    \/ TeardownStat(t)

OwnerStep ==
    \/ \E blocking \in BOOLEAN : Run(blocking)
    \/ RunJoin
    \/ DtorRetry
    \/ DtorFree

Next ==
    \/ Ctor
    \/ RunCheck
    \/ Dtor
    \/ OwnerStep
    \/ \E t \in Callers : Teardown(t) \/ TeardownStep(t)
    \/ \E g \in Sessions : ThreadStep(g) \/ Unmounted(g)
    \/ Crash

Spec == Init /\ [][Next]_vars

\* Whoever is in the middle of something goes on, the owner between two signals.
\* A mutex that is released again and again is got at last: its users stat,
\* sleep or serve in between.
FairSpec ==
    /\ Spec
    /\ SF_vars(OwnerStep \/ TeardownStep(Owner))
    /\ \A t \in Callers \ {Owner} : SF_vars(TeardownStep(t))
    /\ \A g \in Sessions : SF_vars(ThreadStep(g))

-----------------------------------------------------------------------------
(* Properties                                                              *)

\* The variables have their types.
TypeOK ==
    /\ live \in BOOLEAN /\ running \in BOOLEAN /\ failed \in BOOLEAN
    /\ fuse \in Sessions \cup {0} /\ procfuseth \in Sessions \cup {0}
    /\ fuselock \in Callers \cup Sessions \cup {NoThread}
    /\ th \in [Sessions -> {"none", "started", "locked", "setup", "looping", "stopped",
                            "closing", "closed", "ended", "joined"}]
    /\ exited \subseteq Sessions /\ asked \subseteq Sessions
    /\ mount \in {"free", "served", "stale"}
    /\ pc \in [Callers -> {"idle", "checked", "joining", "locking", "holding", "stat", "join"}]
    /\ then \in [Callers -> {"idle", "join"}]
    /\ on \in {Owner} \cup Sessions

Up == {"looping", "stopped", "closing"}

\* The session that a fuse thread serves and tears down is pf->fuse, and while
\* it does pf->running is set: there are never two of them, although run looks
\* at pf->running without a lock and the thread uses pf->fuse without one.
OwnSession == \A g \in Sessions : th[g] \in Up => fuse = g /\ running

\* Once the last thread has served its session and ended, by a teardown or by an
\* unmount, the next run is not refused.  (After a fuse_setup that failed run is
\* refused for good: the early return leaves pf->running set.)
RunsAgain ==
    procfuseth # 0 /\ th[procfuseth] \in {"ended", "joined"} /\ ~failed => ~running

\* dtor frees the struct, and the strings fuse_setup uses, only after every fuse
\* thread has ended, and leaves nothing mounted: its teardowns do not miss a
\* thread that has not set up the session yet.
FreedAfterThread ==
    ~live => fuse = 0 /\ mount # "served" /\ \A g \in Sessions : th[g] = "none"

\* Every call of teardown returns, also from a signal handler, and whatever the
\* fuse thread does at that time: stat waits for the loop or for the unmounting
\* and is called without the lock that both need.  (No signal interrupts whoever
\* has that lock.)
TeardownReturns ==
    \A t \in Callers \ {Owner} : pc[t] # "idle" ~> pc[t] = "idle"

\* dtor ("waiting for the thread to exit") comes to its end: teardown is called
\* again until the session exists and its loop has seen the flag.
DtorEnds == InDtor ~> ~InDtor
=============================================================================
