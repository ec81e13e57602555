--------------------------- MODULE Lifecycle_proof ---------------------------
(***************************************************************************)
(* What the checks of pf->running and of the timed join in dtor are worth, *)
(* for any number of threads: one session at a time, running in step with  *)
(* it, nothing freed under a thread.                                       *)
(***************************************************************************)
EXTENDS Lifecycle, TLAPS

\* A fuse thread that has still to tear its session down or to fail, and one
\* that has pf->fuselock.
Active == {"started", "locked", "setup", "looping", "stopped", "closing"}
Holding == {"locked", "setup", "closing", "closed"}

\* Run starts a thread only when none is active, since running is set until the
\* thread resets it or fails: the active thread is the one procfuseth names.
OneActive ==
    \A g \in Sessions : th[g] \in Active => g = procfuseth /\ running

\* Between run's check and its assignment nobody sets running or frees the struct.
CheckStands == pc[Owner] = "checked" => live /\ ~running

LockKnown ==
    /\ \A g \in Sessions : th[g] \in Holding <=> fuselock = g
    /\ \A t \in Callers : pc[t] = "holding" => fuselock = t

FuseKnown ==
    /\ \A g \in Sessions : th[g] \in Up => fuse = g
    /\ fuse # 0 => th[fuse] \in Up
    /\ mount = "served" => fuse # 0

\* A thread that has reset running can be overtaken by the next run, but that
\* run's thread has to wait for its lock.
Overtaken ==
    \A g \in Sessions :
        th[g] = "closed" /\ g # procfuseth => procfuseth # 0 /\ th[procfuseth] = "started"

FailureKnown ==
    procfuseth # 0 =>
        /\ th[procfuseth] \in {"ended", "joined"} => (running <=> failed)
        /\ th[procfuseth] \in {"looping", "stopped", "closing", "closed"} => ~failed
        /\ th[procfuseth] = "closed" => ~running

DeadIsBlank == ~live => \A g \in Sessions : th[g] = "none"

IInv ==
    /\ TypeOK
    /\ OneActive
    /\ CheckStands
    /\ LockKnown
    /\ FuseKnown
    /\ Overtaken
    /\ FailureKnown
    /\ DeadIsBlank

-----------------------------------------------------------------------------
LEMMA SessionsAreNumbers ==
    /\ 0 \notin Sessions
    /\ NoThread \notin Sessions /\ NoThread \notin Callers
    /\ Owner \in Callers /\ Handler \in Callers
    /\ \A t \in Callers : t \notin Sessions /\ t # 0
BY LifecycleAssumption DEF Sessions, Callers

LEMMA InitInv == Init => IInv
BY SessionsAreNumbers DEF Init, Blank, IInv, TypeOK, OneActive, CheckStands, LockKnown, Active,
    Holding, FuseKnown, Overtaken, FailureKnown, DeadIsBlank, Up

LEMMA OwnerInv == ASSUME IInv, Ctor \/ RunCheck \/ Dtor \/ OwnerStep PROVE IInv'
<1> USE SessionsAreNumbers DEF IInv, TypeOK, OneActive, CheckStands, LockKnown, Active,
    Holding, FuseKnown, Overtaken, FailureKnown, DeadIsBlank, Up, svars
<1>1. CASE Ctor
  BY <1>1 DEF Ctor, Goes
<1>2. CASE RunCheck
  BY <1>2 DEF RunCheck, Starts, Goes
<1>3. CASE Dtor
  BY <1>3 DEF Dtor
<1>4. ASSUME NEW blocking \in BOOLEAN, Run(blocking) PROVE IInv'
  <2>1. pc[Owner] = "checked" /\ ~running
    BY <1>4 DEF Run, Goes
  <2>2. PICK g \in Sessions :
            /\ th[g] \in {"none", "joined"}
            /\ procfuseth' = g
            /\ th' = [th EXCEPT ![g] = "started"]
            /\ exited' = exited \ {g} /\ asked' = asked \ {g}
    BY <1>4 DEF Run
  <2>3. /\ running' = TRUE
        /\ pc' = [pc EXCEPT ![Owner] = IF blocking THEN "joining" ELSE "idle"]
        /\ UNCHANGED <<live, fuse, fuselock, failed, mount, then, on>>
    BY <1>4 DEF Run, Goes
  <2>4. live
    BY <2>1
  <2>5. TypeOK'
    BY <2>2, <2>3
  <2>6. OneActive' /\ FuseKnown' /\ FailureKnown' /\ DeadIsBlank'
    BY <2>1, <2>2, <2>3, <2>4
  <2>7. CheckStands' /\ LockKnown' /\ Overtaken'
    BY <2>2, <2>3
  <2> QED  BY <2>5, <2>6, <2>7
<1>5. CASE RunJoin
  BY <1>5 DEF RunJoin, Joinable, Goes
<1>6. CASE DtorRetry
  BY <1>6 DEF DtorRetry, Goes
<1>7. CASE DtorFree
  BY <1>7 DEF DtorFree, Joined, Joinable, Goes
<1> QED  BY <1>1, <1>2, <1>3, <1>4, <1>5, <1>6, <1>7 DEF OwnerStep

LEMMA TeardownInv ==
    ASSUME IInv, NEW t \in Callers, Teardown(t) \/ TeardownStep(t) PROVE IInv'
<1> USE SessionsAreNumbers DEF IInv, TypeOK, OneActive, CheckStands, LockKnown, Active,
    Holding, FuseKnown, Overtaken, FailureKnown, DeadIsBlank, Up, svars
<1>1. CASE Teardown(t)
  BY <1>1 DEF Teardown, Interrupted, Goes
<1>2. CASE TeardownLock(t)
  BY <1>2 DEF TeardownLock, Goes
<1>3. CASE TeardownExit(t)
  BY <1>3 DEF TeardownExit, Exits, Goes
<1>4. CASE TeardownStat(t)
  BY <1>4 DEF TeardownStat, Goes
<1> QED  BY <1>1, <1>2, <1>3, <1>4 DEF TeardownStep

LEMMA ThreadInv ==
    ASSUME IInv, NEW g \in Sessions, ThreadStep(g) \/ Unmounted(g) PROVE IInv'
<1> USE SessionsAreNumbers DEF IInv, TypeOK, OneActive, CheckStands, LockKnown, Active,
    Holding, FuseKnown, Overtaken, FailureKnown, DeadIsBlank, Up
<1>1. CASE ThreadLock(g)
  BY <1>1 DEF ThreadLock
<1>2. CASE Mask(g)
  BY <1>2 DEF Mask
<1>3. CASE SetupDone(g)
  BY <1>3 DEF SetupDone
<1>4. CASE SetupFails(g)
  BY <1>4 DEF SetupFails
<1>5. CASE LoopExit(g)
  BY <1>5 DEF LoopExit
<1>6. CASE Unmounted(g)
  BY <1>6 DEF Unmounted
<1>7. CASE Close(g)
  BY <1>7 DEF Close, AfterTeardown, RunningAfterLoop
<1>8. CASE ThreadEnd(g)
  BY <1>8 DEF ThreadEnd
<1> QED  BY <1>1, <1>2, <1>3, <1>4, <1>5, <1>6, <1>7, <1>8 DEF ThreadStep

LEMMA CrashInv == ASSUME IInv, Crash PROVE IInv'
BY SessionsAreNumbers DEF Crash, Blank, IInv, TypeOK, OneActive, CheckStands, LockKnown, Active,
    Holding, FuseKnown, Overtaken, FailureKnown, DeadIsBlank, Up

LEMMA StutterInv == ASSUME IInv, UNCHANGED vars PROVE IInv'
BY DEF vars, svars, IInv, TypeOK, OneActive, CheckStands, LockKnown, Active,
    Holding, FuseKnown, Overtaken, FailureKnown, DeadIsBlank, Up

\* The conjunction of the parts above is an invariant.
THEOREM Invariant == Spec => []IInv
<1>1. IInv /\ [Next]_vars => IInv'
  BY OwnerInv, TeardownInv, ThreadInv, CrashInv, StutterInv DEF Next
<1> QED  BY InitInv, <1>1, PTL DEF Spec

\* The variables of Lifecycle have their types.
THEOREM TypeCorrect == Spec => []TypeOK
<1>1. IInv => TypeOK
  BY DEF IInv
<1> QED  BY Invariant, <1>1, PTL

\* A session that is served or torn down is pf->fuse, and running is set.
THEOREM OneSession == Spec => []OwnSession
<1>1. IInv => OwnSession
  BY DEF IInv, OneActive, Active, FuseKnown, Up, OwnSession
<1> QED  BY Invariant, <1>1, PTL

\* After a session that was served and ended, run is not refused.
THEOREM EndedRunsAgain == Spec => []RunsAgain
<1>1. IInv => RunsAgain
  BY DEF IInv, FailureKnown, RunsAgain
<1> QED  BY Invariant, <1>1, PTL

\* dtor frees nothing that a fuse thread still uses.
THEOREM FreedLast == Spec => []FreedAfterThread
<1>1. IInv => FreedAfterThread
  <2> SUFFICES ASSUME IInv, ~live PROVE fuse = 0 /\ mount # "served" /\ \A g \in Sessions : th[g] = "none"
    BY DEF FreedAfterThread
  <2>1. \A g \in Sessions : th[g] = "none"
    BY DEF IInv, DeadIsBlank
  <2>2. fuse = 0
    BY <2>1 DEF IInv, FuseKnown, TypeOK, Up
  <2> QED  BY <2>1, <2>2 DEF IInv, FuseKnown
<1> QED  BY Invariant, <1>1, PTL
=============================================================================
