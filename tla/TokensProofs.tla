---------------------------- MODULE TokensProofs ----------------------------
(***************************************************************************)
(* Theorems about the credentials of one account, for every set of tasks,  *)
(* every kind of source, and every bound on versions, deletions and        *)
(* restarts.                                                               *)
(***************************************************************************)
EXTENDS Tokens, TLAPS

\* Where a reload may be, and a refresh().
ReloadPCs == {"idle", "loading", "comparing", "queued", "done"}
RefreshPCs == PCs \ {"loading", "comparing"}

\* A lock and the task inside it know each other, and a task works with a lock
\* that has been handed out.
LocksAgree ==
    /\ \A t \in Tasks : pc[t] \in InsidePCs => holder[lock[t]] = t
    /\ \A l \in Locks : holder[l] # NoTask
         => pc[holder[l]] \in InsidePCs /\ lock[holder[l]] = l
    /\ \A t \in Tasks : lock[t] <= drops

\* Each kind of task stays on its own path.
OwnPaths ==
    /\ \A t \in Reloads : pc[t] \in ReloadPCs
    /\ \A t \in Tasks \ Reloads : pc[t] \in RefreshPCs

LockInv == TokensTypeOK /\ LocksAgree /\ OwnPaths

LEMMA LockInit == Init => LockInv
<1> SUFFICES ASSUME Init PROVE LockInv
  OBVIOUS
<1> USE TokensAssumption DEF Init, NoTasksYet
<1>1. 0 \in Versions /\ 0 \in Locks /\ 0 \in 0..MaxCrashes
  BY DEF Versions, Locks
<1>2. TokensTypeOK
  BY <1>1 DEF TokensTypeOK, PCs, Ages
<1>3. LocksAgree
  BY <1>1 DEF LocksAgree, InsidePCs
<1>4. OwnPaths
  BY DEF OwnPaths, ReloadPCs, RefreshPCs, PCs, Tasks
<1>5. QED
  BY <1>2, <1>3, <1>4 DEF LockInv

\* The parts of LockInv that entering and leaving a lock can disturb.
TaskInv ==
    /\ holder \in [Locks -> Tasks \cup {NoTask}]
    /\ pc \in [Tasks -> PCs]
    /\ lock \in [Tasks -> Locks]
    /\ forced \in [Tasks -> BOOLEAN]
    /\ before \in [Tasks -> Versions]
    /\ carried \in [Tasks -> Versions]
    /\ ok \in [Tasks -> BOOLEAN]
    /\ LocksAgree
    /\ OwnPaths

\* Leaving refresh() or the reload, from wherever it was, keeps the locks
\* consistent.
LEMMA ReturnKeeps ==
  ASSUME TaskInv, drops \in Locks, drops' = drops, NEW t \in Tasks,
         NEW result \in BOOLEAN, Return(t, result)
  PROVE  TaskInv'
<1> USE TokensAssumption DEF TaskInv, Return, Goto
<1>1. /\ (holder \in [Locks -> Tasks \cup {NoTask}])'
      /\ (pc \in [Tasks -> PCs])'
      /\ (lock \in [Tasks -> Locks])'
      /\ (forced \in [Tasks -> BOOLEAN])'
      /\ (before \in [Tasks -> Versions])'
      /\ (carried \in [Tasks -> Versions])'
      /\ (ok \in [Tasks -> BOOLEAN])'
  BY DEF PCs, Locks, Versions
<1>2. LocksAgree'
  BY DEF LocksAgree, InsidePCs, Locks, PCs
<1>3. OwnPaths'
  BY DEF OwnPaths, ReloadPCs, RefreshPCs, PCs
<1>4. QED
  BY <1>1, <1>2, <1>3

\* The body of the lock is entered by one task alone.
LEMMA ProceedKeeps ==
  ASSUME TaskInv, drops \in Locks, drops' = drops, NEW t \in Tasks \ Reloads,
         NEW l \in Locks, l <= drops, holder[l] = NoTask,
         pc[t] \notin InsidePCs, NEW force \in BOOLEAN, NEW seen \in Versions,
         Proceed(t, l, force, seen)
  PROVE  TaskInv'
<1> USE TokensAssumption DEF TaskInv
<1>1. CASE Return(t, TRUE) \/ Return(t, FALSE)
  BY <1>1, ReturnKeeps
<1>2. CASE /\ \/ Goto(t, "reading")
              \/ Goto(t, "posting")
           /\ holder' = [holder EXCEPT ![l] = t]
           /\ Keep(t, l, force, seen)
  <2> USE <1>2 DEF Goto, Keep
  <2>1. /\ (holder \in [Locks -> Tasks \cup {NoTask}])'
        /\ (pc \in [Tasks -> PCs])'
        /\ (lock \in [Tasks -> Locks])'
        /\ (forced \in [Tasks -> BOOLEAN])'
        /\ (before \in [Tasks -> Versions])'
        /\ (carried \in [Tasks -> Versions])'
        /\ (ok \in [Tasks -> BOOLEAN])'
    BY DEF PCs
  <2>2. LocksAgree'
    <3>1. pc'[t] \in InsidePCs /\ lock'[t] = l /\ holder'[l] = t
      BY DEF InsidePCs
    <3>2. ASSUME NEW u \in Tasks, pc'[u] \in InsidePCs
          PROVE  holder'[lock'[u]] = u
      BY <3>1, <3>2 DEF LocksAgree
    <3>3. ASSUME NEW k \in Locks, holder'[k] # NoTask
          PROVE  pc'[holder'[k]] \in InsidePCs /\ lock'[holder'[k]] = k
      <4>1. k # l => holder[k] # t
        BY <3>3 DEF LocksAgree
      <4>2. QED
        BY <3>1, <3>3, <4>1 DEF LocksAgree
    <3>4. \A u \in Tasks : lock'[u] <= drops'
      BY DEF LocksAgree
    <3>5. QED
      BY <3>2, <3>3, <3>4 DEF LocksAgree
  <2>3. OwnPaths'
    BY DEF OwnPaths, ReloadPCs, RefreshPCs, PCs, Tasks
  <2>4. QED
    BY <2>1, <2>2, <2>3
<1>3. QED
  BY <1>1, <1>2 DEF Proceed

LEMMA EnterKeeps ==
  ASSUME TaskInv, drops \in Locks, drops' = drops, token \in Versions,
         NEW t \in Tasks \ Reloads, pc[t] \notin InsidePCs,
         NEW force \in BOOLEAN, Enter(t, force)
  PROVE  TaskInv'
<1>1. CASE LockIsFree(drops)
  <2>1. drops <= drops /\ holder[drops] = NoTask
    BY <1>1 DEF LockIsFree, Locks
  <2>2. QED
    BY <1>1, <2>1, ProceedKeeps DEF Enter
<1>2. CASE ~LockIsFree(drops)
  <2>1. /\ pc' = [pc EXCEPT ![t] = "queued"] /\ lock' = [lock EXCEPT ![t] = drops]
        /\ forced' = [forced EXCEPT ![t] = force] /\ before' = [before EXCEPT ![t] = token]
        /\ carried' = carried /\ ok' = ok /\ holder' = holder
    BY <1>2 DEF Enter, Goto, Keep
  <2>2. /\ (holder \in [Locks -> Tasks \cup {NoTask}])'
        /\ (pc \in [Tasks -> PCs])'
        /\ (lock \in [Tasks -> Locks])'
        /\ (forced \in [Tasks -> BOOLEAN])'
        /\ (before \in [Tasks -> Versions])'
        /\ (carried \in [Tasks -> Versions])'
        /\ (ok \in [Tasks -> BOOLEAN])'
    BY <2>1 DEF TaskInv, PCs
  <2>3. /\ pc'[t] = "queued" /\ lock'[t] = drops
        /\ \A v \in Tasks \ {t} : pc'[v] = pc[v] /\ lock'[v] = lock[v]
    BY <2>1 DEF TaskInv
  <2>4. LocksAgree'
    <3>1. \A k \in Locks : holder[k] # t
      BY TokensAssumption DEF TaskInv, LocksAgree
    <3>2. "queued" \notin InsidePCs /\ drops <= drops
      BY DEF InsidePCs, Locks
    <3>3. holder \in [Locks -> Tasks \cup {NoTask}] /\ LocksAgree
      BY DEF TaskInv
    <3>4. QED
      BY <2>1, <2>3, <3>1, <3>2, <3>3 DEF LocksAgree
  <2>5. OwnPaths'
    <3>1. "queued" \in RefreshPCs
      BY DEF RefreshPCs, PCs
    <3>2. QED
      BY <2>3, <3>1 DEF TaskInv, OwnPaths, Tasks
  <2>6. QED
    BY <2>2, <2>4, <2>5 DEF TaskInv
<1>3. QED
  BY <1>1, <1>2

\* The rest of the types.
CredentialsTypeOK ==
    /\ kind \in Sources
    /\ token \in Versions /\ source \in Versions /\ latest \in Versions
    /\ age \in [Versions -> Ages]
    /\ drops \in Locks
    /\ stray \subseteq Versions
    /\ lost \in BOOLEAN
    /\ phase \in {"running", "cancelling", "closed"}
    /\ crashes \in 0..MaxCrashes

LEMMA LockInvParts == LockInv <=> CredentialsTypeOK /\ TaskInv
  BY DEF LockInv, TokensTypeOK, CredentialsTypeOK, TaskInv

\* A task moves on inside its lock.
LEMMA MoveKeeps ==
  ASSUME TaskInv, UNCHANGED drops, NEW t \in Tasks \ Reloads,
         NEW label \in InsidePCs, pc[t] \in InsidePCs, Goto(t, label),
         UNCHANGED <<holder, lock, forced, before, ok>>,
         carried' \in [Tasks -> Versions]
  PROVE  TaskInv'
  BY DEF TaskInv, LocksAgree, OwnPaths, ReloadPCs, RefreshPCs, InsidePCs, PCs,
     Goto, Tasks

\* A task moves on that is in no lock.
LEMMA WaitKeeps ==
  ASSUME TaskInv, UNCHANGED drops, NEW t \in Tasks, NEW label \in PCs,
         pc[t] \notin InsidePCs, label \notin InsidePCs, Goto(t, label),
         label \in IF t \in Reloads THEN ReloadPCs ELSE RefreshPCs,
         UNCHANGED <<holder, forced, before, ok>>,
         lock' = lock \/ lock' = [lock EXCEPT ![t] = drops], drops \in Locks,
         carried' \in [Tasks -> Versions]
  PROVE  TaskInv'
<1> USE TokensAssumption DEF TaskInv, Goto
<1>1. /\ (pc \in [Tasks -> PCs])'
      /\ (lock \in [Tasks -> Locks])'
  OBVIOUS
<1>2. LocksAgree'
  <2>1. pc'[t] \notin InsidePCs /\ \A k \in Locks : holder[k] # t
    BY DEF LocksAgree
  <2>2. \A u \in Tasks \ {t} : pc'[u] = pc[u] /\ lock'[u] = lock[u]
    OBVIOUS
  <2>3. lock'[t] <= drops
    BY DEF LocksAgree, Locks
  <2>4. ASSUME NEW k \in Locks, holder[k] # NoTask
        PROVE  holder[k] \in Tasks \ {t}
    BY <2>1, <2>4
  <2>5. QED
    BY <2>1, <2>2, <2>3, <2>4 DEF LocksAgree
<1>3. OwnPaths'
  BY DEF OwnPaths, Tasks
<1>4. QED
  BY <1>1, <1>2, <1>3

LEMMA LockStep == LockInv /\ [Next]_vars => LockInv'
<1> SUFFICES ASSUME CredentialsTypeOK, TaskInv, [Next]_vars
             PROVE  CredentialsTypeOK' /\ TaskInv'
  BY LockInvParts DEF LockInv, TokensTypeOK, CredentialsTypeOK, TaskInv
<1> DEFINE Kept == CredentialsTypeOK' /\ TaskInv'
<1>u. /\ \A t \in Tasks : pc[t] \in {"loading", "comparing"} => t \in Reloads
      /\ \A t \in Tasks : pc[t] \in InsidePCs => t \notin Reloads
  BY DEF TaskInv, OwnPaths, ReloadPCs, RefreshPCs, InsidePCs, Tasks
<1>v. carried \in [Tasks -> Versions] /\ token \in Versions /\ source \in Versions
  BY DEF CredentialsTypeOK, TaskInv
<1>w. drops \in Locks
  BY DEF CredentialsTypeOK
<1> USE TokensAssumption DEF diskVars, taskVars, locals
<1>1. ASSUME NEW t \in Tasks, Call(t) PROVE Kept
  <2>1. t \in Tasks \ Reloads /\ pc[t] \notin InsidePCs
    BY <1>1 DEF Call, InsidePCs
  <2>2. TaskInv'
    BY <1>1, <1>v, <1>w, <2>1, EnterKeeps DEF Call
  <2>3. QED
    BY <1>1, <2>2 DEF Call, CredentialsTypeOK
<1>2. ASSUME NEW t \in Tasks, LoopSpawns(t) PROVE Kept
  <2>1. TaskInv'
    BY <1>2, <1>v, <1>w, WaitKeeps
    DEF LoopSpawns, InsidePCs, PCs, ReloadPCs, RefreshPCs
  <2>2. QED
    BY <1>2, <2>1 DEF LoopSpawns, CredentialsTypeOK
<1>3. ASSUME NEW t \in Tasks, TakePermit(t) PROVE Kept
  <2>1. t \in Tasks \ Reloads /\ pc[t] \notin InsidePCs
    BY <1>3 DEF TakePermit, InsidePCs, TaskInv, OwnPaths, ReloadPCs
  <2>2. TaskInv'
    BY <1>3, <1>v, <1>w, <2>1, EnterKeeps DEF TakePermit
  <2>3. QED
    BY <1>3, <2>2 DEF TakePermit, CredentialsTypeOK
<1>4. ASSUME NEW t \in Tasks, GetLock(t) PROVE Kept
  <2>1. t \in Tasks \ Reloads /\ pc[t] \notin InsidePCs
    BY <1>4 DEF GetLock, InsidePCs
  <2>2. /\ lock[t] \in Locks /\ lock[t] <= drops
        /\ forced[t] \in BOOLEAN /\ before[t] \in Versions
    BY DEF TaskInv, LocksAgree
  <2>3. TaskInv'
    BY <1>4, <1>w, <2>1, <2>2, ProceedKeeps DEF GetLock
  <2>4. QED
    BY <1>4, <2>3 DEF GetLock, CredentialsTypeOK
<1>5. ASSUME NEW t \in Tasks, PostSucceeds(t) PROVE Kept
  <2>1. pc[t] \in InsidePCs /\ t \in Tasks \ Reloads
    BY <1>5, <1>u DEF PostSucceeds, Posting, InsidePCs
  <2>2. CASE Return(t, TRUE)
    <3>1. TaskInv'
      BY <1>5, <1>w, <2>2, ReturnKeeps DEF PostSucceeds
    <3>2. latest + 1 \in Versions
      BY <1>5 DEF PostSucceeds, CredentialsTypeOK, Versions
    <3>3. QED
      BY <1>5, <3>1, <3>2 DEF PostSucceeds, CredentialsTypeOK
  <2>3. CASE Goto(t, "parsing") /\ UNCHANGED <<source, lost, holder, locals, ok>>
    <3>1. TaskInv'
      BY <1>5, <1>v, <2>1, <2>3, MoveKeeps DEF PostSucceeds, InsidePCs
    <3>2. QED
      BY <1>5, <2>3, <3>1 DEF PostSucceeds, CredentialsTypeOK, Versions
  <2>4. QED
    BY <1>5, <2>2, <2>3 DEF PostSucceeds
<1>6. ASSUME NEW t \in Tasks, PostFails(t) PROVE Kept
  <2>1. pc[t] \in InsidePCs /\ t \in Tasks \ Reloads
    BY <1>6, <1>u DEF PostFails, Posting, InsidePCs
  <2>2. TaskInv'
    BY <1>6, <1>v, <2>1, MoveKeeps DEF PostFails, InsidePCs
  <2>3. QED
    BY <1>6, <2>2 DEF PostFails, CredentialsTypeOK
<1>7. ASSUME NEW t \in Tasks, Parsed(t) PROVE Kept
  <2>1. pc[t] \in InsidePCs /\ t \in Tasks \ Reloads
    BY <1>7, <1>u DEF Parsed, InsidePCs
  <2>2. carried' \in [Tasks -> Versions]
    BY <1>7, <1>v DEF Parsed
  <2>3. TaskInv'
    BY <1>7, <2>1, <2>2, MoveKeeps DEF Parsed, InsidePCs
  <2>4. QED
    BY <1>7, <2>3 DEF Parsed, CredentialsTypeOK
<1>8. ASSUME NEW t \in Tasks, Written(t) \/ PersistFails(t) PROVE Kept
  <2>1. Return(t, TRUE) /\ UNCHANGED drops
    BY <1>8 DEF Written, PersistFails
  <2>2. TaskInv'
    BY <1>w, <2>1, ReturnKeeps
  <2>3. QED
    BY <1>8, <1>v, <2>2 DEF Written, PersistFails, CredentialsTypeOK
<1>9. ASSUME NEW t \in Tasks, SourceRead(t) PROVE Kept
  <2>1. pc[t] \in InsidePCs /\ t \in Tasks \ Reloads
    BY <1>9, <1>u DEF SourceRead, InsidePCs
  <2>2. CASE Return(t, FALSE)
    BY <1>9, <1>w, <2>2, ReturnKeeps DEF SourceRead, CredentialsTypeOK
  <2>3. CASE /\ carried' = [carried EXCEPT ![t] = source]
             /\ Goto(t, "applying")
             /\ UNCHANGED <<holder, lock, forced, before, ok>>
    <3>1. carried' \in [Tasks -> Versions]
      BY <1>v, <2>3
    <3>2. TaskInv'
      BY <1>9, <2>1, <2>3, <3>1, MoveKeeps DEF SourceRead, InsidePCs
    <3>3. QED
      BY <1>9, <3>2 DEF SourceRead, CredentialsTypeOK
  <2>4. QED
    BY <1>9, <2>2, <2>3 DEF SourceRead
<1>10. ASSUME NEW t \in Tasks, SourceApplied(t) \/ ReloadApplies(t) PROVE Kept
  <2>1. /\ Return(t, TRUE) \/ Return(t, FALSE)
        /\ UNCHANGED drops
        /\ token' \in Versions
    BY <1>10, <1>v DEF SourceApplied, ReloadApplies
  <2>2. TaskInv'
    BY <1>w, <2>1, ReturnKeeps
  <2>3. QED
    BY <1>10, <2>1, <2>2 DEF SourceApplied, ReloadApplies, CredentialsTypeOK
<1>11. ASSUME NEW t \in Tasks, ReloadStarts(t) PROVE Kept
  <2>1. TaskInv'
    BY <1>11, <1>v, <1>w, WaitKeeps DEF ReloadStarts, InsidePCs, PCs, ReloadPCs
  <2>2. QED
    BY <1>11, <2>1 DEF ReloadStarts, CredentialsTypeOK
<1>12. ASSUME NEW t \in Tasks, ReloadReads(t) PROVE Kept
  <2>1. CASE Return(t, FALSE)
    BY <1>12, <1>w, <2>1, ReturnKeeps DEF ReloadReads, CredentialsTypeOK
  <2>2. CASE /\ carried' = [carried EXCEPT ![t] = source]
             /\ Goto(t, "comparing")
             /\ UNCHANGED <<holder, lock, forced, before, ok>>
    <3>1. carried' \in [Tasks -> Versions] /\ pc[t] = "loading" /\ t \in Reloads
      BY <1>12, <1>u, <1>v, <2>2 DEF ReloadReads
    <3>2. TaskInv'
      BY <1>12, <1>w, <2>2, <3>1, WaitKeeps
      DEF ReloadReads, InsidePCs, PCs, ReloadPCs
    <3>3. QED
      BY <1>12, <3>2 DEF ReloadReads, CredentialsTypeOK
  <2>3. QED
    BY <1>12, <2>1, <2>2 DEF ReloadReads
<1>13. ASSUME NEW t \in Tasks, ReloadCompares(t) PROVE Kept
  <2>1. CASE Return(t, TRUE) \/ Return(t, FALSE)
    <3>1. token' \in Versions /\ UNCHANGED drops
      BY <1>13, <1>v DEF ReloadCompares
    <3>2. TaskInv'
      BY <1>w, <2>1, <3>1, ReturnKeeps
    <3>3. QED
      BY <1>13, <3>1, <3>2 DEF ReloadCompares, CredentialsTypeOK
  <2>2. CASE /\ Goto(t, "queued")
             /\ lock' = [lock EXCEPT ![t] = drops]
             /\ UNCHANGED <<token, holder, forced, before, carried, ok>>
    <3>1. pc[t] = "comparing" /\ t \in Reloads /\ UNCHANGED drops
      BY <1>13, <1>u DEF ReloadCompares
    <3>2. TaskInv'
      BY <1>v, <1>w, <2>2, <3>1, WaitKeeps DEF InsidePCs, PCs, ReloadPCs
    <3>3. QED
      BY <1>13, <2>2, <3>2 DEF ReloadCompares, CredentialsTypeOK
  <2>3. QED
    BY <1>13, <2>1, <2>2 DEF ReloadCompares
<1>14. ASSUME NEW t \in Tasks, Cancel(t) PROVE Kept
  <2>1. Return(t, FALSE) /\ UNCHANGED drops
    BY <1>14 DEF Cancel
  <2>2. TaskInv'
    BY <1>w, <2>1, ReturnKeeps
  <2>3. QED
    BY <1>14, <1>v, <2>2 DEF Cancel, CredentialsTypeOK
<1>15. ASSUME NEW v \in Versions, StrayLands(v) PROVE Kept
  BY <1>15 DEF StrayLands, CredentialsTypeOK, TaskInv, LocksAgree, OwnPaths
<1>16. ASSUME NEW v \in Versions, GrowsOlder(v) PROVE Kept
  BY <1>16 DEF GrowsOlder, CredentialsTypeOK, Ages, TaskInv, LocksAgree, OwnPaths
<1>17. CASE DropLock
  <2>1. drops' \in Locks /\ \A l \in Locks : l <= drops => l <= drops'
    BY <1>17, <1>w DEF DropLock, Locks
  <2>2. QED
    BY <1>17, <2>1 DEF DropLock, CredentialsTypeOK, TaskInv, LocksAgree, OwnPaths
<1>18. CASE Shutdown \/ CloseClient \/ Import
  <2>1. Import => latest + 1 \in Versions
    BY DEF Import, CredentialsTypeOK, Versions
  <2>2. CredentialsTypeOK'
    BY <1>18, <2>1 DEF Shutdown, CloseClient, Import, CredentialsTypeOK
  <2>3. TaskInv'
    BY <1>18 DEF Shutdown, CloseClient, Import, TaskInv, LocksAgree, OwnPaths
  <2>4. QED
    BY <2>2, <2>3
<1>19. CASE Crash
  <2>1. 0 \in Versions /\ 0 \in Locks /\ crashes' \in 0..MaxCrashes
    BY <1>19 DEF Crash, CredentialsTypeOK, Versions, Locks
  <2>2. CredentialsTypeOK'
    BY <1>19, <2>1 DEF Crash, CredentialsTypeOK
  <2>3. TaskInv'
    BY <1>19, <2>1 DEF Crash, TaskInv, LocksAgree, InsidePCs, OwnPaths, PCs,
       ReloadPCs, RefreshPCs, Tasks
  <2>4. QED
    BY <2>2, <2>3
<1>20. CASE UNCHANGED vars
  BY <1>20 DEF vars, CredentialsTypeOK, TaskInv, LocksAgree, OwnPaths
<1>21. QED
  BY <1>1, <1>2, <1>3, <1>4, <1>5, <1>6, <1>7, <1>8, <1>9, <1>10, <1>11, <1>12,
     <1>13, <1>14, <1>15, <1>16, <1>17, <1>18, <1>19, <1>20
  DEF Next, Step

LEMMA LocksKept == Spec => []LockInv
  BY LockInit, LockStep, PTL DEF Spec

\* Every part of the state has its type, in every step of every task.
THEOREM TokensTypeCorrect == Spec => []TokensTypeOK
<1>1. LockInv => TokensTypeOK
  BY DEF LockInv
<1>2. QED
  BY <1>1, LocksKept, PTL

\* tokens.py:3: while the account is in the pool, no two refreshes of it are
\* under way at once, however calls, cancellations and restarts interleave.
THEOREM RefreshesExclude == Spec => []SingleFlight
<1>1. ASSUME LockInv PROVE SingleFlight
  <2> SUFFICES ASSUME drops = 0, NEW t \in Tasks, NEW u \in Tasks,
                      pc[t] \in InsidePCs, pc[u] \in InsidePCs
               PROVE  t = u
    BY DEF SingleFlight
  <2>1. lock[t] = 0 /\ lock[u] = 0
    BY <1>1, TokensAssumption DEF LockInv, TokensTypeOK, LocksAgree, Locks
  <2>2. QED
    BY <1>1, <2>1 DEF LockInv, LocksAgree
<1>2. QED
  BY <1>1, LocksKept, PTL
-----------------------------------------------------------------------------
(* Stampedes.                                                              *)

\* The token of an account that is in the pool changes only by the task inside
\* its lock.
LEMMA OthersLeaveTokenAlone ==
  ASSUME LockInv, drops = 0, NEW t \in Tasks, NEW u \in Tasks,
         pc[u] \in InsidePCs, t # u
  PROVE  pc[t] \notin InsidePCs /\ ~LockIsFree(0) /\ holder[lock[t]] # NoTask
<1>1. lock[t] = 0 /\ lock[u] = 0
  BY TokensAssumption DEF LockInv, TokensTypeOK, LocksAgree, Locks
<1>2. holder[0] = u
  BY <1>1 DEF LockInv, LocksAgree
<1>3. QED
  BY <1>1, <1>2, TokensAssumption DEF LockInv, LocksAgree, LockIsFree

\* The task of a step that posts after it: it either posted before, with the
\* same arguments, or has just found that there is something to do.
LEMMA ProceedLooks ==
  ASSUME TokensTypeOK, NEW t \in Tasks, NEW l \in Locks, NEW force \in BOOLEAN,
         NEW seen \in Versions, Proceed(t, l, force, seen),
         pc[t] # "posting", UNCHANGED <<token, age>>
  PROVE  /\ pc'[t] = "posting"
            => /\ forced'[t] = force /\ before'[t] = seen
               /\ ~NothingToDo(force, seen)
         /\ \A u \in Tasks \ {t} :
              pc'[u] = pc[u] /\ forced'[u] = forced[u] /\ before'[u] = before[u]
  BY DEF TokensTypeOK, Proceed, Return, Goto, Keep

\* A post that is not wasted.
Worthwhile(t) == IF forced[t] THEN token = before[t] \/ age[token] = "stale"
                              ELSE age[token] # "fresh"

LEMMA StampedeStep == LockInv /\ NoStampede /\ [Next]_vars => NoStampede'
<1> SUFFICES ASSUME LockInv, NoStampede, [Next]_vars, drops' = 0,
                    NEW u \in Tasks, pc'[u] = "posting"
             PROVE  Worthwhile(u)'
  BY DEF NoStampede, Worthwhile
<1> USE DEF diskVars, taskVars, locals
<1>t. TokensTypeOK
  BY DEF LockInv
<1>c. ~Crash
  BY DEF Crash
<1>d. drops = 0
  <2>1. ASSUME NEW t \in Tasks,
               \/ Call(t) \/ LoopSpawns(t) \/ ReloadStarts(t) \/ Step(t) \/ Cancel(t)
        PROVE  UNCHANGED drops
    BY <2>1
    DEF Step, Call, LoopSpawns, ReloadStarts, TakePermit, GetLock, PostSucceeds,
        PostFails, Parsed, Written, PersistFails, SourceRead, SourceApplied,
        ReloadReads, ReloadCompares, ReloadApplies, Cancel
  <2>2. ASSUME NEW v \in Versions, StrayLands(v) \/ GrowsOlder(v)
        PROVE  UNCHANGED drops
    BY <2>2 DEF StrayLands, GrowsOlder
  <2>3. CASE Shutdown \/ CloseClient \/ Import \/ UNCHANGED vars
    BY <2>3 DEF Shutdown, CloseClient, Import, vars
  <2>4. ~DropLock
    BY <1>t, TokensAssumption DEF DropLock, TokensTypeOK, Locks
  <2>5. QED
    BY <1>c, <2>1, <2>2, <2>3, <2>4 DEF Next
<1>s. ASSUME pc[u] = "posting", forced'[u] = forced[u], before'[u] = before[u],
             token' = token, age' = age
      PROVE  Worthwhile(u)'
  BY <1>d, <1>s DEF NoStampede, Worthwhile
<1>1. ASSUME NEW t \in Tasks, NEW l \in Locks, NEW force \in BOOLEAN,
             NEW seen \in Versions, Proceed(t, l, force, seen),
             pc[t] # "posting", UNCHANGED <<token, age>>
      PROVE  Worthwhile(u)'
  <2>1. CASE u = t
    BY <1>1, <1>t, <2>1, ProceedLooks DEF Worthwhile, NothingToDo
  <2>2. CASE u # t
    BY <1>1, <1>s, <1>t, <2>2, ProceedLooks
  <2>3. QED
    BY <2>1, <2>2
<1>2. ASSUME NEW t \in Tasks, Call(t) \/ TakePermit(t) PROVE Worthwhile(u)'
  <2>1. PICK force \in BOOLEAN : Enter(t, force)
    BY <1>2 DEF Call, TakePermit
  <2>2. pc[t] # "posting" /\ UNCHANGED <<token, age>>
    BY <1>2 DEF Call, TakePermit
  <2>3. CASE LockIsFree(drops)
    BY <1>1, <1>t, <2>1, <2>2, <2>3 DEF Enter, TokensTypeOK
  <2>4. CASE ~LockIsFree(drops)
    BY <1>s, <1>t, <2>1, <2>2, <2>4 DEF Enter, Goto, Keep, TokensTypeOK
  <2>5. QED
    BY <2>3, <2>4
<1>3. ASSUME NEW t \in Tasks, GetLock(t) PROVE Worthwhile(u)'
  BY <1>1, <1>3, <1>t DEF GetLock, TokensTypeOK
<1>4. ASSUME NEW t \in Tasks,
             \/ LoopSpawns(t) \/ PostFails(t) \/ Parsed(t) \/ Written(t)
             \/ PersistFails(t) \/ SourceRead(t) \/ ReloadStarts(t)
             \/ ReloadReads(t) \/ Cancel(t)
      PROVE  Worthwhile(u)'
  BY <1>4, <1>s, <1>t
  DEF LoopSpawns, PostFails, Posting, Parsed, Written, PersistFails, SourceRead,
      ReloadStarts, ReloadReads, Cancel, Return, Goto, TokensTypeOK
<1>5. ASSUME NEW t \in Tasks, PostSucceeds(t) \/ SourceApplied(t)
      PROVE  Worthwhile(u)'
  <2>1. pc[t] \in InsidePCs /\ pc'[t] # "posting"
    BY <1>5, <1>t
    DEF PostSucceeds, Posting, SourceApplied, InsidePCs, Return, Goto, TokensTypeOK
  <2>2. u # t /\ pc[u] = pc'[u]
    BY <1>5, <1>t, <2>1
    DEF PostSucceeds, SourceApplied, Return, Goto, TokensTypeOK
  <2>3. QED
    BY <1>d, <2>1, <2>2, OthersLeaveTokenAlone DEF InsidePCs
<1>6. ASSUME NEW t \in Tasks, ReloadCompares(t) \/ ReloadApplies(t)
      PROVE  Worthwhile(u)'
  <2>1. u # t /\ pc[u] = "posting"
    BY <1>6, <1>t
    DEF ReloadCompares, ReloadApplies, Return, Goto, TokensTypeOK
  <2>2. ~LockIsFree(0) /\ holder[lock[t]] # NoTask
    BY <1>d, <2>1, OthersLeaveTokenAlone DEF InsidePCs
  <2>3. QED
    BY <1>6, <1>d, <1>s, <1>t, <2>1, <2>2
    DEF ReloadCompares, ReloadApplies, Return, Goto, TokensTypeOK
<1>7. ASSUME NEW v \in Versions, GrowsOlder(v) PROVE Worthwhile(u)'
  BY <1>7, <1>d, <1>t DEF GrowsOlder, NoStampede, Worthwhile, TokensTypeOK, Ages
<1>8. ASSUME NEW v \in Versions, StrayLands(v) PROVE Worthwhile(u)'
  BY <1>8, <1>s DEF StrayLands
<1>9. CASE DropLock \/ Shutdown \/ CloseClient \/ Import \/ UNCHANGED vars
  BY <1>9, <1>s DEF DropLock, Shutdown, CloseClient, Import, vars
<1>10. QED
  BY <1>c, <1>1, <1>2, <1>3, <1>4, <1>5, <1>6, <1>7, <1>8, <1>9 DEF Next, Step

\* tokens.py:161: while the account is in the pool a task posts only if the
\* token is the one it was called with, or is of no use.
THEOREM NoStampedes == Spec => []NoStampede
<1>1. Init => NoStampede
  BY DEF Init, NoTasksYet, NoStampede
<1>2. QED
  BY <1>1, StampedeStep, LocksKept, PTL DEF Spec
-----------------------------------------------------------------------------
(* What is on the disk.                                                    *)

\* No version is newer than the newest issued.
IssuedInv ==
    /\ token <= latest /\ source <= latest
    /\ \A t \in Tasks : carried[t] <= latest
    /\ \A v \in stray : v <= latest

\* A task goes by what it has read from the source, or is saving the token.
HasRead(t) == \/ pc[t] \in {"applying", "comparing"}
              \/ pc[t] = "queued" /\ t \in Reloads
Saves(t) == pc[t] = "parsing" \/ (pc[t] = "writing" /\ token <= carried[t])

\* Until a save is lost, the source only gains: whatever was read from it is
\* no newer than it, and a token it does not have is on its way.
SaveInv ==
    kind # "providers_json" /\ ~lost =>
      /\ stray = {}
      /\ \A t \in Tasks : HasRead(t) => carried[t] <= source
      /\ token <= source \/ \E t \in Tasks : Saves(t)

\* A task moves, and takes a version with it.
Moves(t, labels, values) ==
    /\ pc'[t] \in labels
    /\ carried'[t] \in values
    /\ \A u \in Tasks \ {t} : pc'[u] = pc[u] /\ carried'[u] = carried[u]

LEMMA ReturnMoves ==
  ASSUME TokensTypeOK, NEW t \in Tasks, NEW result, Return(t, result)
  PROVE  Moves(t, {"done"}, {0})
  BY DEF TokensTypeOK, Return, Goto, Moves

LEMMA EnterMoves ==
  ASSUME TokensTypeOK, OwnPaths, NEW t \in Tasks,
         Call(t) \/ TakePermit(t) \/ GetLock(t)
  PROVE  /\ Moves(t, {"done", "reading", "posting", "queued"}, {0, carried[t]})
         /\ pc'[t] = "queued" => pc[t] \in {"idle", "permit"} /\ t \notin Reloads
         /\ pc[t] \in {"idle", "permit", "queued"}
         /\ UNCHANGED <<kind, token, source, latest, stray, lost>>
<1> DEFINE Moved == Moves(t, {"done", "reading", "posting"}, {0, carried[t]})
<1>1. ASSUME NEW l, NEW force, NEW seen, Proceed(t, l, force, seen) PROVE Moved
  BY <1>1, ReturnMoves DEF Proceed, Goto, Keep, TokensTypeOK, Moves
<1>2. ASSUME NEW force, Enter(t, force)
      PROVE  Moved \/ Moves(t, {"queued"}, {carried[t]})
  BY <1>1, <1>2 DEF Enter, Goto, Keep, TokensTypeOK, Moves
<1>3. CASE Call(t) \/ TakePermit(t)
  <2>1. Moved \/ Moves(t, {"queued"}, {carried[t]})
    BY <1>2, <1>3 DEF Call, TakePermit
  <2>2. pc[t] \in {"idle", "permit"} /\ t \notin Reloads
    BY <1>3, TokensAssumption DEF Call, TakePermit, OwnPaths, ReloadPCs
  <2>3. QED
    BY <1>3, <2>1, <2>2 DEF Call, TakePermit, Moves, diskVars
<1>4. CASE GetLock(t)
  BY <1>1, <1>4 DEF GetLock, Moves, diskVars
<1>5. QED
  BY <1>3, <1>4

LEMMA IssuedStep ==
  ASSUME TokensTypeOK, TokensTypeOK', OwnPaths, IssuedInv, [Next]_vars
  PROVE  IssuedInv'
<1>n. /\ latest \in Nat /\ latest' \in Nat /\ token \in Nat /\ source \in Nat
      /\ \A t \in Tasks : carried[t] \in Nat
      /\ \A v \in stray : v \in Nat
  BY TokensAssumption DEF TokensTypeOK, Versions
<1>g. ASSUME latest <= latest',
             token' \in {token, source, latest'} \cup {carried[t] : t \in Tasks},
             source' \in {source, latest'} \cup {carried[t] : t \in Tasks} \cup stray,
             stray' \subseteq stray \cup {carried[t] : t \in Tasks},
             \A t \in Tasks : carried'[t] \in {0, carried[t], source, token}
      PROVE  IssuedInv'
  BY <1>n, <1>g DEF IssuedInv
<1> USE DEF diskVars, taskVars, locals
<1>1. ASSUME NEW t \in Tasks, Call(t) \/ TakePermit(t) \/ GetLock(t) PROVE IssuedInv'
  BY <1>1, <1>g, <1>n, EnterMoves DEF Moves
<1>2. ASSUME NEW t \in Tasks,
             PostSucceeds(t) \/ Written(t) \/ PersistFails(t)
      PROVE  IssuedInv'
  <2>1. \A u \in Tasks : carried'[u] \in {0, carried[u]}
    BY <1>2, ReturnMoves DEF PostSucceeds, Written, PersistFails, Moves
  <2>2. CASE PostSucceeds(t)
    <3>1. latest' = latest + 1 /\ source' \in {source, latest'} /\ token' = latest'
          /\ stray' = stray
      BY <2>2 DEF PostSucceeds
    <3>2. QED
      BY <1>g, <1>n, <2>1, <3>1
  <2>3. CASE Written(t) \/ PersistFails(t)
    <3>1. latest' = latest /\ token' = token /\ stray' = stray
          /\ source' \in {source, carried[t]}
      BY <2>3 DEF Written, PersistFails
    <3>2. QED
      BY <1>g, <1>n, <2>1, <3>1
  <2>4. QED
    BY <1>2, <2>2, <2>3
<1>3. ASSUME NEW t \in Tasks,
             LoopSpawns(t) \/ PostFails(t) \/ ReloadStarts(t) \/ Parsed(t)
      PROVE  IssuedInv'
  <2>1. \A u \in Tasks : carried'[u] \in {carried[u], token}
    BY <1>3 DEF LoopSpawns, PostFails, ReloadStarts, Parsed, TokensTypeOK
  <2>2. QED
    BY <1>3, <1>g, <1>n, <2>1 DEF LoopSpawns, PostFails, ReloadStarts, Parsed
<1>4. ASSUME NEW t \in Tasks,
             \/ SourceRead(t) \/ ReloadReads(t) \/ SourceApplied(t)
             \/ ReloadCompares(t) \/ ReloadApplies(t) \/ Cancel(t)
      PROVE  IssuedInv'
  <2>1. \A u \in Tasks : carried'[u] \in {0, carried[u], source}
    BY <1>4, ReturnMoves
    DEF SourceRead, ReloadReads, SourceApplied, ReloadCompares, ReloadApplies,
        Cancel, Moves, TokensTypeOK
  <2>2. /\ UNCHANGED <<latest, source>> /\ token' \in {token, carried[t]}
        /\ stray' \subseteq stray \cup {carried[t]}
    BY <1>4
    DEF SourceRead, ReloadReads, SourceApplied, ReloadCompares, ReloadApplies, Cancel
  <2>3. QED
    BY <1>g, <1>n, <2>1, <2>2
<1>5. ASSUME NEW v \in Versions, StrayLands(v) \/ GrowsOlder(v) PROVE IssuedInv'
  BY <1>5, <1>g, <1>n DEF StrayLands, GrowsOlder
<1>6. CASE DropLock \/ Shutdown \/ CloseClient \/ Import \/ UNCHANGED vars
  BY <1>6, <1>g, <1>n DEF DropLock, Shutdown, CloseClient, Import, vars
<1>7. CASE Crash
  BY <1>7, <1>g, <1>n DEF Crash
<1>8. QED
  BY <1>1, <1>2, <1>3, <1>4, <1>5, <1>6, <1>7 DEF Next, Step

LEMMA SaveStep ==
  ASSUME TokensTypeOK, TokensTypeOK', OwnPaths, IssuedInv, SaveInv, [Next]_vars
  PROVE  SaveInv'
<1> SUFFICES ASSUME kind' # "providers_json", ~lost' PROVE SaveInv'
  BY DEF SaveInv
<1>n. /\ latest \in Nat /\ token \in Nat /\ source \in Nat
      /\ token' \in Nat /\ source' \in Nat
      /\ token <= latest /\ source <= latest
      /\ \A t \in Tasks : carried[t] \in Nat
  BY TokensAssumption DEF TokensTypeOK, Versions, IssuedInv
<1>s. ASSUME kind' = kind, ~lost
      PROVE  /\ stray = {}
             /\ \A t \in Tasks : HasRead(t) => carried[t] <= source
             /\ token <= source \/ \E t \in Tasks : Saves(t)
  BY <1>s DEF SaveInv
\* The source does not lose what was read from it.
<1>g. ASSUME kind' = kind, ~lost, stray' = {}, source <= source',
             \A u \in Tasks : HasRead(u)' => \/ HasRead(u) /\ carried'[u] = carried[u]
                                            \/ carried'[u] = source,
             token' <= source' \/ \E u \in Tasks : Saves(u)'
      PROVE  SaveInv'
  <2>1. ASSUME NEW u \in Tasks, HasRead(u)' PROVE carried'[u] <= source'
    BY <1>g, <1>n, <1>s, <2>1
  <2>2. QED
    BY <1>g, <2>1 DEF SaveInv
\* A step of a task that saves nothing, and leaves the token alone.
<1>a. ASSUME NEW t \in Tasks, UNCHANGED <<kind, lost, token, source, stray>>,
             ~Saves(t),
             \A u \in Tasks \ {t} : pc'[u] = pc[u] /\ carried'[u] = carried[u],
             HasRead(t)' => \/ HasRead(t) /\ carried'[t] = carried[t]
                            \/ carried'[t] = source
      PROVE  SaveInv'
  <2>1. \A u \in Tasks \ {t} : (HasRead(u)' <=> HasRead(u)) /\ (Saves(u)' <=> Saves(u))
    BY <1>a DEF HasRead, Saves
  <2>2. token <= source \/ \E u \in Tasks \ {t} : Saves(u)
    BY <1>a, <1>s
  <2>3. QED
    BY <1>a, <1>g, <1>n, <1>s, <2>1, <2>2
<1> USE DEF diskVars, taskVars, locals
<1>1. ASSUME NEW t \in Tasks, Call(t) \/ TakePermit(t) \/ GetLock(t) PROVE SaveInv'
  BY <1>1, <1>a, EnterMoves DEF Moves, HasRead, Saves
<1>2. ASSUME NEW t \in Tasks, PostSucceeds(t) PROVE SaveInv'
  <2>1. /\ kind' = kind /\ stray' = stray /\ token' = latest + 1
        /\ source' \in {source, latest + 1}
    BY <1>2 DEF PostSucceeds
  <2>a. lost' = lost \/ lost' = TRUE
    BY <1>2 DEF PostSucceeds
  <2>b. ~lost
    BY <2>a
  <2>2. /\ \A u \in Tasks : HasRead(u)' => HasRead(u) /\ carried'[u] = carried[u]
        /\ source' = latest + 1 \/ pc'[t] = "parsing"
    BY <1>2, ReturnMoves
    DEF PostSucceeds, Posting, Moves, Goto, HasRead, TokensTypeOK
  <2>3. source <= source' /\ (source' = latest + 1 => token' <= source')
    BY <1>n, <2>1
  <2>4. pc'[t] = "parsing" => Saves(t)'
    BY DEF Saves
  <2>5. QED
    BY <1>g, <1>s, <2>1, <2>b, <2>2, <2>3, <2>4
<1>3. ASSUME NEW t \in Tasks, LoopSpawns(t) \/ PostFails(t) \/ ReloadStarts(t)
      PROVE  SaveInv'
  BY <1>3, <1>a
  DEF LoopSpawns, PostFails, Posting, ReloadStarts, Goto, HasRead, Saves, TokensTypeOK
<1>4. ASSUME NEW t \in Tasks, Parsed(t) PROVE SaveInv'
  <2>1. Saves(t)'
    BY <1>4, <1>n DEF Parsed, Goto, Saves, TokensTypeOK
  <2>2. \A u \in Tasks : HasRead(u)' => HasRead(u) /\ carried'[u] = carried[u]
    BY <1>4 DEF Parsed, Goto, HasRead, TokensTypeOK
  <2>3. QED
    BY <1>4, <1>g, <1>n, <1>s, <2>1, <2>2 DEF Parsed
<1>5. ASSUME NEW t \in Tasks, Written(t) PROVE SaveInv'
  <2>1. Moves(t, {"done"}, {0})
    BY <1>5, ReturnMoves DEF Written
  <2>2. /\ kind' = kind /\ ~lost /\ stray' = stray /\ token' = token
        /\ source' = carried[t] /\ source <= carried[t]
    <3>1. ~(lost \/ source > carried[t])
      BY <1>5, Zenon DEF Written
    <3>2. ~lost /\ source <= carried[t]
      BY <1>n, <3>1
    <3>3. QED
      BY <1>5, <3>2 DEF Written
  <2>3. \A u \in Tasks : HasRead(u)' => HasRead(u) /\ carried'[u] = carried[u]
    BY <2>1 DEF Moves, HasRead
  <2>4. \A u \in Tasks \ {t} : Saves(u)' <=> Saves(u)
    BY <2>1, <2>2 DEF Moves, Saves
  <2>5. pc[t] = "writing"
    BY <1>5 DEF Written
  <2>6. token' <= source' \/ \E u \in Tasks : Saves(u)'
    BY <1>n, <1>s, <2>2, <2>4, <2>5 DEF Saves
  <2>7. QED
    BY <1>g, <1>s, <2>2, <2>3, <2>6
<1>6. ASSUME NEW t \in Tasks, PersistFails(t) PROVE SaveInv'
  BY <1>6 DEF PersistFails
<1>7. ASSUME NEW t \in Tasks, Cancel(t) PROVE SaveInv'
  BY <1>7, <1>a, ReturnMoves DEF Cancel, Moves, HasRead, Saves, TokensTypeOK
<1>8. ASSUME NEW t \in Tasks, SourceRead(t) \/ ReloadReads(t) PROVE SaveInv'
  <2>1. /\ UNCHANGED <<kind, lost, token, source, stray>> /\ ~Saves(t)
        /\ Moves(t, {"done"}, {0}) \/ Moves(t, {"applying", "comparing"}, {source})
    BY <1>8, ReturnMoves DEF SourceRead, ReloadReads, Moves, Goto, Saves, TokensTypeOK
  <2>2. QED
    BY <1>a, <2>1 DEF Moves, HasRead
<1>9. ASSUME NEW t \in Tasks, SourceApplied(t) \/ ReloadApplies(t) PROVE SaveInv'
  <2>1. Moves(t, {"done"}, {0})
    BY <1>9, ReturnMoves DEF SourceApplied, ReloadApplies
  <2>2. UNCHANGED <<kind, lost, source, stray>> /\ token' \in {token, carried[t]}
    BY <1>9 DEF SourceApplied, ReloadApplies
  <2>3. HasRead(t) /\ ~Saves(t)
    BY <1>9 DEF SourceApplied, ReloadApplies, HasRead, Saves
  <2>4. CASE token' = token
    BY <1>a, <2>1, <2>2, <2>3, <2>4 DEF Moves, HasRead
  <2>5. CASE token' = carried[t]
    <3>1. \A u \in Tasks : HasRead(u)' => HasRead(u) /\ carried'[u] = carried[u]
      BY <2>1 DEF Moves, HasRead
    <3>2. QED
      BY <1>g, <1>n, <1>s, <2>2, <2>3, <2>5, <3>1
  <2>6. QED
    BY <2>2, <2>4, <2>5
<1>10. ASSUME NEW t \in Tasks, ReloadCompares(t) PROVE SaveInv'
  <2>1. UNCHANGED <<kind, lost, source, stray>> /\ HasRead(t) /\ ~Saves(t)
    BY <1>10 DEF ReloadCompares, HasRead, Saves
  <2>2. CASE Return(t, TRUE) \/ Return(t, FALSE)
    <3>1. Moves(t, {"done"}, {0}) /\ token' \in {token, carried[t]}
      BY <1>10, <2>2, ReturnMoves DEF ReloadCompares
    <3>2. CASE token' = token
      BY <1>a, <2>1, <3>1, <3>2 DEF Moves, HasRead
    <3>3. CASE token' = carried[t]
      <4>1. \A u \in Tasks : HasRead(u)' => HasRead(u) /\ carried'[u] = carried[u]
        BY <3>1 DEF Moves, HasRead
      <4>2. QED
        BY <1>g, <1>n, <1>s, <2>1, <3>3, <4>1
    <3>4. QED
      BY <3>1, <3>2, <3>3
  <2>3. CASE Goto(t, "queued") /\ UNCHANGED <<token, carried>>
    BY <1>a, <2>1, <2>3 DEF Goto, HasRead, TokensTypeOK
  <2>4. QED
    BY <1>10, <2>2, <2>3 DEF ReloadCompares
<1>11. ASSUME NEW v \in Versions, StrayLands(v) \/ GrowsOlder(v) PROVE SaveInv'
  <2>1. ~StrayLands(v)
    BY <1>11, <1>s DEF StrayLands
  <2>2. QED
    BY <1>11, <2>1 DEF GrowsOlder, SaveInv, HasRead, Saves
<1>12. CASE Import
  <2>1. \A u \in Tasks : HasRead(u)' => HasRead(u) /\ carried'[u] = carried[u]
    BY <1>12 DEF Import, HasRead
  <2>2. kind' = kind /\ ~lost /\ stray' = stray /\ source' = latest + 1 /\ token' = token
    BY <1>12 DEF Import
  <2>3. QED
    BY <1>g, <1>n, <1>s, <2>1, <2>2
<1>13. CASE DropLock \/ Shutdown \/ CloseClient \/ UNCHANGED vars
  BY <1>13 DEF DropLock, Shutdown, CloseClient, vars, SaveInv, HasRead, Saves
<1>14. CASE Crash
  BY <1>14, <1>n DEF Crash, SaveInv
<1>15. QED
  BY <1>1, <1>2, <1>3, <1>4, <1>5, <1>6, <1>7, <1>8, <1>9, <1>10, <1>11, <1>12,
     <1>13, <1>14
  DEF Next, Step

\* tokens.py:254: when no save is under way and none was lost, a restart finds a
\* token at least as new as the one in memory.
THEOREM SavesSurvive == Spec => []SavedWhenIdle
<1>1. Init => IssuedInv /\ SaveInv
  BY TokensAssumption DEF Init, NoTasksYet, IssuedInv, SaveInv, Versions
<1>2. LockInv /\ LockInv' /\ IssuedInv /\ SaveInv /\ [Next]_vars
        => IssuedInv' /\ SaveInv'
  BY IssuedStep, SaveStep DEF LockInv
<1>3. LockInv /\ SaveInv => SavedWhenIdle
  BY TokensAssumption
  DEF LockInv, TokensTypeOK, Versions, SaveInv, Saves, SavedWhenIdle
<1>4. QED
  BY <1>1, <1>2, <1>3, LocksKept, PTL DEF Spec
=============================================================================
