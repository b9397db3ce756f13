--------------------------- MODULE DesktopProofs ---------------------------
(***************************************************************************)
(* Theorems about the desktop processes and the self-update, for every     *)
(* set of processes and of updates, and every bound.                       *)
(***************************************************************************)
EXTENDS Desktop, FiniteSetTheorems, TLAPS

LEMMA AtMostOneElement ==
  ASSUME NEW S, \A x, y \in S : x = y
  PROVE  Cardinality(S) <= 1
<1>1. CASE S = {}
  BY <1>1, FS_EmptySet
<1>2. CASE S # {}
  <2>1. PICK x : S = {x}
    BY <1>2
  <2>2. QED
    BY <2>1, FS_Singleton
<1>3. QED
  BY <1>1, <1>2

\* Where a process is once it has taken the mutex for its own.
Hosting == {"hosting", "stranded", "serving", "leaving"}

\* At most one process is past the mutex, the one whose server never came up
\* included.
MutexHeldByOne ==
    \A p, q \in Processes : pc[p] \in Hosting /\ pc[q] \in Hosting => p = q

\* An update under way belongs to a process.
UpdateHasHost == \A u \in Updates : step[u] # "idle" => host[u] \in Processes

ProcessInv == DesktopTypeOK /\ MutexHeldByOne /\ UpdateHasHost

LEMMA ProcessInit == Init => ProcessInv
  BY DesktopAssumption
  DEF Init, ProcessInv, DesktopTypeOK, MutexHeldByOne, UpdateHasHost, Hosting,
      PCs, Steps, Files

LEMMA ProcessStep == ProcessInv /\ [Next]_vars => ProcessInv'
<1> SUFFICES ASSUME ProcessInv, [Next]_vars PROVE ProcessInv'
  OBVIOUS
<1> USE DesktopAssumption
    DEF ProcessInv, DesktopTypeOK, MutexHeldByOne, UpdateHasHost, Hosting, PCs,
        Steps, Files, Goto, GotoOnly, fileVars
<1>1. ASSUME NEW p \in Processes, CheckMutex(p) PROVE ProcessInv'
  <2>1. CASE AlreadyRunning(p)
    BY <1>1, <2>1 DEF CheckMutex
  <2>2. CASE ~AlreadyRunning(p)
    <3>1. \A q \in Processes \ {p} : pc[q] \notin Hosting
      BY <2>2 DEF AlreadyRunning, Alive
    <3>2. QED
      BY <1>1, <2>2, <3>1 DEF CheckMutex
  <2>3. QED
    BY <2>1, <2>2
<1>2. ASSUME NEW p \in Processes, SecondCopy(p) PROVE ProcessInv'
  BY <1>2 DEF SecondCopy
<1>3. ASSUME NEW p \in Processes, ServerUp(p) \/ ServerDown(p) PROVE ProcessInv'
  BY <1>3 DEF ServerUp, ServerDown
<1>4. ASSUME NEW p \in Processes,
             StrandedExit(p) \/ BoxClosed(p) \/ Shutdown(p)
      PROVE  ProcessInv'
  BY <1>4 DEF StrandedExit, BoxClosed, Shutdown
<1>5. ASSUME NEW p \in Processes, Ends(p), crashes' \in 0..MaxCrashes
      PROVE  ProcessInv'
  BY <1>5 DEF Ends
<1>6. ASSUME NEW p \in Processes, TimerFires(p) \/ WindowClosed(p) \/ Crash(p)
      PROVE  ProcessInv'
  <2>1. Ends(p) /\ crashes' \in 0..MaxCrashes
    BY <1>6 DEF TimerFires, WindowClosed, Crash
  <2>2. QED
    BY <1>5, <2>1
<1>7. ASSUME NEW p \in Processes, Launch(p) PROVE ProcessInv'
  BY <1>7 DEF Launch, Start
<1>8. ASSUME NEW p \in Processes, Check(p) PROVE ProcessInv'
  BY <1>8 DEF Check
<1>9. ASSUME NEW p \in Processes, NEW u \in Updates, BeginDownload(u, p)
      PROVE  ProcessInv'
  BY <1>9 DEF BeginDownload
<1>10. ASSUME NEW u \in Updates, Received(u) \/ DownloadFails(u) \/ Verify(u)
       PROVE  ProcessInv'
  BY <1>10 DEF Received, DownloadFails, Verify, Discard
<1>11. ASSUME NEW u \in Updates, Apply(u) PROVE ProcessInv'
  <2>1. host[u] \in Processes /\ pc[host[u]] \in {"serving", "leaving"}
    BY <1>11 DEF Apply, Answers
  <2>2. QED
    BY <1>11, <2>1 DEF Apply
<1>12. ASSUME NEW u \in Updates, PidGone(u) \/ Move(u) PROVE ProcessInv'
  BY <1>12 DEF PidGone, Move
<1>13. ASSUME NEW u \in Updates, Relaunch(u) PROVE ProcessInv'
  BY <1>13 DEF Relaunch, Start
<1>14. CASE UNCHANGED vars
  BY <1>14 DEF vars
<1>15. QED
  BY <1>1, <1>2, <1>3, <1>4, <1>6, <1>7, <1>8, <1>9, <1>10, <1>11, <1>12,
     <1>13, <1>14
  DEF Next, OwnStep, Swapper

\* However launches, swaps and exits interleave, one process at most is past
\* the mutex.
LEMMA ProcessesExclude == Spec => []ProcessInv
  BY ProcessInit, ProcessStep, PTL DEF Spec

\* gui_main.py:5: every part has its type, and two copies never run a gateway.
THEOREM OneGateway == Spec => []DesktopInv
<1>1. ASSUME ProcessInv PROVE AtMostOneGateway
  <2>1. \A p, q \in {r \in Processes : pc[r] \in {"hosting", "serving", "leaving"}} : p = q
    BY <1>1 DEF ProcessInv, MutexHeldByOne, Hosting
  <2>2. QED
    BY <2>1, AtMostOneElement DEF AtMostOneGateway
<1>2. ProcessInv => DesktopInv
  BY <1>1 DEF ProcessInv, DesktopInv
<1>3. QED
  BY <1>2, ProcessesExclude, PTL
-----------------------------------------------------------------------------
(* The self-update.                                                        *)

\* One doUpdate() at a time, in one page of the dashboard, until the swapper
\* has ended.
UpdatesTakeTurns ==
    \A u, v \in Updates : step[u] # "idle" /\ step[v] # "idle" => u = v

\* What is, and what may still become, ClineGateway.exe.
VerifiedInv ==
    /\ exe \in {"old", "new"}
    /\ \A p \in Processes : build[p] \in {"old", "new"}
    /\ \A u \in Updates : step[u] \in {"ready", "applied", "moving"} => newExe = "new"

LEMMA VerifiedStep ==
    /\ DesktopTypeOK /\ VerifiedInv
    /\ UpdatesTakeTurns /\ UpdatesTakeTurns'
    /\ [Next]_vars
    => VerifiedInv'
<1> SUFFICES ASSUME DesktopTypeOK, VerifiedInv, UpdatesTakeTurns,
                    UpdatesTakeTurns', [Next]_vars
             PROVE  VerifiedInv'
  OBVIOUS
<1> USE DEF DesktopTypeOK, VerifiedInv, UpdatesTakeTurns, Goto, GotoOnly, fileVars
<1>1. ASSUME NEW p \in Processes,
             \/ CheckMutex(p) \/ SecondCopy(p) \/ ServerUp(p) \/ ServerDown(p)
             \/ StrandedExit(p) \/ BoxClosed(p) \/ Shutdown(p) \/ Check(p)
      PROVE  VerifiedInv'
  BY <1>1 DEF CheckMutex, SecondCopy, ServerUp, ServerDown, StrandedExit,
     BoxClosed, Shutdown, Check
<1>2. ASSUME NEW p \in Processes, TimerFires(p) \/ WindowClosed(p) \/ Crash(p)
      PROVE  VerifiedInv'
  BY <1>2 DEF TimerFires, WindowClosed, Crash, Ends
<1>3. ASSUME NEW p \in Processes, Launch(p) PROVE VerifiedInv'
  BY <1>3 DEF Launch, Start
<1>4. ASSUME NEW p \in Processes, NEW u \in Updates, BeginDownload(u, p)
      PROVE  VerifiedInv'
  <2>1. step'[u] # "idle"
    BY <1>4 DEF BeginDownload
  <2>2. \A v \in Updates \ {u} : step[v] = "idle"
    BY <1>4, <2>1 DEF BeginDownload
  <2>3. QED
    BY <1>4, <2>2 DEF BeginDownload
<1>5. ASSUME NEW u \in Updates, Received(u) \/ DownloadFails(u)
      PROVE  VerifiedInv'
  <2>1. \A v \in Updates \ {u} : step[v] = "idle"
    BY <1>5 DEF Received, DownloadFails
  <2>2. QED
    BY <1>5, <2>1 DEF Received, DownloadFails, Discard
<1>6. ASSUME NEW u \in Updates, Verify(u) PROVE VerifiedInv'
  <2>1. \A v \in Updates \ {u} : step[v] = "idle"
    BY <1>6 DEF Verify
  <2>2. QED
    BY <1>6, <2>1 DEF Verify, Intact, Discard
<1>7. ASSUME NEW u \in Updates, Apply(u) \/ PidGone(u) PROVE VerifiedInv'
  BY <1>7 DEF Apply, PidGone
<1>8. ASSUME NEW u \in Updates, Move(u) PROVE VerifiedInv'
  <2>1. newExe = "new" /\ \A v \in Updates \ {u} : step[v] = "idle"
    BY <1>8 DEF Move
  <2>2. QED
    BY <1>8, <2>1 DEF Move
<1>9. ASSUME NEW u \in Updates, Relaunch(u) PROVE VerifiedInv'
  BY <1>9 DEF Relaunch, Start
<1>10. CASE UNCHANGED vars
  BY <1>10 DEF vars
<1>11. QED
  BY <1>1, <1>2, <1>3, <1>4, <1>5, <1>6, <1>7, <1>8, <1>9, <1>10
  DEF Next, OwnStep, Swapper

\* updater.py:164: as long as updates do not overlap, no process runs a build
\* that was cut short or does not match, through failed downloads, kills,
\* restarts and any number of updates in a row.
THEOREM VerifiedBuilds == Spec /\ []UpdatesTakeTurns => []OnlyVerifiedBuildsRun
<1>1. Init => VerifiedInv
  BY DEF Init, VerifiedInv
<1>2. VerifiedInv => OnlyVerifiedBuildsRun
  BY DEF VerifiedInv, OnlyVerifiedBuildsRun
<1>3. ProcessInv => DesktopTypeOK
  BY DEF ProcessInv
<1>4. QED
  BY <1>1, <1>2, <1>3, VerifiedStep, ProcessesExclude, PTL DEF Spec
=============================================================================
