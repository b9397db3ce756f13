------------------------------ MODULE Desktop ------------------------------
(***************************************************************************)
(* The single-file Windows build: the processes of the exe (gui_main.py),  *)
(* the self-update that downloads a new exe next to it and swaps it in     *)
(* (cline_gateway/updater.py), and the routes the dashboard drives them by *)
(* (cline_gateway/api_dash.py).                                            *)
(*                                                                         *)
(* An element of Processes is one process of the exe, an element of        *)
(* Updates one run of the dashboard's doUpdate(): download, then apply.    *)
(* The files, the named mutex and the process table are the machine's.     *)
(***************************************************************************)
EXTENDS Naturals, FiniteSets

CONSTANTS
    Processes,       \* processes of the exe, those not yet started included
    Updates,         \* runs of doUpdate() that may overlap
    MaxStarts,       \* bound: launches by the user
    MaxCrashes,      \* bound: kills of a serving process
    NoProcess        \* the absence of a process

ASSUME DesktopAssumption ==
    /\ IsFiniteSet(Processes)
    /\ MaxStarts \in Nat
    /\ MaxCrashes \in Nat
    /\ NoProcess \notin Processes

VARIABLES
    pc,              \* where each process is in main()
    build,           \* the exe each process was started from
    offered,         \* processes whose cached check says update_available
    exe,             \* the file ClineGateway.exe
    newExe,          \* the file ClineGateway.new.exe
    step,            \* where each run of doUpdate() is
    host,            \* the process that serves it
    starts,          \* launches by the user so far
    crashes          \* kills so far

vars == <<pc, build, offered, exe, newExe, step, host, starts, crashes>>

\* "bad": complete, but not what checksums.sha256 lists.
Files == {"old", "new", "partial", "bad"}

PCs == {"off", "checking", "second", "telling", "hosting", "stranded", "serving",
        "leaving", "gone"}

Steps == {"idle", "writing", "verifying", "ready", "applied", "moving", "relaunching"}

DesktopTypeOK ==
    /\ pc \in [Processes -> PCs]
    /\ build \in [Processes -> Files]
    /\ offered \subseteq Processes
    /\ exe \in Files
    /\ newExe \in (Files \ {"old"}) \cup {"absent"}
    /\ step \in [Updates -> Steps]
    /\ host \in [Updates -> Processes \cup {NoProcess}]
    /\ starts \in 0..MaxStarts
    /\ crashes \in 0..MaxCrashes

Init ==
    /\ pc = [p \in Processes |-> "off"]
    /\ build = [p \in Processes |-> "old"]
    /\ offered = {}
    /\ exe = "old"
    /\ newExe = "absent"
    /\ step = [u \in Updates |-> "idle"]
    /\ host = [u \in Updates |-> NoProcess]
    /\ starts = 0
    /\ crashes = 0

\* Processes that exist, and those whose gateway answers.
Alive(p) == pc[p] \notin {"off", "gone"}
Answers(p) == pc[p] \in {"serving", "leaving"}

fileVars == <<exe, newExe>>
-----------------------------------------------------------------------------
(* The processes: gui_main.main().                                         *)

\* The exe is started, by the user or by the swapper.
Start(p) ==
    /\ pc[p] = "off"
    /\ pc' = [pc EXCEPT ![p] = "checking"]
    /\ build' = [build EXCEPT ![p] = exe]

Launch(p) ==
    /\ starts < MaxStarts
    /\ starts' = starts + 1
    /\ Start(p)
    /\ UNCHANGED <<offered, fileVars, step, host, crashes>>

\* Mutant: look for a gateway that answers instead of the mutex.
AlreadyRunningByPort(p) == \E q \in Processes \ {p} : Answers(q)

\* The mutex exists as long as any process has a handle of it, also a second
\* copy that only found it there.
AlreadyRunning(p) == \E q \in Processes \ {p} : Alive(q) /\ pc[q] # "checking"

Goto(p, label) ==
    /\ pc' = [pc EXCEPT ![p] = label]
    /\ UNCHANGED <<build, offered, fileVars, starts>>

GotoOnly(p, label) == Goto(p, label) /\ UNCHANGED <<step, host, crashes>>

CheckMutex(p) ==
    /\ pc[p] = "checking"
    /\ GotoOnly(p, IF AlreadyRunning(p) THEN "second" ELSE "hosting")

\* A second copy opens the dashboard of the first in the browser and leaves,
\* or says that an older build is running, until the user closes the box.
SecondCopy(p) ==
    /\ pc[p] = "second"
    /\ GotoOnly(p, IF \E q \in Processes : Answers(q) THEN "gone" ELSE "telling")

BoxClosed(p) == pc[p] = "telling" /\ GotoOnly(p, "gone")

\* The server thread answers within 30 s and the window opens; or it does not
\* (the port is taken), the browser shows an address nobody serves, and the
\* process, with its daemon thread, ends.
ServerUp(p) == pc[p] = "hosting" /\ GotoOnly(p, "serving")
ServerDown(p) == pc[p] = "hosting" /\ GotoOnly(p, "stranded")
StrandedExit(p) == pc[p] = "stranded" /\ GotoOnly(p, "gone")

\* POST /admin/dash/shutdown: os._exit in a second.
Shutdown(p) == pc[p] = "serving" /\ GotoOnly(p, "leaving")

\* The process ends; what it was downloading stays on the disk as it is.
Ends(p) ==
    /\ Goto(p, "gone")
    /\ step' = [u \in Updates |->
                  IF host[u] = p /\ step[u] \in {"writing", "verifying", "ready"}
                  THEN "idle" ELSE step[u]]
    /\ UNCHANGED host

WindowClosed(p) == pc[p] = "serving" /\ Ends(p) /\ UNCHANGED crashes

TimerFires(p) == pc[p] = "leaving" /\ Ends(p) /\ UNCHANGED crashes

Crash(p) ==
    /\ pc[p] = "serving"
    /\ crashes < MaxCrashes
    /\ crashes' = crashes + 1
    /\ Ends(p)
-----------------------------------------------------------------------------
(* The update: updater.py, called by the routes of the serving process.    *)

\* UpdateChecker.check, by its loop or the route: the cached answer.
Check(p) ==
    /\ Answers(p)
    /\ \/ build[p] = "old" /\ offered' = offered \cup {p}
       \/ offered' = offered \ {p}
    /\ UNCHANGED <<pc, build, fileVars, step, host, starts, crashes>>

\* Bound: a process remains for every launch and every swap still to come.
Room == Cardinality({p \in Processes : pc[p] = "off"})
            > (MaxStarts - starts) + Cardinality({u \in Updates : step[u] # "idle"})

\* Another download has the file open: it cannot be deleted or moved.
Locked(u) == \E v \in Updates \ {u} : step[v] = "writing"

\* open(target, "wb") empties what was there.
BeginDownload(u, p) ==
    /\ Room
    /\ step[u] = "idle"
    /\ Answers(p)
    /\ p \in offered
    /\ step' = [step EXCEPT ![u] = "writing"]
    /\ host' = [host EXCEPT ![u] = p]
    /\ newExe' = "partial"
    /\ UNCHANGED <<pc, build, offered, exe, starts, crashes>>

\* The last chunk is written; another writer may have left holes before it.
Received(u) ==
    /\ step[u] = "writing"
    /\ step' = [step EXCEPT ![u] = "verifying"]
    /\ newExe' \in {"new", "bad"} \cup (IF Locked(u) THEN {"partial"} ELSE {})
    /\ UNCHANGED <<pc, build, offered, exe, host, starts, crashes>>

\* `except`: delete what was downloaded, which Windows refuses while it is open.
Discard(u) ==
    /\ step' = [step EXCEPT ![u] = "idle"]
    /\ newExe' = IF Locked(u) THEN newExe ELSE "absent"

\* The transfer breaks off, or the checksums cannot be had.
DownloadFails(u) ==
    /\ step[u] \in {"writing", "verifying"}
    /\ Discard(u)
    /\ UNCHANGED <<pc, build, offered, exe, host, starts, crashes>>

\* Mutant: only the size is looked at.
IntactBySize(file) == file \in {"new", "bad"}

\* The SHA-256 of the file is the one checksums.sha256 lists.
Intact(file) == file = "new"

Verify(u) ==
    /\ step[u] = "verifying"
    /\ IF Intact(newExe)
       THEN step' = [step EXCEPT ![u] = "ready"] /\ UNCHANGED newExe
       ELSE Discard(u)
    /\ UNCHANGED <<pc, build, offered, exe, host, starts, crashes>>

\* apply_update looks only whether the file is there.
Apply(u) ==
    /\ step[u] = "ready"
    /\ Answers(host[u])
    /\ IF newExe = "absent"
       THEN step' = [step EXCEPT ![u] = "idle"] /\ UNCHANGED pc
       ELSE /\ step' = [step EXCEPT ![u] = "applied"]
            /\ pc' = [pc EXCEPT ![host[u]] = "leaving"]
    /\ UNCHANGED <<build, offered, exe, newExe, host, starts, crashes>>
-----------------------------------------------------------------------------
(* The swapper: clinegate_update.bat, which cmd reads line by line.        *)

\* Mutant: the swapper does not wait for the process to exit.
PidGoneAtOnce(u) ==
    /\ step[u] = "applied"
    /\ step' = [step EXCEPT ![u] = "moving"]
    /\ UNCHANGED <<pc, build, offered, fileVars, host, starts, crashes>>

PidGone(u) ==
    /\ step[u] = "applied"
    /\ ~Alive(host[u])
    /\ step' = [step EXCEPT ![u] = "moving"]
    /\ UNCHANGED <<pc, build, offered, fileVars, host, starts, crashes>>

\* `move` fails, unnoticed, when either file is in use or the new one is gone.
Move(u) ==
    /\ step[u] = "moving"
    /\ step' = [step EXCEPT ![u] = "relaunching"]
    /\ IF \/ newExe = "absent" \/ Locked(u)
          \/ \E p \in Processes : Alive(p)
       THEN UNCHANGED <<exe, newExe>>
       ELSE exe' = newExe /\ newExe' = "absent"
    /\ UNCHANGED <<pc, build, offered, host, starts, crashes>>

Relaunch(u) ==
    /\ step[u] = "relaunching"
    /\ \E p \in Processes : Start(p)
    /\ step' = [step EXCEPT ![u] = "idle"]
    /\ UNCHANGED <<offered, exe, newExe, host, starts, crashes>>
-----------------------------------------------------------------------------
(* The system.                                                             *)

\* Steps the program takes by itself.
OwnStep(p) ==
    \/ CheckMutex(p) \/ SecondCopy(p) \/ ServerUp(p) \/ ServerDown(p)
    \/ StrandedExit(p) \/ TimerFires(p)

Swapper(u) == PidGone(u) \/ Move(u) \/ Relaunch(u)

Next ==
    \/ \E p \in Processes :
          \/ OwnStep(p) \/ Launch(p) \/ BoxClosed(p) \/ Shutdown(p)
          \/ WindowClosed(p) \/ Crash(p) \/ Check(p)
          \/ \E u \in Updates : BeginDownload(u, p)
    \/ \E u \in Updates :
          \/ Received(u) \/ DownloadFails(u) \/ Verify(u) \/ Apply(u)
          \/ Swapper(u)

Spec == Init /\ [][Next]_vars

\* A started process runs on, and the swapper polls until it is done; nothing
\* is assumed of the user or of the network.
FairSpec ==
    /\ Spec
    /\ \A p \in Processes : WF_vars(OwnStep(p))
    /\ \A u \in Updates : WF_vars(Swapper(u))
-----------------------------------------------------------------------------
(* Properties.                                                             *)

\* gui_main.py:5: however launches, the swap and the end of the running copy
\* interleave, two copies never run a gateway (and fight over the port).
AtMostOneGateway ==
    Cardinality({p \in Processes : pc[p] \in {"hosting", "serving", "leaving"}}) <= 1

\* The two together: every part has its type, and one copy at most serves.
DesktopInv == DesktopTypeOK /\ AtMostOneGateway

\* updater.py:164 "The download is refused unless the published checksums.sha256
\* lists a matching SHA-256": no process runs a build that was cut short or
\* does not match, through failed downloads, kills and restarts.
OnlyVerifiedBuildsRun ==
    \A p \in Processes : build[p] \notin {"partial", "bad"}

\* An update that is applied does not leave the user without a gateway and
\* without a word: once the old process is gone a gateway serves, whichever
\* build, or a message or a page is on the screen.
UpdateEnds ==
    \A u \in Updates :
        step[u] = "applied" /\ Alive(host[u])
        ~> /\ \A p \in Processes : host[u] = p => ~Alive(p)
           /\ \E p \in Processes : pc[p] \in {"serving", "telling", "stranded"}
=============================================================================
