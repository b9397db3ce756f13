------------------------------- MODULE Window -------------------------------
(***************************************************************************)
(* The Tk window (cline_gateway/gui.py, python -m cline_gateway.gui): the  *)
(* ServerController that runs the gateway on a thread of its own, and the  *)
(* part of App that starts, stops and restarts it.                         *)
(*                                                                         *)
(* The threads: the UI thread, which runs the clicks and the callbacks     *)
(* handed to it by after(); one gateway thread and one _await_ready thread *)
(* per start; one wait_and_start per restart.  A start is named by the     *)
(* value of _lifecycle it was given, its generation, and a restart by the  *)
(* value its stop was given.  What is handed to after() runs in any order  *)
(* among clicks and other callbacks, and the user clicks whenever the UI   *)
(* thread is free, during a restart too.  The port is assumed to be free   *)
(* of other programs.                                                      *)
(***************************************************************************)
EXTENDS Naturals

CONSTANT MaxClicks   \* bound: clicks of Start, Stop and Save

ASSUME WindowAssumption == MaxClicks \in Nat

\* A click counts for two at most: a save is a stop and a start.
Generations == 1..(2 * MaxClicks)

None == 0            \* no thread, no server

VARIABLES
    clicks,          \* clicks so far
    config,          \* the version of config.yaml on the disk
    thread,          \* where the gateway thread of each start is
    loaded,          \* the version of config.yaml each thread loaded
    exiting,         \* servers whose should_exit is set
    current,         \* ServerController._thread
    server,          \* ServerController._server
    failed,          \* ServerController.error
    lifecycle,       \* App._lifecycle
    awaiting,        \* where the _await_ready thread of each start is
    ui,              \* what the UI thread does: free, or inside stop()
    status,          \* the label
    stopping,        \* App._stopping
    restarting,      \* App._restart_pending
    waiter,          \* where wait_and_start of each restart is
    target,          \* the thread it joins
    restart,         \* history: the last restart that was begun
    promised,        \* history: the version of config.yaml it is for
    abandoned,       \* history: restarts that were pending when Stop was clicked
    strays           \* history: threads a wait_and_start lost while they lived

serverVars == <<thread, loaded, exiting, server, failed>>
appVars == <<lifecycle, status, stopping, restarting>>
restartVars == <<waiter, target, restart, promised, abandoned, strays>>
vars == <<clicks, config, serverVars, current, appVars, awaiting, ui, restartVars>>

WindowTypeOK ==
    /\ clicks \in 0..MaxClicks
    /\ config \in 0..MaxClicks
    /\ thread \in [Generations -> {"none", "starting", "loaded", "built", "up", "down"}]
    /\ loaded \in [Generations -> 0..MaxClicks]
    /\ exiting \subseteq Generations
    /\ {current, server, restart} \subseteq Generations \cup {None}
    /\ failed \in BOOLEAN
    /\ lifecycle \in Generations \cup {0}
    /\ awaiting \in [Generations -> {"none", "probing", "ok", "failed", "done"}]
    /\ ui \in {"free", "stopping", "restarting"}
    /\ status \in {"stopped", "running", "failed"}
    /\ {stopping, restarting} \subseteq BOOLEAN
    /\ waiter \in [Generations -> {"idle", "spawned", "joining", "stopped", "stuck"}]
    /\ target \in [Generations -> Generations \cup {None}]
    /\ promised \in 0..MaxClicks
    /\ {abandoned, strays} \subseteq SUBSET Generations

Init ==
    /\ clicks = 0 /\ config = 0
    /\ thread = [g \in Generations |-> "none"]
    /\ loaded = [g \in Generations |-> 0]
    /\ exiting = {}
    /\ current = None /\ server = None /\ failed = FALSE
    /\ lifecycle = 0
    /\ awaiting = [g \in Generations |-> "none"]
    /\ ui = "free" /\ status = "stopped"
    /\ stopping = FALSE /\ restarting = FALSE
    /\ waiter = [r \in Generations |-> "idle"]
    /\ target = [r \in Generations |-> None]
    /\ restart = None /\ promised = 0 /\ abandoned = {} /\ strays = {}

IsAlive(g) == g # None /\ thread[g] \in {"starting", "loaded", "built", "up"}

Running == IsAlive(current)
-----------------------------------------------------------------------------
(* The gateway thread: run() in ServerController.start.                    *)

Becomes(g, where) == thread' = [thread EXCEPT ![g] = where]

Loads(g) ==
    /\ thread[g] = "starting"
    /\ Becomes(g, "loaded")
    /\ loaded' = [loaded EXCEPT ![g] = config]
    /\ UNCHANGED <<exiting, server, failed>>

\* The application is built and _server assigned.
Builds(g) ==
    /\ thread[g] = "loaded"
    /\ Becomes(g, "built")
    /\ server' = g
    /\ UNCHANGED <<loaded, exiting, failed>>

Binds(g) ==
    /\ thread[g] = "built"
    /\ Becomes(g, "up")
    /\ UNCHANGED <<loaded, exiting, server, failed>>

\* should_exit is seen, now or later.
Exits(g) ==
    /\ thread[g] \in {"built", "up"}
    /\ g \in exiting
    /\ Becomes(g, "down")
    /\ UNCHANGED <<loaded, exiting, server, failed>>

\* An exception, which is recorded, or a sys.exit, which is not.
Breaks(g) ==
    /\ IsAlive(g)
    /\ Becomes(g, "down")
    /\ failed' \in {failed, TRUE}
    /\ UNCHANGED <<loaded, exiting, server>>

GatewayThread(g) ==
    /\ Loads(g) \/ Builds(g) \/ Binds(g) \/ Exits(g) \/ Breaks(g)
    /\ UNCHANGED <<clicks, config, current, appVars, awaiting, ui, restartVars>>
-----------------------------------------------------------------------------
(* Start.                                                                  *)

\* start_everything, with ServerController.start: the thread of a new
\* generation and the one that awaits it, unless there is something running.
StartEverything(halted) ==
    IF Running \/ halted
    THEN UNCHANGED <<serverVars, current, lifecycle, awaiting>>
    ELSE /\ lifecycle' = lifecycle + 1
         /\ Becomes(lifecycle', "starting")
         /\ current' = lifecycle'
         /\ failed' = FALSE
         /\ awaiting' = [awaiting EXCEPT ![lifecycle'] = "probing"]
         /\ UNCHANGED <<loaded, exiting, server>>

\* A click the UI thread gets round to.
Click ==
    /\ ui = "free"
    /\ clicks < MaxClicks
    /\ clicks' = clicks + 1

\* The start of the window itself (autostart) is one of them.
ClickStart ==
    /\ Click
    /\ StartEverything(stopping)
    /\ UNCHANGED <<config, status, stopping, restarting, ui, restartVars>>

\* wait_ready: /health answers, an error is recorded, or 25 s are over.
Probed(g) ==
    /\ awaiting[g] = "probing"
    /\ \/ awaiting' = [awaiting EXCEPT ![g] = "failed"]
       \/ /\ \E h \in Generations : thread[h] = "up"
          /\ ~failed
          /\ awaiting' = [awaiting EXCEPT ![g] = "ok"]
    /\ UNCHANGED <<clicks, config, serverVars, current, appVars, ui, restartVars>>

\* Mutant: an answer of any start is shown.
IsAnyStart(g) == g <= lifecycle
IsCurrent(g) == g = lifecycle

\* Mutant: a start that failed leaves the restart pending.
PendingUntilUp(ok) == restarting /\ ~ok
StillPending(ok) == FALSE

OnReady(g) ==
    /\ ui = "free"
    /\ awaiting[g] \in {"ok", "failed"}
    /\ awaiting' = [awaiting EXCEPT ![g] = "done"]
    /\ IF IsCurrent(g) /\ ~stopping
       THEN /\ status' = IF awaiting[g] = "ok" THEN "running" ELSE "failed"
            /\ restarting' = StillPending(awaiting[g] = "ok")
       ELSE UNCHANGED <<status, restarting>>
    /\ UNCHANGED <<clicks, config, serverVars, current, lifecycle, stopping, ui,
                   restartVars>>
-----------------------------------------------------------------------------
(* Stop and restart.                                                       *)

\* stop_everything up to the join in ServerController.stop.
BeginStop ==
    /\ lifecycle' = lifecycle + 1
    /\ stopping' = TRUE
    /\ exiting' = exiting \cup ({server} \ {None})

ClickStop ==
    /\ Click
    /\ BeginStop
    /\ ui' = "stopping"
    /\ abandoned' = IF restarting THEN abandoned \cup {restart} ELSE abandoned
    /\ UNCHANGED <<config, thread, loaded, server, failed, current, status,
                   restarting, awaiting, waiter, target, restart, promised, strays>>

\* Mutant: a restart does not stop what runs.
SaveWithoutStop ==
    /\ Click
    /\ config' = config + 1
    /\ promised' = config'
    /\ StartEverything(stopping)
    /\ UNCHANGED <<status, stopping, restarting, ui, waiter, target, restart,
                   abandoned, strays>>

\* act_save_settings, the new keys, the accounts source: config.yaml is
\* written and restart_server called, which returns when one is pending.
ClickSave ==
    /\ Click
    /\ config' = config + 1
    /\ IF restarting
       THEN UNCHANGED <<lifecycle, stopping, exiting, restarting, ui, restart, promised>>
       ELSE /\ BeginStop
            /\ restarting' = TRUE /\ ui' = "restarting"
            /\ restart' = lifecycle' /\ promised' = config'
    /\ UNCHANGED <<thread, loaded, server, failed, current, status, awaiting, waiter,
                   target, abandoned, strays>>

\* Mutant: stop() forgets the thread, ended or not.
ForgetThread == current' = None

\* The thread is dropped only when it has ended.
DropEndedThread == current' = IF Running THEN current ELSE None

\* Mutant: a restart does not keep Start out until its own start.
StopsStopping == stopping' = FALSE

\* stop_everything ends with it cleared; restart_server sets it again at once.
KeepsStopping == stopping' = (ui = "restarting")

\* The join ends, with the thread or after 5 s; stop() and its caller go on.
JoinReturns ==
    /\ ui # "free"
    /\ ui' = "free"
    /\ server' = None
    /\ DropEndedThread
    /\ status' = "stopped"
    /\ KeepsStopping
    /\ waiter' = IF ui = "restarting" THEN [waiter EXCEPT ![lifecycle] = "spawned"] ELSE waiter
    /\ UNCHANGED <<clicks, config, thread, loaded, exiting, failed, lifecycle,
                   restarting, awaiting, target, restart, promised, abandoned, strays>>

othersOfWaiter == <<clicks, config, serverVars, appVars, awaiting, ui, restart,
                    promised, abandoned>>

\* wait_stopped on its own thread.
WaiterReads(r) ==
    /\ waiter[r] = "spawned"
    /\ waiter' = [waiter EXCEPT ![r] = "joining"]
    /\ target' = [target EXCEPT ![r] = current]
    /\ UNCHANGED <<current, strays, othersOfWaiter>>

\* The thread it read has ended: _thread is cleared, whatever is in it by now.
WaiterJoins(r) ==
    /\ waiter[r] = "joining"
    /\ ~IsAlive(target[r])
    /\ waiter' = [waiter EXCEPT ![r] = "stopped"]
    /\ current' = None
    /\ strays' = IF Running THEN strays \cup {current} ELSE strays
    /\ UNCHANGED <<target, othersOfWaiter>>

\* 10 s are over.
WaiterGivesUp(r) ==
    /\ waiter[r] = "joining"
    /\ IsAlive(target[r])
    /\ waiter' = [waiter EXCEPT ![r] = "stuck"]
    /\ UNCHANGED <<current, target, strays, othersOfWaiter>>

\* The callback of a wait_and_start, its last step.
WaiterDone(r) ==
    /\ waiter' = [waiter EXCEPT ![r] = "idle"]
    /\ target' = [target EXCEPT ![r] = None]
    /\ UNCHANGED <<restart, promised, abandoned, strays>>

StartAfterRestart(r) ==
    /\ ui = "free"
    /\ waiter[r] = "stopped"
    /\ WaiterDone(r)
    /\ IF restarting
       THEN stopping' = FALSE /\ StartEverything(FALSE)
       ELSE UNCHANGED <<serverVars, current, lifecycle, stopping, awaiting>>
    /\ UNCHANGED <<clicks, config, status, restarting, ui>>

RestartFailed(r) ==
    /\ ui = "free"
    /\ waiter[r] = "stuck"
    /\ WaiterDone(r)
    /\ restarting' = FALSE
    /\ UNCHANGED <<clicks, config, serverVars, current, lifecycle, status, stopping,
                   awaiting, ui>>
-----------------------------------------------------------------------------
(* The system.                                                             *)

Worker(r) == WaiterReads(r) \/ WaiterJoins(r) \/ WaiterGivesUp(r)

Callback(r) == StartAfterRestart(r) \/ RestartFailed(r)

Next ==
    \/ ClickStart \/ ClickStop \/ ClickSave
    \/ JoinReturns
    \/ \E r \in Generations : Worker(r) \/ Callback(r)
    \/ \E g \in Generations : GatewayThread(g) \/ Probed(g) \/ OnReady(g)

Spec == Init /\ [][Next]_vars

\* Joins and probes have a timeout, and the UI thread runs what it is handed;
\* nothing is assumed of the gateway thread or of the user.
FairSpec ==
    /\ Spec
    /\ WF_vars(JoinReturns)
    /\ \A r \in Generations : WF_vars(Worker(r)) /\ WF_vars(Callback(r))
    /\ \A g \in Generations : WF_vars(Probed(g)) /\ WF_vars(OnReady(g))
-----------------------------------------------------------------------------
(* Properties.  Of a user who clicks whenever he can, also while a restart *)
(* is pending, where the code has less to say: what it loses then is named *)
(* by the histories.                                                       *)

\* gui.py:641-644 "actually wait for uvicorn to release the port [...] leave the
\* thread referenced (not dropped) if shutdown overruns": no join that times out,
\* no callback and no order of clicks loses a gateway thread that lives, or a
\* Start would add a second one, but for one write: that of a wait_and_start whose
\* thread ended late.  And none is lost that way unless Stop was clicked while a
\* restart was pending, which alone lets a Start come before that write.
LiveIsReferenced ==
    /\ \A g \in Generations : IsAlive(g) => g = current \/ g \in strays
    /\ strays # {} => abandoned # {}

\* The two together: the fields have their types, and no thread is lost.
WindowInv == WindowTypeOK /\ LiveIsReferenced

\* The label turns to "running" only for the last start, not told to exit since,
\* when its gateway, or a stray one, did come up: an answer to an earlier start,
\* stopped since, is not shown.
RunningIsOfThisStart ==
    [][status' = "running" =>
          /\ lifecycle # 0 /\ lifecycle \notin exiting
          /\ \E h \in {lifecycle} \cup strays : thread[h] \in {"up", "down"}]_status

\* gui.py:1727 "Changes are written to config.yaml and the gateway restarts.": the
\* gateway of the last start runs no older a version than that of the last save
\* that began a restart.  (A save while one is pending begins none, gui.py:1989.)
SavesReachGateway ==
    lifecycle # 0 /\ thread[lifecycle] = "up" => loaded[lifecycle] >= promised

\* A restart comes to an end, with a gateway or with a message: until then every
\* further save returns without a word.  The one that does not is the one whose
\* start Stop was clicked on: no answer is accepted for it any more.
RestartEnds == restarting ~> (~restarting \/ restart \in abandoned)
=============================================================================
