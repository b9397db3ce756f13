------------------------------- MODULE Tokens -------------------------------
(***************************************************************************)
(* The credentials of one account: TokenManager.refresh() with its lock,   *)
(* the refresh loop, the admin reload, the credential source on disk, and  *)
(* shutdown (cline_gateway/tokens.py, api_admin.py, app.py).               *)
(*                                                                         *)
(* A version stands for a credential set (access token and expiry, always  *)
(* written together): versions are numbered in the order the upstream      *)
(* issued them, which is the order of their expiries.                      *)
(*                                                                         *)
(* One Account object is followed: a reload after its deletion adds        *)
(* another one, which is not this module's.                                *)
(*                                                                         *)
(* A task is a coroutine.  One action covers the code from one suspension  *)
(* point to the next; asyncio.to_thread() work is an action of its own.    *)
(*                                                                         *)
(*   refresh()   idle -> [permit ->] [queued ->] posting -> parsing ->     *)
(*               writing -> done,  posting -> reading -> applying -> done  *)
(*   reload      idle -> loading -> comparing -> [queued ->] done          *)
(***************************************************************************)
EXTENDS Naturals, FiniteSets

CONSTANTS
    Callers,         \* refresh() calls of requests and of the admin route
    Background,      \* refresh tasks of refresh_loop()
    Reloads,         \* POST /admin/pool/reload handlers
    Sources,         \* the kinds of credential source (accounts.source)
    Permits,         \* bound of _refresh_sem: 4 in the code
    MaxVersion,      \* bound: versions issued
    MaxDrops,        \* bound: deletions of the account (0 or 1)
    MaxCrashes,      \* bound: restarts of the process
    NoTask

Tasks == Callers \cup Background \cup Reloads
SourceKinds == {"accounts_dir", "pool_file", "providers_json"}

ASSUME TokensAssumption ==
    /\ IsFiniteSet(Tasks)
    /\ Callers \cap Background = {}
    /\ (Callers \cup Background) \cap Reloads = {}
    /\ NoTask \notin Tasks
    /\ Sources \subseteq SourceKinds
    /\ Permits \in Nat \ {0}
    /\ MaxVersion \in Nat
    /\ MaxDrops \in Nat
    /\ MaxCrashes \in Nat

VARIABLES
    kind,            \* cfg.accounts.source
    token,           \* the version in the Account object
    source,          \* the version in the credential source
    latest,          \* the newest version issued
    age,             \* how far each version is from its expiry
    drops,           \* deletions so far: the current lock is number `drops`
    holder,          \* the task inside each lock
    pc,
    lock,            \* the lock object a task works with
    forced,          \* force=True
    before,          \* the version the task found when it was called
    carried,         \* the version a task has read, or is writing
    ok,              \* the result of refresh()
    stray,           \* writes of cancelled tasks, still running in a thread
    lost,            \* a save failed, was interrupted, or hid a newer import
    phase,           \* of the process: running, cancelling, closed
    crashes

locals   == <<lock, forced, before, carried>>
taskVars == <<pc, locals, ok>>
diskVars == <<kind, source, stray, lost>>
vars == <<token, latest, age, drops, holder, taskVars, diskVars, phase, crashes>>

Versions == 0..MaxVersion
Locks == 0..MaxDrops

\* expires_in(): "fresh" above the refresh lead, "due" below it but above 60 s,
\* "stale" otherwise.
Ages == {"fresh", "due", "stale"}

PCs == {"idle", "permit", "queued", "posting", "reading", "applying", "parsing",
        "writing", "loading", "comparing", "done"}

\* The tasks that have left neither the lock nor the queue before it.
InsidePCs == {"posting", "reading", "applying", "parsing", "writing"}

TokensTypeOK ==
    /\ kind \in Sources
    /\ token \in Versions /\ source \in Versions /\ latest \in Versions
    /\ age \in [Versions -> Ages]
    /\ drops \in Locks
    /\ holder \in [Locks -> Tasks \cup {NoTask}]
    /\ pc \in [Tasks -> PCs]
    /\ lock \in [Tasks -> Locks]
    /\ forced \in [Tasks -> BOOLEAN]
    /\ before \in [Tasks -> Versions]
    /\ carried \in [Tasks -> Versions]
    /\ ok \in [Tasks -> BOOLEAN]
    /\ stray \subseteq Versions
    /\ lost \in BOOLEAN
    /\ phase \in {"running", "cancelling", "closed"}
    /\ crashes \in 0..MaxCrashes

NoTasksYet ==
    /\ pc = [t \in Tasks |-> "idle"]
    /\ lock = [t \in Tasks |-> 0]
    /\ forced = [t \in Tasks |-> FALSE]
    /\ before = [t \in Tasks |-> 0]
    /\ carried = [t \in Tasks |-> 0]
    /\ ok = [t \in Tasks |-> FALSE]
    /\ holder = [l \in Locks |-> NoTask]

Init ==
    /\ kind \in Sources
    /\ token = 0 /\ source = 0 /\ latest = 0
    /\ age = [v \in Versions |-> "fresh"]
    /\ drops = 0
    /\ NoTasksYet
    /\ stray = {}
    /\ lost = FALSE
    /\ phase = "running"
    /\ crashes = 0
-----------------------------------------------------------------------------
(* Building blocks.                                                        *)

Goto(t, label) == pc' = [pc EXCEPT ![t] = label]

\* asyncio.Lock: taken at once when nobody is in it or queued for it.
LockIsFree(l) ==
    /\ holder[l] = NoTask
    /\ ~\E t \in Tasks : pc[t] = "queued" /\ lock[t] = l

\* refresh() or the reload returns, leaving the lock it is in; its locals go.
Return(t, result) ==
    /\ Goto(t, "done")
    /\ ok' = [ok EXCEPT ![t] = result]
    /\ holder' = [l \in Locks |-> IF holder[l] = t THEN NoTask ELSE holder[l]]
    /\ lock' = [lock EXCEPT ![t] = 0]
    /\ forced' = [forced EXCEPT ![t] = FALSE]
    /\ before' = [before EXCEPT ![t] = 0]
    /\ carried' = [carried EXCEPT ![t] = 0]

\* The background tasks are cancelled by aclose() and take no other step then.
Runs(t) == t \in Background => phase = "running"

\* Mutant: a forced refresh does not look whether the token was replaced.
NothingToDoUnlessForced(force, seen) == ~force /\ age[token] = "fresh"

\* The re-checks inside the lock: another refresh has done the work.
NothingToDo(force, seen) ==
    \/ force /\ token # seen /\ age[token] # "stale"
    \/ ~force /\ age[token] = "fresh"

\* The locals of a refresh() that goes on.
Keep(t, l, force, seen) ==
    /\ lock' = [lock EXCEPT ![t] = l]
    /\ forced' = [forced EXCEPT ![t] = force]
    /\ before' = [before EXCEPT ![t] = seen]
    /\ UNCHANGED <<carried, ok>>

\* The body of the lock, up to its first suspension.  An account without a
\* refresh token goes to the source; a closed HTTP client raises.
Proceed(t, l, force, seen) ==
    \/ /\ NothingToDo(force, seen)
       /\ Return(t, TRUE)
    \/ /\ ~NothingToDo(force, seen)
       /\ \/ Goto(t, "reading")
          \/ phase # "closed" /\ Goto(t, "posting")
       /\ holder' = [holder EXCEPT ![l] = t]
       /\ Keep(t, l, force, seen)
    \/ /\ ~NothingToDo(force, seen)
       /\ phase = "closed"
       /\ Return(t, FALSE)

-----------------------------------------------------------------------------
(* Calling refresh().                                                      *)

\* Mutant: the lock is not waited for.
EnterUnlocked(t, force) == Proceed(t, drops, force, token)

\* `before` is read, then the lock is taken or queued for.
Enter(t, force) ==
    IF LockIsFree(drops)
    THEN Proceed(t, drops, force, token)
    ELSE Goto(t, "queued") /\ Keep(t, drops, force, token) /\ UNCHANGED holder

\* A request whose token is due, POST /admin/accounts/{id}/refresh, or
\* (force=True) a request the upstream answered 401.
Call(t) ==
    /\ t \in Callers
    /\ pc[t] = "idle"
    /\ \E force \in BOOLEAN : Enter(t, force)
    /\ UNCHANGED <<token, latest, age, drops, diskVars, phase, crashes>>

LoopSpawns(t) ==
    /\ t \in Background
    /\ pc[t] = "idle"
    /\ phase = "running"
    /\ drops = 0
    /\ age[token] # "fresh"
    /\ Goto(t, "permit")
    /\ UNCHANGED <<token, latest, age, drops, holder, lock, forced, before,
                   carried, ok, diskVars, phase, crashes>>

\* _refresh_bounded: at most Permits of the loop's tasks are in refresh().
InRefresh == {t \in Background : pc[t] \notin {"idle", "permit", "done"}}

TakePermit(t) ==
    /\ pc[t] = "permit"
    /\ Runs(t)
    /\ Cardinality(InRefresh) < Permits
    /\ Enter(t, FALSE)
    /\ UNCHANGED <<token, latest, age, drops, diskVars, phase, crashes>>

\* A queued task is let in: in any order, the FIFO of asyncio.Lock included.
GetLock(t) ==
    /\ t \notin Reloads
    /\ pc[t] = "queued"
    /\ Runs(t)
    /\ holder[lock[t]] = NoTask
    /\ Proceed(t, lock[t], forced[t], before[t])
    /\ UNCHANGED <<token, latest, age, drops, diskVars, phase, crashes>>
-----------------------------------------------------------------------------
(* The POST, and saving what it brought.                                   *)

Posting(t) == pc[t] = "posting" /\ Runs(t)

\* 200: _apply(), then _persist_refreshed().  pool.json is written without a
\* suspension, providers.json not at all.
PostSucceeds(t) ==
    /\ Posting(t)
    /\ phase # "closed"
    /\ latest < MaxVersion
    /\ latest' = latest + 1
    /\ token' = latest + 1
    /\ \/ /\ kind = "accounts_dir"
          /\ Goto(t, "parsing")
          /\ UNCHANGED <<source, lost, holder, locals, ok>>
       \/ /\ kind = "pool_file"
          /\ \/ source' = latest + 1 /\ UNCHANGED lost
             \/ lost' = TRUE /\ UNCHANGED source
          /\ Return(t, TRUE)
       \/ /\ kind = "providers_json"
          /\ Return(t, TRUE)
          /\ UNCHANGED <<source, lost>>
    /\ UNCHANGED <<age, drops, kind, stray, phase, crashes>>

\* A transport error, or any other status: fall back to the source.
PostFails(t) ==
    /\ Posting(t)
    /\ Goto(t, "reading")
    /\ UNCHANGED <<token, latest, age, drops, holder, lock, forced, before,
                   carried, ok, diskVars, phase, crashes>>

\* Mutant: the fields written back are those of the file.
ParsedUnchanged(t) ==
    /\ pc[t] = "parsing"
    /\ Runs(t)
    /\ carried' = [carried EXCEPT ![t] = source]
    /\ Goto(t, "writing")
    /\ UNCHANGED <<token, latest, age, drops, holder, lock, forced, before, ok,
                   diskVars, phase, crashes>>

\* The snapshot was parsed: the account's credentials replace the file's.
Parsed(t) ==
    /\ pc[t] = "parsing"
    /\ Runs(t)
    /\ carried' = [carried EXCEPT ![t] = token]
    /\ Goto(t, "writing")
    /\ UNCHANGED <<token, latest, age, drops, holder, lock, forced, before, ok,
                   diskVars, phase, crashes>>

Written(t) ==
    /\ pc[t] = "writing"
    /\ Runs(t)
    /\ source' = carried[t]
    /\ lost' = (lost \/ source > carried[t])
    /\ Return(t, TRUE)
    /\ UNCHANGED <<token, latest, age, drops, kind, stray, phase, crashes>>

\* The snapshot is gone or cannot be written: refresh() succeeds all the same.
PersistFails(t) ==
    /\ pc[t] \in {"parsing", "writing"}
    /\ Runs(t)
    /\ lost' = TRUE
    /\ Return(t, TRUE)
    /\ UNCHANGED <<token, latest, age, drops, kind, source, stray, phase, crashes>>

-----------------------------------------------------------------------------
(* _reload_from_source: the desktop app may have rotated the token.        *)

SourceRead(t) ==
    /\ pc[t] = "reading"
    /\ Runs(t)
    /\ \/ /\ carried' = [carried EXCEPT ![t] = source]
          /\ Goto(t, "applying")
          /\ UNCHANGED <<holder, lock, forced, before, ok>>
       \/ Return(t, FALSE)                  \* unreadable, or no such account
    /\ UNCHANGED <<token, latest, age, drops, diskVars, phase, crashes>>

SourceApplied(t) ==
    /\ pc[t] = "applying"
    /\ Runs(t)
    /\ IF age[carried[t]] # "stale"
       THEN token' = carried[t] /\ Return(t, TRUE)
       ELSE Return(t, FALSE) /\ UNCHANGED token
    /\ UNCHANGED <<latest, age, drops, diskVars, phase, crashes>>
-----------------------------------------------------------------------------
(* POST /admin/pool/reload and apply_credentials().                        *)

ReloadStarts(t) ==
    /\ t \in Reloads
    /\ pc[t] = "idle"
    /\ drops = 0
    /\ Goto(t, "loading")
    /\ UNCHANGED <<token, latest, age, drops, holder, lock, forced, before,
                   carried, ok, diskVars, phase, crashes>>

ReloadReads(t) ==
    /\ pc[t] = "loading"
    /\ \/ /\ carried' = [carried EXCEPT ![t] = source]
          /\ Goto(t, "comparing")
          /\ UNCHANGED <<holder, lock, forced, before, ok>>
       \/ Return(t, FALSE)                  \* unreadable, or no such account
    /\ UNCHANGED <<token, latest, age, drops, diskVars, phase, crashes>>

\* The source expires later than the account: its credentials are applied,
\* now or once the refresh under way has left the lock.
ReloadCompares(t) ==
    /\ pc[t] = "comparing"
    /\ IF carried[t] > token /\ drops = 0
       THEN IF LockIsFree(drops)
            THEN token' = carried[t] /\ Return(t, TRUE)
            ELSE /\ Goto(t, "queued")
                 /\ lock' = [lock EXCEPT ![t] = drops]
                 /\ UNCHANGED <<token, holder, forced, before, carried, ok>>
       ELSE Return(t, FALSE) /\ UNCHANGED token
    /\ UNCHANGED <<latest, age, drops, diskVars, phase, crashes>>

ReloadApplies(t) ==
    /\ t \in Reloads
    /\ pc[t] = "queued"
    /\ holder[lock[t]] = NoTask
    /\ token' = carried[t]
    /\ Return(t, TRUE)
    /\ UNCHANGED <<latest, age, drops, diskVars, phase, crashes>>
-----------------------------------------------------------------------------
(* Cancellation, deletion, shutdown, crash.                                *)

\* Mutant: a cancelled task stays in the lock.
CancelInLock(t) ==
    /\ pc[t] \notin {"idle", "done"}
    /\ t \in Background => phase = "cancelling"
    /\ Goto(t, "done")
    /\ UNCHANGED <<token, latest, age, drops, holder, lock, forced, before,
                   carried, ok, diskVars, phase, crashes>>

\* A client disconnects, or aclose() cancels the loop's tasks: the `async with`
\* is left at once; a write under way goes on in its thread.
Cancel(t) ==
    /\ pc[t] \notin {"idle", "done"}
    /\ t \in Background => phase = "cancelling"
    /\ Return(t, FALSE)
    /\ stray' = IF pc[t] = "writing" THEN stray \cup {carried[t]} ELSE stray
    /\ lost' = (lost \/ pc[t] \in {"parsing", "writing"})
    /\ UNCHANGED <<token, latest, age, drops, kind, source, phase, crashes>>

StrayLands(v) ==
    /\ v \in stray
    /\ stray' = stray \ {v}
    /\ source' = v
    /\ UNCHANGED <<token, latest, age, drops, holder, taskVars, kind, lost, phase, crashes>>

\* Mutant: the lock is dropped whether the account was in the pool or not.
DropLockAgain ==
    /\ drops <= MaxDrops
    /\ drops' = drops + 1
    /\ UNCHANGED <<token, latest, age, holder, taskVars, diskVars, phase, crashes>>

\* DELETE /admin/accounts/{id}: the next refresh() of a request that still uses
\* the account gets a new lock.
DropLock ==
    /\ drops < MaxDrops
    /\ drops' = drops + 1
    /\ UNCHANGED <<token, latest, age, holder, taskVars, diskVars, phase, crashes>>

\* The lifespan ends: the loops are cancelled, then aclose() cancels their tasks.
Shutdown ==
    /\ phase = "running"
    /\ phase' = "cancelling"
    /\ UNCHANGED <<token, latest, age, drops, holder, taskVars, diskVars, crashes>>

CloseClient ==
    /\ phase = "cancelling"
    /\ \A t \in Background : pc[t] \in {"idle", "done"}
    /\ phase' = "closed"
    /\ UNCHANGED <<token, latest, age, drops, holder, taskVars, diskVars, crashes>>

\* The process dies, at any point, and starts again from the source.
Crash ==
    /\ crashes < MaxCrashes
    /\ crashes' = crashes + 1
    /\ token' = source
    /\ pc' = [t \in Tasks |-> "idle"]
    /\ lock' = [t \in Tasks |-> 0]
    /\ forced' = [t \in Tasks |-> FALSE]
    /\ before' = [t \in Tasks |-> 0]
    /\ carried' = [t \in Tasks |-> 0]
    /\ ok' = [t \in Tasks |-> FALSE]
    /\ holder' = [l \in Locks |-> NoTask]
    /\ drops' = 0
    /\ stray' = {}
    /\ lost' = FALSE
    /\ phase' = "running"
    /\ UNCHANGED <<latest, age, kind, source>>

\* The clock, for the versions issued so far.
GrowsOlder(v) ==
    /\ age[v] # "stale"
    /\ v <= latest
    /\ age' = [age EXCEPT ![v] = IF @ = "fresh" THEN "due" ELSE "stale"]
    /\ UNCHANGED <<token, latest, drops, holder, taskVars, diskVars, phase, crashes>>

\* The desktop app, or an import, puts newer credentials in the source.
Import ==
    /\ latest < MaxVersion
    /\ latest' = latest + 1
    /\ source' = latest + 1
    /\ UNCHANGED <<token, age, drops, holder, taskVars, kind, stray, lost, phase, crashes>>
-----------------------------------------------------------------------------
(* The system.                                                             *)

\* The next step of a task: the event loop runs it, every call has a timeout.
Step(t) ==
    \/ TakePermit(t) \/ GetLock(t)
    \/ PostSucceeds(t) \/ PostFails(t)
    \/ Parsed(t) \/ Written(t) \/ PersistFails(t)
    \/ SourceRead(t) \/ SourceApplied(t)
    \/ ReloadReads(t) \/ ReloadCompares(t) \/ ReloadApplies(t)

Next ==
    \/ \E t \in Tasks : \/ Call(t) \/ LoopSpawns(t) \/ ReloadStarts(t)
                        \/ Step(t) \/ Cancel(t)
    \/ \E v \in Versions : StrayLands(v) \/ GrowsOlder(v)
    \/ DropLock
    \/ Shutdown
    \/ CloseClient
    \/ Crash
    \/ Import

Spec == Init /\ [][Next]_vars

\* The loop's tasks end once aclose() has cancelled them; nothing obliges a
\* client to go away.
FairSpec ==
    /\ Spec
    /\ \A t \in Tasks : WF_vars(Step(t))
    /\ \A t \in Background : WF_vars(Cancel(t))
    /\ WF_vars(CloseClient)
-----------------------------------------------------------------------------
(* Properties.                                                             *)

Inside(l) == {t \in Tasks : lock[t] = l /\ pc[t] \in InsidePCs}

\* tokens.py:3 "single-flight per account": while the account is in the pool,
\* no two refreshes of it are under way at once, cancelled ones included.
SingleFlight ==
    drops = 0 => \A t, u \in Tasks :
        pc[t] \in InsidePCs /\ pc[u] \in InsidePCs => t = u

\* tokens.py:161 no refresh stampede: while the account is in the pool, a task
\* posts only if the token is the one it was called with, or is of no use.
NoStampede ==
    drops = 0 => \A t \in Tasks :
        pc[t] = "posting"
        => IF forced[t] THEN token = before[t] \/ age[token] = "stale"
                        ELSE age[token] # "fresh"

\* tokens.py:254 "Durably write refreshed credentials back": when no save is
\* under way and none was lost, a restart finds a token at least as new as the
\* one in memory.
SavedWhenIdle ==
    (/\ kind # "providers_json"
     /\ ~lost
     /\ \A t \in Tasks : pc[t] \notin {"parsing", "writing"})
    => source >= token

\* Every refresh and every reload ends: nobody is left waiting for a permit or
\* for a lock whose holder failed or was cancelled.  Shutdown ends too.
EveryRefreshEnds ==
    /\ \A t \in Tasks : pc[t] # "idle" ~> pc[t] \in {"idle", "done"}
    /\ phase = "cancelling" ~> phase # "cancelling"
=============================================================================
