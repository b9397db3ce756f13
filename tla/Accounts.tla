------------------------------ MODULE Accounts ------------------------------
(***************************************************************************)
(* Accounts between the credential folder and the live pool: device logins *)
(* (device_auth.DeviceLogin and its three routes), the import of what the  *)
(* Cline desktop app is logged into, the saving of refreshed tokens, pool  *)
(* reload and delete, and a crash followed by a restart.                   *)
(***************************************************************************)
EXTENDS CredentialFiles

CONSTANTS Logins,      \* DeviceLogin objects
          LoginIds,    \* the accounts users log in to this way
          Import,      \* the worker thread of POST /admin/dash/import
          Saver,       \* the thread saving a refreshed token; bound: one at a time
          NoLogin,
          MaxCrashes   \* bound: crashes

VARIABLES login,       \* [Logins -> the DeviceLogin and its task]
          current,     \* state.device_login
          pool,        \* [Ids -> the file the account was loaded from, or below]
          importing,   \* the import: accounts still to write, names taken
          crashes

vars == <<fileVars, login, current, pool, importing, crashes>>

NotPooled == "not pooled"
FromLogin == "device-login"    \* Account.source of a device login

ASSUME AccountsAssumption ==
    /\ Import \notin Logins /\ Saver \notin Logins \cup {Import}
    /\ Writers = Logins \cup {Import, Saver}
    /\ LoginIds \subseteq Ids /\ NoLogin \notin Logins \cup LoginIds
    /\ NotPooled \notin Names /\ FromLogin \notin Names

States == {"idle", "awaiting_user", "registering", "done", "error", "expired", "cancelled"}
Points == {"unborn", "new", "authorize", "ask", "sleep", "register", "persist",
           "upsert", "check", "end"}

NoImport == [todo |-> {}, used |-> {}]

Init ==
    /\ FilesInit
    /\ login = [l \in Logins |-> [at |-> "unborn", state |-> "idle", id |-> NoLogin,
                                  cancel |-> FALSE, saved |-> FALSE, pooled |-> FALSE]]
    /\ current = NoLogin
    /\ pool = [a \in Ids |-> IF a \in Loadable THEN BaseName[a] ELSE NotPooled]
    /\ importing = NoImport
    /\ crashes = 0

OnlyLogin(l, upd) ==
    /\ login' = [login EXCEPT ![l] = upd]
    /\ UNCHANGED <<fileVars, current, pool, importing, crashes>>

-----------------------------------------------------------------------------
(* POST .../auth/login/start: a flow whose task has begun is returned as it *)
(* is; anything else, a registered flow still "idle" included, is replaced. *)
LoginStart(l) ==
    /\ login[l].at = "unborn"
    /\ current # NoLogin => login[current].state \notin {"awaiting_user", "registering"}
    /\ current' = l
    /\ login' = [login EXCEPT ![l].at = "new"]
    /\ UNCHANGED <<fileVars, pool, importing, crashes>>

\* run() begins: the device code is asked for.
RunStarts(l) ==
    /\ login[l].at = "new"
    /\ OnlyLogin(l, [login[l] EXCEPT !.at = "authorize", !.state = "awaiting_user"])

Fails(l) == [login[l] EXCEPT !.at = "end", !.state = "error"]

\* _authorize: a code, or an unexpected answer or an exception.
Authorized(l) ==
    /\ login[l].at = "authorize"
    /\ OnlyLogin(l, [login[l] EXCEPT !.at = "ask"]) \/ OnlyLogin(l, Fails(l))

\* _poll, head of the loop and every bite of the sleep: cancel is looked at.
SeesCancel(l) ==
    /\ login[l].at \in {"ask", "sleep"} /\ login[l].cancel
    /\ OnlyLogin(l, [login[l] EXCEPT !.at = "end", !.state = "cancelled"])

\* The answer to one poll: pending, refused, expired, or approved for account a.
\* The request may have been under way when cancel was set.
PollAnswered(l) ==
    /\ login[l].at = "ask"
    /\ \/ OnlyLogin(l, [login[l] EXCEPT !.at = "sleep"])
       \/ OnlyLogin(l, Fails(l))
       \/ OnlyLogin(l, [login[l] EXCEPT !.at = "end", !.state = "expired"])
       \/ \E a \in LoginIds : OnlyLogin(l, [login[l] EXCEPT !.at = "register",
                                           !.state = "registering", !.id = a])

PollAgain(l) ==
    /\ login[l].at = "sleep" /\ ~login[l].cancel
    /\ OnlyLogin(l, [login[l] EXCEPT !.at = "ask"])

\* Mutant: polling goes on as long as the answer is "pending".
PollDeadlineNone(l) == FALSE

\* The deadline of 300 s is looked at before each poll.
PollDeadline(l) ==
    /\ login[l].at = "sleep"
    /\ OnlyLogin(l, [login[l] EXCEPT !.at = "end", !.state = "expired"])

\* _register, then _persist in the same step of the event loop.
Registered(l) ==
    /\ login[l].at = "register"
    /\ \/ OnlyLogin(l, Fails(l))
       \/ /\ login' = [login EXCEPT ![l].at = "persist"]
          /\ OpenTmp(l, SnapshotFilename(login[l].id, {}), Own(login[l].id))
          /\ UNCHANGED <<current, pool, importing, crashes>>

\* Mutant: a snapshot that could not be written does not stop the login.
LoginWritesBestEffort(l) ==
    /\ login[l].at = "persist"
    /\ \/ FillTmp(l) /\ UNCHANGED login
       \/ ReplaceTmp(l) /\ login' = [login EXCEPT ![l].at = "upsert", ![l].saved = TRUE]
       \/ WriteRaises(l) /\ login' = [login EXCEPT ![l].at = "upsert"]
    /\ UNCHANGED <<current, pool, importing, crashes>>

LoginWrites(l) ==
    /\ login[l].at = "persist"
    /\ \/ FillTmp(l) /\ UNCHANGED login
       \/ ReplaceTmp(l) /\ login' = [login EXCEPT ![l].at = "upsert", ![l].saved = TRUE]
       \/ WriteRaises(l) /\ login' = [login EXCEPT ![l] = Fails(l)]
    /\ UNCHANGED <<current, pool, importing, crashes>>

\* on_account: pool.upsert, then a check of the account whose failure is logged.
LoginUpserts(l) ==
    /\ login[l].at = "upsert"
    /\ pool' = [pool EXCEPT ![login[l].id] = FromLogin]
    /\ login' = [login EXCEPT ![l].at = "check", ![l].pooled = TRUE]
    /\ UNCHANGED <<fileVars, current, importing, crashes>>

LoginChecked(l) ==
    /\ login[l].at = "check"
    /\ OnlyLogin(l, [login[l] EXCEPT !.at = "end", !.state = "done"])

\* POST .../auth/login/cancel: the flag first ...
LoginCancel(l) ==
    /\ l = current /\ login[l].at \notin {"unborn", "end"} /\ ~login[l].cancel
    /\ OnlyLogin(l, [login[l] EXCEPT !.cancel = TRUE])

\* ... and after two seconds the task is cancelled at the await it is in.
CancelTimesOut(l) ==
    /\ login[l].cancel
    /\ login[l].at \in {"authorize", "ask", "sleep", "register", "upsert", "check"}
    /\ OnlyLogin(l, [login[l] EXCEPT !.at = "end", !.state = "cancelled"])

LoginStep(l) ==
    \/ RunStarts(l) \/ Authorized(l) \/ SeesCancel(l) \/ PollAnswered(l)
    \/ PollAgain(l) \/ PollDeadline(l) \/ Registered(l) \/ LoginWrites(l)
    \/ LoginUpserts(l) \/ LoginChecked(l) \/ CancelTimesOut(l)

-----------------------------------------------------------------------------
(* import_from_cline_config: the names taken are read once, then one        *)
(* snapshot after the other is written; a failed write ends the import.     *)
ImportStarts ==
    /\ importing = NoImport /\ job[Import] = NoJob
    /\ \E slots \in SUBSET Ids \ {{}} :
           importing' = [todo |-> slots, used |-> UsedNames]
    /\ UNCHANGED <<fileVars, login, current, pool, crashes>>

ImportNext ==
    /\ job[Import] = NoJob
    /\ \E a \in importing.todo :
           LET n == SnapshotFilename(a, importing.used)
           IN  /\ importing' = [todo |-> importing.todo \ {a},
                                used |-> {u \in importing.used : u[1] # n} \cup {<<n, a>>}]
               /\ OpenTmp(Import, n, Own(a))
    /\ UNCHANGED <<login, current, pool, crashes>>

ImportWrites ==
    /\ \/ FillTmp(Import) /\ UNCHANGED importing
       \/ ReplaceTmp(Import)
              /\ importing' = IF importing.todo = {} THEN NoImport ELSE importing
       \/ WriteRaises(Import) /\ importing' = NoImport
    /\ UNCHANGED <<login, current, pool, crashes>>

-----------------------------------------------------------------------------
(* TokenManager._persist_refreshed: the snapshot is read and written back   *)
(* with the new token, under the lock of the account.  Only an account that *)
(* was loaded from a file has one.                                          *)
TokenRefreshed(a) ==
    /\ pool[a] \in Names /\ disk[pool[a]] # NoFile
    /\ job[Saver] = NoJob
    /\ job' = [job EXCEPT ![Saver] = [at |-> "parse", name |-> pool[a], id |-> a]]
    /\ UNCHANGED <<disk, tmp, login, current, pool, importing, crashes>>

SaverParses ==
    /\ job[Saver].at = "parse"
    /\ Readable(job[Saver].name)
    /\ job' = [job EXCEPT ![Saver] = [at |-> "parsed", name |-> @.name,
                                      content |-> [disk[@.name] EXCEPT !.tok = job[Saver].id]]]
    /\ UNCHANGED <<disk, tmp, login, current, pool, importing, crashes>>

SaverWrites ==
    /\ \/ job[Saver].at = "parsed" /\ OpenTmp(Saver, job[Saver].name, job[Saver].content)
       \/ FillTmp(Saver) \/ ReplaceTmp(Saver) \/ WriteRaises(Saver)
    /\ UNCHANGED <<login, current, pool, importing, crashes>>

-----------------------------------------------------------------------------
(* POST /admin/pool/reload: snapshots of accounts the pool lacks join it.   *)
FileOf(a) == CHOOSE n \in Names : Readable(n) /\ disk[n].id = a

PoolReload ==
    /\ pool' = [a \in Ids |-> IF pool[a] = NotPooled /\ a \in Loadable THEN FileOf(a) ELSE pool[a]]
    /\ pool' # pool
    /\ UNCHANGED <<fileVars, login, current, importing, crashes>>

\* DELETE /admin/accounts/{id}: the pool forgets it, its snapshot stays.
DeleteAccount(a) ==
    /\ pool[a] # NotPooled
    /\ pool' = [pool EXCEPT ![a] = NotPooled]
    /\ UNCHANGED <<fileVars, login, current, importing, crashes>>

\* The process dies and is started again: lifespan() loads what is on disk.
CrashAndRestart ==
    /\ crashes < MaxCrashes
    /\ crashes' = crashes + 1
    /\ pool' = [a \in Ids |-> IF a \in Loadable THEN FileOf(a) ELSE NotPooled]
    /\ job' = [w \in Writers |-> NoJob]
    /\ login' = [l \in Logins |-> IF login[l].at = "unborn" THEN login[l]
                                  ELSE [login[l] EXCEPT !.at = "end", !.state = "idle"]]
    /\ current' = NoLogin
    /\ importing' = NoImport
    /\ tmp' = [n \in Names |-> NoFile]
    /\ UNCHANGED disk

Next ==
    \/ \E l \in Logins : LoginStart(l) \/ LoginStep(l) \/ LoginCancel(l)
    \/ ImportStarts \/ ImportNext \/ ImportWrites
    \/ \E a \in Ids : TokenRefreshed(a) \/ DeleteAccount(a)
    \/ SaverParses \/ SaverWrites \/ PoolReload \/ CrashAndRestart

(* The event loop runs a login's task; the HTTP client's timeouts end every *)
(* exchange, and the deadline of the poll loop is reached.                  *)
Fairness == \A l \in Logins : WF_vars(LoginStep(l)) /\ SF_vars(PollDeadline(l))

Spec == Init /\ [][Next]_vars /\ Fairness

-----------------------------------------------------------------------------
(* Every part has its shape, and a writer is a login being saved, the       *)
(* import or a saver.                                                       *)
AccountsTypeOK ==
    /\ disk \in [Names -> Snapshots \cup {NoFile}]
    /\ tmp \in [Names -> Snapshots \cup {NoFile, Torn}]
    /\ pool \in [Ids -> Names \cup {NotPooled, FromLogin}]
    /\ current \in Logins \cup {NoLogin}
    /\ \A l \in Logins :
           /\ login[l].at \in Points /\ login[l].state \in States
           /\ job[l] # NoJob <=> login[l].at = "persist"
    /\ job[Import] # NoJob => importing # NoImport

(* What the dashboard is told of a login is so: "done" means the account is *)
(* on disk and was pooled, and an attempt that failed or expired left       *)
(* neither; an account is never pooled before it would survive a restart.   *)
LoginTellsTruth ==
    \A l \in Logins :
        /\ login[l].state = "done" => login[l].saved /\ login[l].pooled
        /\ login[l].state \in {"error", "expired"} => ~login[l].saved /\ ~login[l].pooled
        /\ login[l].pooled => login[l].saved

(* The two together: every part has its shape, and the dashboard is told    *)
(* the truth.                                                               *)
AccountsInv == AccountsTypeOK /\ LoginTellsTruth

(* Whatever writes, fails, is cancelled or dies, and whenever: each pooled  *)
(* account can be loaded again, and every snapshot on disk is whole and     *)
(* holds the token of the account it names.                                 *)
SnapshotsSurvive ==
    /\ \A a \in Ids : pool[a] # NotPooled => a \in Loadable
    /\ \A n \in Names : disk[n] # NoFile => Readable(n) /\ disk[n].tok = disk[n].id

(* A login that was started ends by itself or by its cancellation, whatever *)
(* the user and the two services do.                                        *)
LoginEnds == \A l \in Logins : login[l].at = "new" ~> login[l].at = "end"
=============================================================================
