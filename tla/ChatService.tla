---------------------------- MODULE ChatService ----------------------------
(***************************************************************************)
(* The request path of the gateway: ChatService._open_model, complete(),   *)
(* stream_from() and their teardown (cline_gateway/service.py), run by any *)
(* number of concurrent requests over the shared Pool.                     *)
(*                                                                         *)
(* A request is an asyncio task.  It is interrupted only where it really   *)
(* suspends (network calls, sleeps, the token refresh, shielded tasks), so *)
(* one action below covers the code from one suspension point to the next. *)
(* The head of the attempt loop is a step of its own ("acquire"), which    *)
(* only adds interleavings to those of the code.                           *)
(*                                                                         *)
(*   idle -> acquire <-> waiting                 slot wait in acquire()    *)
(*           acquire -> refreshing -> sending    _send()                   *)
(*           sending -> open | draining | pausing                          *)
(*           draining -> acquire | reauth | pausing | done                 *)
(*           reauth -> resending -> open | redraining -> acquire           *)
(*           open -> closing -> closed -> done   body relayed to client    *)
(*           any suspension -> unwinding | done  exception or cancellation *)
(***************************************************************************)
EXTENDS Pool

CONSTANTS
    Requests,        \* client requests
    Streaming,       \* those served by open_stream()/stream_from()
    MaxAttempts,     \* upstream.max_attempts
    MaxProbes,       \* alternate shapes of an unknown model: 2, or 0 (probing off)
    Replies,         \* the error replies the upstream may give
    MaxInterventions,\* bound: balance polls and operator calls in a behaviour
    NoAccount        \* the absence of an account

ErrorReplies == {"credits", "entitlement", "unauthorized", "cap", "throttled",
                 "edge", "server", "client"}

ASSUME ServiceAssumption ==
    /\ IsFiniteSet(Requests)
    /\ Streaming \subseteq Requests
    /\ MaxAttempts \in Nat \ {0}
    /\ MaxProbes \in Nat
    /\ Replies \subseteq ErrorReplies
    /\ MaxInterventions \in Nat
    /\ NoAccount \notin Accounts

VARIABLES
    pc,              \* where each request is suspended
    model,           \* payload["model"]
    held,            \* the account whose slot the request holds
    subject,         \* the account an exchange is about once its slot is released
    retaken,         \* requests whose slot was taken back by reacquire()
    tried,           \* ids excluded from the next selection
    attempt,         \* iterations of the attempt loop begun
    probesLeft,      \* shapes an unknown model may still be tried with
    lastError,       \* class of last_error: does its code name a cap or plan?
    clean,           \* stream_ok / no error event in the body
    outcome,         \* what the client is told
    known,           \* models whose shape the registry has established
    interventions    \* balance polls and operator calls so far

requestVars == <<pc, model, held, subject, retaken, tried, attempt, probesLeft,
                 lastError, clean, outcome, known>>
vars == <<poolVars, requestVars, interventions>>

PCs == {"idle", "acquire", "waiting", "refreshing", "sending", "draining",
        "reauth", "resending", "redraining", "pausing", "unwinding", "open",
        "closing", "closed", "done"}

\* "scoped": the code names a model cap or a missing plan; "plain": any other.
ErrorClasses == {"none", "plain", "scoped"}

\* "exhausted" is what the free-model chain around the request makes of a cap.
Outcomes == {"pending", "served", "broken", "aborted", "plain", "scoped",
             "parked", "cooling", "unusable", "busy", "empty", "edge", "client",
             "exhausted"}

TypeOK ==
    /\ PoolTypeOK
    /\ pc \in [Requests -> PCs]
    /\ model \in [Requests -> Models]
    /\ held \in [Requests -> Accounts \cup {NoAccount}]
    /\ subject \in [Requests -> Accounts \cup {NoAccount}]
    /\ retaken \subseteq Requests
    /\ tried \in [Requests -> SUBSET Ids]
    /\ attempt \in [Requests -> 0..MaxAttempts]
    /\ probesLeft \in [Requests -> 0..MaxProbes]
    /\ lastError \in [Requests -> ErrorClasses]
    /\ clean \in [Requests -> BOOLEAN]
    /\ outcome \in [Requests -> Outcomes]
    /\ known \subseteq Models
    /\ interventions \in 0..MaxInterventions

Init ==
    /\ PoolInit
    /\ pc = [r \in Requests |-> "idle"]
    /\ model \in [Requests -> Models]
    /\ held = [r \in Requests |-> NoAccount]
    /\ subject = [r \in Requests |-> NoAccount]
    /\ retaken = {}
    /\ tried = [r \in Requests |-> {}]
    /\ attempt = [r \in Requests |-> 0]
    /\ probesLeft = [r \in Requests |-> 0]
    /\ lastError = [r \in Requests |-> "none"]
    /\ clean = [r \in Requests |-> FALSE]
    /\ outcome = [r \in Requests |-> "pending"]
    /\ known = {}
    /\ interventions = 0
-----------------------------------------------------------------------------
(* Building blocks of the handlers.                                        *)

Goto(r, label) == pc' = [pc EXCEPT ![r] = label]

\* The reservation of r: Router.acquire / reacquire, and release().
TakeSlot(r, a) ==
    /\ Reserve(a)
    /\ held' = [held EXCEPT ![r] = a]

GiveBack(r) ==
    /\ Release(held[r])
    /\ held' = [held EXCEPT ![r] = NoAccount]
    /\ retaken' = retaken \ {r}

\* _open_model raises or returns: its locals are gone.
Forget(r) ==
    /\ tried' = [tried EXCEPT ![r] = {}]
    /\ attempt' = [attempt EXCEPT ![r] = 0]
    /\ probesLeft' = [probesLeft EXCEPT ![r] = 0]
    /\ lastError' = [lastError EXCEPT ![r] = "none"]
    /\ subject' = [subject EXCEPT ![r] = NoAccount]

Finish(r, result) ==
    /\ Goto(r, "done")
    /\ outcome' = [outcome EXCEPT ![r] = result]
    /\ Forget(r)

\* The account just tried is excluded from the next selection.
Exclude(r) == tried' = [tried EXCEPT ![r] = @ \cup {IdOf[held[r]]}]

Note(r, class) == lastError' = [lastError EXCEPT ![r] = class]

\* Variables no step of a request writes.
requestFrame == <<lowBalance, members, created, model>>

-----------------------------------------------------------------------------
(* Selection of an account.                                                *)

Start(r) ==
    /\ pc[r] = "idle"
    /\ Goto(r, "acquire")
    /\ probesLeft' = [probesLeft EXCEPT
                        ![r] = IF model[r] \in known THEN 0 ELSE MaxProbes]
    /\ UNCHANGED <<poolVars, model, held, subject, retaken, tried, attempt,
                   lastError, clean, outcome, known>>

FirstChoice(r) == Selectable(tried[r], NeedsPaid(model[r]), model[r])

\* acquire() sleeps only for a first selection (wait_seconds is 0 once an
\* account was tried), and only for saturated accounts.
MayWait(r) ==
    /\ tried[r] = {}
    /\ Candidates({}, NeedsPaid(model[r]), model[r]) # {}

\* Mutant: no reuse of an account already tried.
FallbackChoiceWithoutReuse(r) ==
    IF NeedsPaid(model[r]) THEN Selectable(tried[r], FALSE, model[r]) ELSE {}

\* Mutant: the last resort ignores the in-flight cap.
FallbackChoiceOverCap(r) == Candidates({}, NeedsPaid(model[r]), model[r])

\* What is left when acquire() returned None: any lane for a usage model, then
\* the accounts already tried.
FallbackChoice(r) ==
    LET anyLane == IF NeedsPaid(model[r])
                   THEN Selectable(tried[r], FALSE, model[r]) ELSE {}
        reuse   == IF tried[r] # {}
                   THEN Selectable({}, NeedsPaid(model[r]), model[r]) ELSE {}
    IN  IF anyLane # {} THEN anyLane ELSE reuse

\* Mutant: the attempt is not counted.
AcquiredUncounted(r, a) ==
    /\ TakeSlot(r, a)
    /\ Goto(r, "sending") \/ Goto(r, "refreshing")
    /\ UNCHANGED <<requestFrame, healthVars, parked, subject, retaken, tried,
                   attempt, probesLeft, lastError, clean, outcome, known>>

\* An account was selected; its token may have to be refreshed first.
Acquired(r, a) ==
    /\ TakeSlot(r, a)
    /\ attempt' = [attempt EXCEPT ![r] = @ + 1]
    /\ Goto(r, "sending") \/ Goto(r, "refreshing")
    /\ UNCHANGED <<requestFrame, healthVars, parked, subject, retaken, tried,
                   probesLeft, lastError, clean, outcome, known>>

\* Mutant: the loop runs once too often.
AcquireUntriedOnceMore(r) ==
    /\ pc[r] \in {"acquire", "waiting"}
    /\ \E a \in FirstChoice(r) : Acquired(r, a)

AcquireUntried(r) ==
    /\ pc[r] \in {"acquire", "waiting"}
    /\ attempt[r] < MaxAttempts
    /\ \E a \in FirstChoice(r) : Acquired(r, a)

WaitForSlot(r) ==
    /\ pc[r] = "acquire"
    /\ attempt[r] < MaxAttempts
    /\ FirstChoice(r) = {}
    /\ MayWait(r)
    /\ Goto(r, "waiting")
    /\ UNCHANGED <<poolVars, model, held, subject, retaken, tried, attempt,
                   probesLeft, lastError, clean, outcome, known>>

\* acquire() returns None: at once, or from its sleep when the deadline has
\* passed or no account is left that could free a slot.
SelectionFails(r) ==
    /\ attempt[r] < MaxAttempts
    /\ FirstChoice(r) = {}
    /\ \/ pc[r] = "acquire" /\ ~MayWait(r)
       \/ pc[r] = "waiting"

AcquireFallback(r) ==
    /\ SelectionFails(r)
    /\ \E a \in FallbackChoice(r) : Acquired(r, a)

LastErrorOr(r, other) == IF lastError[r] = "none" THEN other ELSE lastError[r]

Refuse(r) ==
    /\ SelectionFails(r)
    /\ FallbackChoice(r) = {}
    /\ LET reason == UnavailableReason(model[r])
       IN  Finish(r, IF lastError[r] = "scoped" THEN "scoped"
                     ELSE IF reason # "none" THEN reason
                     ELSE LastErrorOr(r, "empty"))
    /\ UNCHANGED <<poolVars, model, held, retaken, clean, known>>

AttemptsExhausted(r) ==
    /\ pc[r] = "acquire"
    /\ attempt[r] = MaxAttempts
    /\ Finish(r, LastErrorOr(r, "empty"))
    /\ UNCHANGED <<poolVars, model, held, retaken, clean, known>>

-----------------------------------------------------------------------------
(* The first exchange with the selected account.                           *)

RefreshUsable(r) ==
    /\ pc[r] = "refreshing"
    /\ Goto(r, "sending")
    /\ UNCHANGED <<poolVars, model, held, subject, retaken, tried, attempt,
                   probesLeft, lastError, clean, outcome, known>>

\* Refresh failed and the token has expired: rotate, last_error as it was.
RefreshUnusable(r) ==
    /\ pc[r] = "refreshing"
    /\ GiveBack(r)
    /\ Exclude(r)
    /\ Goto(r, "acquire")
    /\ UNCHANGED <<requestFrame, healthVars, parked, subject, attempt,
                   probesLeft, lastError, clean, outcome, known>>

\* TransportError: back off, then try another account.
SendFails(r) ==
    /\ pc[r] = "sending"
    /\ GiveBack(r)
    /\ Exclude(r)
    /\ Note(r, "plain")
    /\ Goto(r, "pausing")
    /\ UNCHANGED <<requestFrame, healthVars, parked, subject, attempt,
                   probesLeft, clean, outcome, known>>

PauseEnds(r) ==
    /\ pc[r] = "pausing"
    /\ Goto(r, "acquire")
    /\ UNCHANGED <<poolVars, model, held, subject, retaken, tried, attempt,
                   probesLeft, lastError, clean, outcome, known>>

\* 200, on the first exchange or on the one after a token refresh: the
\* reservation passes to complete() or stream_from().
Opened(r) ==
    /\ pc[r] \in {"sending", "resending"}
    /\ Goto(r, "open")
    /\ known' = IF MaxProbes > 0 THEN known \cup {model[r]} ELSE known
    /\ Forget(r)
    /\ UNCHANGED <<poolVars, model, held, retaken, clean, outcome>>

\* Any other status: the body is read and the response closed.
ErrorStatus(r) ==
    /\ \/ pc[r] = "sending" /\ Goto(r, "draining")
       \/ pc[r] = "resending" /\ Goto(r, "redraining")
    /\ UNCHANGED <<poolVars, model, held, subject, retaken, tried, attempt,
                   probesLeft, lastError, clean, outcome, known>>
-----------------------------------------------------------------------------
(* Classification of an error reply.  The slot is given back first, in the *)
(* same step; the reply decides about the account and about the request.   *)

\* The code text decides the class of an error whose kind does not.
SomeClass == {"plain", "scoped"}

Drained(r, kind) ==
    /\ pc[r] = "draining"
    /\ kind \in Replies
    /\ GiveBack(r)
    /\ UNCHANGED <<requestFrame, clean, known>>

\* `continue`: on to another account.
Rotate(r, class) ==
    /\ Exclude(r)
    /\ Note(r, class)
    /\ UNCHANGED <<attempt, probesLeft, outcome>>

\* 402: a free model cools the account, a billed one retires its paid lane.
RejectedForCredits(r) ==
    /\ Drained(r, "credits")
    /\ IF model[r] \in FreeModels THEN Cool(held[r]) ELSE Retire(held[r])
    /\ \E class \in SomeClass : Rotate(r, class)
    /\ Goto(r, "acquire")
    /\ UNCHANGED <<parked, subject>>

\* Mutant: a per-model cap also cools the account.
RejectedForModelCools(r) ==
    /\ Drained(r, "entitlement") \/ Drained(r, "cap")
    /\ CapModel(held[r], model[r])
    /\ Cool(held[r])
    /\ Rotate(r, "scoped")
    /\ Goto(r, "acquire")
    /\ UNCHANGED subject

\* 403 ENTITLEMENT_ERROR, or a 429 that names a per-model cap: only the model
\* is parked on the account.
RejectedForModel(r) ==
    /\ Drained(r, "entitlement") \/ Drained(r, "cap")
    /\ CapModel(held[r], model[r])
    /\ Rotate(r, "scoped")
    /\ Goto(r, "acquire")
    /\ UNCHANGED <<healthVars, subject>>

\* 401: a forced refresh follows, without the slot.
RejectedUnauthorized(r) ==
    /\ Drained(r, "unauthorized")
    /\ subject' = [subject EXCEPT ![r] = held[r]]
    /\ \E class \in SomeClass : Rotate(r, class)
    /\ Goto(r, "reauth")
    /\ UNCHANGED <<healthVars, parked>>

\* Any other 429.
RejectedThrottled(r) ==
    /\ Drained(r, "throttled")
    /\ Cool(held[r])
    /\ \E class \in SomeClass : Rotate(r, class)
    /\ Goto(r, "acquire")
    /\ UNCHANGED <<parked, subject>>

\* An HTML 403 from the edge: cool, and tell the client to retry.
RejectedByEdge(r) ==
    /\ Drained(r, "edge")
    /\ Cool(held[r])
    /\ Finish(r, "edge")
    /\ UNCHANGED parked

\* 5xx: cool the account only when another one is ready, and back off.
RejectedByServer(r) ==
    /\ Drained(r, "server")
    /\ IF \E b \in members : IsReady(b) /\ IdOf[b] # IdOf[held[r]]
       THEN Cool(held[r])
       ELSE UNCHANGED healthVars
    /\ \E class \in SomeClass : Rotate(r, class)
    /\ Goto(r, "pausing")
    /\ UNCHANGED <<parked, subject>>

\* 4xx for an unknown model: the next shape, and the account stays eligible.
ProbeNextShape(r) ==
    /\ Drained(r, "client")
    /\ probesLeft[r] > 0
    /\ probesLeft' = [probesLeft EXCEPT ![r] = @ - 1]
    /\ tried' = [tried EXCEPT ![r] = @ \ {IdOf[held[r]]}]
    /\ \E class \in SomeClass : Note(r, class)
    /\ Goto(r, "acquire")
    /\ UNCHANGED <<healthVars, parked, subject, attempt, outcome>>

\* 4xx otherwise, or marked no-retry: surfaced to the client.
RejectedForClient(r) ==
    /\ Drained(r, "client")
    /\ Finish(r, "client")
    /\ UNCHANGED <<healthVars, parked>>

-----------------------------------------------------------------------------
(* 401: refresh the token by force and retry on the same account.          *)

ReauthFails(r) ==
    /\ pc[r] = "reauth"
    /\ LET a == subject[r]
       IN  IF errorCount[a] >= KillAfter THEN Kill(a) ELSE Cool(a)
    /\ subject' = [subject EXCEPT ![r] = NoAccount]
    /\ Goto(r, "acquire")
    /\ UNCHANGED <<requestFrame, inFlight, parked, held, retaken, tried,
                   attempt, probesLeft, lastError, clean, outcome, known>>

\* Mutant: the retry runs on the slot that was released.
ReauthSucceedsWithoutSlot(r) ==
    /\ pc[r] = "reauth"
    /\ held' = [held EXCEPT ![r] = subject[r]]
    /\ retaken' = retaken \cup {r}
    /\ tried' = [tried EXCEPT ![r] = @ \ {IdOf[subject[r]]}]
    /\ subject' = [subject EXCEPT ![r] = NoAccount]
    /\ Goto(r, "resending")
    /\ UNCHANGED <<requestFrame, inFlight, healthVars, parked, attempt,
                   probesLeft, lastError, clean, outcome, known>>

\* reacquire() takes the slot back whatever the load of the account is now.
ReauthSucceeds(r) ==
    /\ pc[r] = "reauth"
    /\ TakeSlot(r, subject[r])
    /\ retaken' = retaken \cup {r}
    /\ tried' = [tried EXCEPT ![r] = @ \ {IdOf[subject[r]]}]
    /\ subject' = [subject EXCEPT ![r] = NoAccount]
    /\ Goto(r, "resending")
    /\ UNCHANGED <<requestFrame, healthVars, parked, attempt, probesLeft,
                   lastError, clean, outcome, known>>

RetryFailed(r, class) ==
    /\ Cool(held[r])
    /\ GiveBack(r)
    /\ Note(r, class)
    /\ Goto(r, "acquire")
    /\ UNCHANGED <<requestFrame, parked, subject, tried, attempt, probesLeft,
                   clean, outcome, known>>

ResendFails(r) ==
    /\ pc[r] = "resending"
    /\ RetryFailed(r, "plain")

\* Whatever the second error is, the account is cooled.
ResendRejected(r) ==
    /\ pc[r] = "redraining"
    /\ \/ Replies \cap {"cap", "entitlement"} # {} /\ RetryFailed(r, "scoped")
       \/ Replies # {} /\ RetryFailed(r, "plain")

-----------------------------------------------------------------------------
(* After the 200: the body, and the shielded teardown.                     *)

\* The body ended, or broke off; `ok` is stream_ok.  An error frame or a read
\* failure makes it FALSE.
BodyEnds(r) ==
    /\ pc[r] = "open"
    /\ \E ok \in BOOLEAN :
         /\ clean' = [clean EXCEPT ![r] = ok]
         /\ outcome' = [outcome EXCEPT ![r] = IF ok THEN "served" ELSE "broken"]
    /\ Goto(r, "closing")
    /\ UNCHANGED <<poolVars, model, held, subject, retaken, tried, attempt,
                   probesLeft, lastError, known>>

\* The client goes away.  The generator of a stream is closed with stream_ok
\* as it stands; complete() leaves by the exception.
Disconnect(r) ==
    /\ pc[r] = "open"
    /\ \E ok \in BOOLEAN :
         /\ ok => r \in Streaming
         /\ clean' = [clean EXCEPT ![r] = ok]
    /\ outcome' = [outcome EXCEPT ![r] = "aborted"]
    /\ Goto(r, "closing")
    /\ UNCHANGED <<poolVars, model, held, subject, retaken, tried, attempt,
                   probesLeft, lastError, known>>

\* _finish_stream: close, release, and on_success in one go.
CloseStream(r) ==
    /\ pc[r] = "closing"
    /\ r \in Streaming
    /\ GiveBack(r)
    /\ IF clean[r] THEN OnSuccess(held[r]) ELSE UNCHANGED healthVars
    /\ clean' = [clean EXCEPT ![r] = FALSE]
    /\ Goto(r, "done")
    /\ UNCHANGED <<requestFrame, parked, subject, tried, attempt, probesLeft,
                   lastError, outcome, known>>

\* _close_and_release on its own task; complete() resumes afterwards.
CloseResponse(r) ==
    /\ pc[r] = "closing"
    /\ r \notin Streaming
    /\ GiveBack(r)
    /\ subject' = [subject EXCEPT ![r] = held[r]]
    /\ Goto(r, "closed")
    /\ UNCHANGED <<requestFrame, healthVars, parked, tried, attempt,
                   probesLeft, lastError, clean, outcome, known>>

CompleteReturns(r) ==
    /\ pc[r] = "closed"
    /\ IF clean[r] THEN OnSuccess(subject[r]) ELSE UNCHANGED healthVars
    /\ subject' = [subject EXCEPT ![r] = NoAccount]
    /\ clean' = [clean EXCEPT ![r] = FALSE]
    /\ Goto(r, "done")
    /\ UNCHANGED <<requestFrame, inFlight, parked, held, retaken, tried,
                   attempt, probesLeft, lastError, outcome, known>>

-----------------------------------------------------------------------------
(* Cancellation, or an exception no handler catches.                       *)

\* Mutant: no `finally`, the slot is lost.
AbortLeaks(r) ==
    /\ pc[r] \in {"refreshing", "sending", "draining", "resending", "redraining"}
    /\ Finish(r, "aborted")
    /\ UNCHANGED <<poolVars, model, held, retaken, clean, known>>

\* With a slot in hand, `finally` releases it on a shielded task.
Abort(r) ==
    /\ pc[r] \in {"refreshing", "sending", "draining", "resending", "redraining"}
    /\ Goto(r, "unwinding")
    /\ outcome' = [outcome EXCEPT ![r] = "aborted"]
    /\ Forget(r)
    /\ UNCHANGED <<poolVars, model, held, retaken, clean, known>>

AbortUnheld(r) ==
    /\ pc[r] \in {"waiting", "pausing", "reauth"}
    /\ Finish(r, "aborted")
    /\ UNCHANGED <<poolVars, model, held, retaken, clean, known>>

Unwind(r) ==
    /\ pc[r] = "unwinding"
    /\ GiveBack(r)
    /\ Goto(r, "done")
    /\ UNCHANGED <<requestFrame, healthVars, parked, subject, tried, attempt,
                   probesLeft, lastError, clean, outcome, known>>

\* complete() is cancelled while its teardown runs: the release still happens,
\* on_success does not.
AbortTeardown(r) ==
    /\ pc[r] \in {"closing", "closed"}
    /\ r \notin Streaming
    /\ clean[r]
    /\ clean' = [clean EXCEPT ![r] = FALSE]
    /\ outcome' = [outcome EXCEPT ![r] = "aborted"]
    /\ UNCHANGED <<poolVars, pc, model, held, subject, retaken, tried, attempt,
                   probesLeft, lastError, known>>

-----------------------------------------------------------------------------
(* The system.                                                             *)

\* Steps of the request itself: its next step is always the event loop's to
\* run, and every call it waits for has a timeout.
Advance(r) ==
    \/ AcquireUntried(r) \/ WaitForSlot(r) \/ AcquireFallback(r)
    \/ Refuse(r) \/ AttemptsExhausted(r)
    \/ RefreshUsable(r) \/ RefreshUnusable(r)
    \/ SendFails(r) \/ PauseEnds(r) \/ Opened(r) \/ ErrorStatus(r)
    \/ RejectedForCredits(r) \/ RejectedForModel(r) \/ RejectedUnauthorized(r)
    \/ RejectedThrottled(r) \/ RejectedByEdge(r) \/ RejectedByServer(r)
    \/ ProbeNextShape(r) \/ RejectedForClient(r)
    \/ ReauthFails(r) \/ ReauthSucceeds(r) \/ ResendFails(r) \/ ResendRejected(r)
    \/ BodyEnds(r) \/ CloseStream(r) \/ CloseResponse(r) \/ CompleteReturns(r)
    \/ Unwind(r)

\* Steps the client's departure or a shutdown imposes.
Interrupt(r) == Disconnect(r) \/ Abort(r) \/ AbortUnheld(r) \/ AbortTeardown(r)

ClockTick ==
    /\ \/ \E a \in Accounts : CooldownPasses(a)
       \/ \E a \in Accounts, m \in Models : CapLifts(a, m)
    /\ UNCHANGED <<requestVars, interventions>>

Balance ==
    /\ interventions < MaxInterventions
    /\ interventions' = interventions + 1
    /\ \E a \in Accounts : BalanceIsLow(a) \/ BalanceIsFine(a)
    /\ UNCHANGED requestVars

Operator ==
    /\ interventions < MaxInterventions
    /\ interventions' = interventions + 1
    /\ \E a \in Accounts : EnableAccount(a) \/ AddAccount(a) \/ DeleteAccount(a)
    /\ UNCHANGED requestVars

Next ==
    \/ \E r \in Requests : /\ Start(r) \/ Advance(r) \/ Interrupt(r)
                           /\ UNCHANGED interventions
    \/ ClockTick
    \/ Balance
    \/ Operator

Spec == Init /\ [][Next]_vars
-----------------------------------------------------------------------------
(* Properties.                                                             *)

\* The requests that hold a slot of account a.
Holders(a) == {r \in Requests : held[r] = a}

\* The in-flight counter of an account object is exactly the number of
\* requests holding one of its slots: no path through failover, re-auth,
\* cancellation or teardown leaks a slot or gives one back twice.
SlotsBalanced == \A a \in Accounts : inFlight[a] = Cardinality(Holders(a))

\* pool.py:265 "The configured cap must be a cap": an account is above it only
\* by requests that took their slot back with reacquire().
CapRespected ==
    \A a \in Accounts :
        inFlight[a] <= MaxInFlight + Cardinality({r \in retaken : held[r] = a})

\* A request holds a slot exactly while it has an upstream exchange in hand;
\* between exchanges (slot waits, back-off, a forced refresh) it holds none.
ExchangePCs == {"refreshing", "sending", "draining", "resending", "redraining",
                "unwinding", "open", "closing"}

HeldInExchange == \A r \in Requests : held[r] # NoAccount <=> pc[r] \in ExchangePCs

SubjectInTransit ==
    \A r \in Requests : subject[r] # NoAccount <=> pc[r] \in {"reauth", "closed"}

RetakenIsHeld == \A r \in retaken : held[r] # NoAccount

\* The inductive invariant behind the slot properties.
SlotInv ==
    /\ HeldInExchange
    /\ SubjectInTransit
    /\ RetakenIsHeld
    /\ SlotsBalanced
    /\ CapRespected

\* A request is turned away by the pool (busy, cooling, parked, ...) only if no
\* account could have served it right then, whichever it had tried before.
NeverRefusedWithFreeSlot ==
    [][\A r \in Requests :
          /\ pc[r] \in {"acquire", "waiting"}
          /\ pc'[r] = "done"
          /\ outcome'[r] # "aborted"
          /\ attempt[r] < MaxAttempts
          => Selectable({}, NeedsPaid(model[r]), model[r]) = {}]_vars

\* Could account a serve model m, leaving aside its load?
Serves(a, m) ==
    /\ a \in members
    /\ IsReady(a)
    /\ ~(NeedsPaid(m) /\ paidExhausted[a])
    /\ m \notin parked[a]

\* A cap or an entitlement error is model-scoped: the step that parks a model
\* on an account changes nothing about any other account or model.
ParkingIsModelScoped ==
    [][\A a \in Accounts, m \in Models :
          m \in parked'[a] \ parked[a]
          => \A b \in Accounts, n \in Models :
                <<b, n>> # <<a, m>> => (Serves(b, n) <=> Serves(b, n)')]_vars

\* The pool keeps the promise of the abstract slot ledger: its counters, as the
\* handlers use them, implement `holds` and `extra`.
Ledger == INSTANCE Reservations WITH holds <- held, extra <- retaken
LedgerSpec == Ledger!Spec

\* ... and every slot taken is given back, so long as the tasks are run.
LedgerFairSpec == Ledger!FairSpec
=============================================================================
