# ClineGate: the gateway in TLA+

ClineGate is a local gateway: clients speak the OpenAI or the Anthropic dialect
to it, and it forwards their requests to the Cline API with the credentials of
one of a pool of accounts, rotating between accounts when one fails. It is a
single process with one asyncio event loop and a few worker threads.

This directory models the parts of it where the difficulty lies: who holds
which slot of which account, what an upstream error does to which account, what
the client is told, what is on disk, which build runs, and what happens when
requests, token refreshes, operators, processes and crashes interleave.

## 1. Inventory

Paths are relative to `src/cline_gateway/`.

| Component | State it keeps | Operations | Hard part |
|---|---|---|---|
| Account pool (`pool.py`) | per account: in-flight count, state, cooldown, error count, paid lane, per-model caps; the registry of accounts | acquire (with slot wait), reacquire, release, cool, retire, restore, kill, on_success, cap_model, enable, upsert, remove | a counter shared by all requests, given back on every path |
| Request path (`service.py`) | per request: slot held, accounts tried, attempt, last error | `_open_model`, `_open` (free-model chain), `complete`, `open_stream`, `stream_from`, teardown | failover across awaits, cancellation at any of them |
| Stream relay (`service.py`, `translate_anthropic.py`) | per stream: pending bytes, open content blocks, `stream_ok` | frame splitting, error frames, event translation, finish | a well-formed event sequence whatever the upstream sends |
| Token manager (`tokens.py`) | tokens and expiry of each account, a lock per account id, the credential source on disk | refresh (single flight), reload from source, persist, refresh loop, balance and plan polls | the token changes under requests; crash between memory and disk |
| Credential files (`accounts_dir.py`, `tokens.py`) | snapshot files, `pool.json` | load, write (temp file and replace) | crash during a write, two writers |
| Device login (`device_auth.py`, `api_dash.py`) | the flow in progress, the snapshot written | start, status, cancel, run | cancel racing the browser's approval |
| Availability (`availability.py`) | none (reads the pool) | per-account, per-model status, matrix | must agree with what the router does |
| Registry and catalogue (`registry.py`, `model_catalog.py`) | aliases, learned shapes, the live feed | resolve, lane_for, learn, refresh_if_due | concurrent refreshes, a failed one keeps the last feed |
| Request dialects (`translate_anthropic.py`, `upstream.py`) | none (the client keeps the history) | messages and controls to the upstream, the reply back | what one turn loses is wrong in all later ones |
| Rate limiter (`ratelimit.py`, `deps.py`) | sliding window per client key | check, reset | window boundary |
| Updater (`updater.py`) | cached release answer, the downloaded file | check, download, apply | a file that is executed next |
| Admin API (`api_admin.py`, `api_dash.py`) | none of its own | add, delete, enable, reload, persist, settings | acts on accounts requests are using |
| Usage store, capture, log buffer (`store.py`, `logbuffer.py`) | sqlite rows, JSONL lines, a ring | record, summary, tail | none: one lock each, telemetry only |
| HTTP surface (`app.py`, `api_*.py`, `deps.py`) | none | routing, error envelopes | none beyond the request path |
| Desktop processes (`gui_main.py`) | the named mutex, the processes of the exe | start, second copy, window, shutdown | several processes, the update swaps the file they run from |
| Tk window, client configuration, detection (`gui.py`, `client_sync.py`, `cline_detect.py`) | the server's thread, flags of the window, config files of other tools | start, stop, restart, sync | threads that share the window's fields |

How they interact. A route builds a payload and calls `ChatService.complete` or
`open_stream`; that acquires an account from the pool, refreshes its token
through the token manager if it is about to expire, sends the request, and on
an error reply changes the health of the account and rotates. After a 200 the
slot passes to the relay, whose shielded teardown gives it back. The token
manager's loops and the admin API change the same accounts from the side.
`PoolManager._lock` serialises pool operations, and none of its critical
sections suspends, so each operation is one atomic step.

## 2. Modules

| Module | Models | Role |
|---|---|---|
| `Pool` | `pool.py`: `Account`, `Router`, `PoolManager` | state and operations of the pool |
| `ChatService` | `service.py`: `_open_model`, `complete`, `stream_from`, teardown; extends `Pool` | the system: requests, clock, balance poll, operator |
| `Reservations` | what the pool promises about slots | abstract specification that `ChatService` implements |
| `ChatServiceProofs` | | theorems about `ChatService`, `FreeChain` and `Availability` |
| `Availability` | `availability.py`, `registry.model_lane`; extends `Pool` | what the dashboard says an account can serve |
| `Tokens` | `tokens.py`, the reload of `api_admin.py`, the shutdown of `app.py` | credentials of one account, in memory and on disk |
| `MessageEvents` | the event order of an Anthropic message | abstract specification that `StreamRelay` implements |
| `StreamRelay` | `stream_from`, the translator of `translate_anthropic.py`, `aggregate_openai_stream` | one stream, frame by frame |
| `FreeChain` | `service._open`; extends `ChatService` | the fallback between free models around the request path |
| `Clock`, `RateLimit`, `Catalogue` | `ratelimit.py`, `deps.client_key`, `model_catalog.py`, `registry._parse_catalogue` | two components that read one clock |
| `Front` | `/v1/models`, the availability page, "Sync models"; composes the three | the read side of the HTTP surface |
| `CredentialFiles` | `accounts_dir.py` | the snapshot folder and its writers |
| `Accounts` | `device_auth.py`, its routes, the import, the saving of tokens, reload, delete, restart; extends `CredentialFiles` | accounts between the folder and the pool |
| `Desktop` | `gui_main.main`, `updater.py`, the update and shutdown routes | processes of the exe and the self-update |
| `Window` | `ServerController` and the lifecycle of `App` in `gui.py` | the Tk window and the gateway thread it runs |
| `Dialects` | `translate_anthropic.py` (requests and replies), `build_upstream_body` | one conversation across the two dialects |
| `StreamRelayProofs`, `TokensProofs`, `FrontProofs`, `AccountsProofs`, `DesktopProofs`, `WindowProofs`, `DialectsProofs` | | theorems about the module of that name |
| `MCChatService`, `MCFreeChain`, `MCTokens`, `MCStreamRelay`, `MCFront`, `MCAccounts`, `MCDesktop`, `MCWindow`, `MCDialects` | | instances for TLC |

How the state corresponds to the code.

* `Pool`. An element of `Accounts` is one `Account` object; two objects may
  have the same id, because `upsert` replaces the registered object while
  requests go on with the old one. `state` is `Account.state`, with `COOLING`
  split at `cooldown_until`: `cooling` before it, `cooled` after it, when
  `is_ready()` holds although the field still says COOLING. `EXHAUSTED` is left
  out: only `retire(paid_only=False)` sets it, and nothing calls that.
  `errorCount` saturates at `KillAfter`, the only value it is compared with.
  `parked` holds the models whose `model_caps` entry lies in the future. The
  three routing strategies only order candidates, so `Selectable` allows each of
  them; what `quota_aware` filters is kept.
* `ChatService`. Each request is one coroutine. An action covers the code from
  one suspension point to the next, which is what the event loop makes atomic.
  `held` is the slot in hand, `tried` the `exclude` set, `attempt` the loop
  index, `subject` the account an exchange is about after its slot was given
  back. `lastError` keeps of `last_error` what decides the final refusal: does
  its code name a model cap or a missing plan. A reply is one of the kinds that
  `classify()` returns. The head of the attempt loop is a step of its own, which
  adds interleavings the code does not have and removes none.
* `Tokens`. A version is one credential set; versions are numbered in the order
  they were issued, which is the order of their expiries. `age` says how far a
  version is from its expiry, by the two thresholds the code compares with.
  Work done by `asyncio.to_thread` is an action of its own, and goes on when its
  task is cancelled (`stray`). `drops` counts deletions of the account, each of
  which makes the next refresh use a new lock.
* `StreamRelay`. A frame is one kind of upstream event. `frames` are those
  completed so far, `pending` the one under way, whole or cut; the pair stands
  for the bytes received and not yet split. `translator` is the
  `AnthropicStreamTranslator`, `sent` what the client was sent, `streamOk` and
  `errorEmitted` the locals of `stream_from`, `recorded` the status that goes to
  the store. Names, token counts and JSON that is not an object are left out.
* `FreeChain`. `attempted` is the list of that name, and a request whose
  `_open_model` failed is `Failing` until the chain moves on or answers. The
  failure and the look at the pool that follows are one step of the event loop
  and two here, which only adds interleavings. `CandidatesAfter(m)` are the
  positions of the free models behind m; the least of them is opened next.
* `RateLimit`, `Catalogue`, `Front`. `clock` is `time.monotonic()` in ticks,
  `Second` of them to a second, so that the rounding of `Retry-After` shows. A
  bucket is the deque; `Popped` is how many expired entries `check()` takes from
  its left end. A handler is idle, queued at the `asyncio.Lock` or fetching; `queue` is the lock
  with its waiters. The feed publishes `Feed[1]`, `Feed[2]`, ... and answers
  with what is published when the fetch reaches it. `admitted`, `refusal`,
  `shown` and `lastFetch` are histories the properties read.
* `CredentialFiles`, `Accounts`. A snapshot is the pair of the account it names
  and the account whose token it holds. `write_snapshot()` is three steps (open,
  fill, replace), and all writers of one name share its temporary file; files
  behave as on Windows, where what is open elsewhere cannot be moved. A login is
  at the `await` named by `login[l].at`. `pool` says only which file an account
  was loaded from, which decides where its refreshed token goes.
* `Desktop`. An element of `Processes` is one process of the exe, and `build`
  the file it was started from; `exe` and `newExe` are the two files, by their
  content. An element of `Updates` is one run of the dashboard's download and
  apply, and then the batch file that waits, moves and starts. `AlreadyRunning`
  is the named mutex, which lives as long as any process has a handle of it.
* `Window`. A start is named by the value of `_lifecycle` it was given; `thread`
  and `awaiting` are, for each, the gateway thread and the thread that waits for
  it to answer. The UI thread is free or in the join of `stop()`, where it runs
  no click and no callback. `current` and `server` are `_thread` and `_server`;
  for each restart, named by the `_lifecycle` of its stop, `waiter` is its
  `wait_and_start`, of which several may run, and `target` the thread it joins. A
  version of `config.yaml` is the number of its save. Four variables are history:
  `restart` and `promised` are the last restart that was begun and the version it
  is for, `abandoned` the restarts that were pending when Stop was clicked,
  `strays` the living threads whose reference a waiter overwrote.
* `Dialects`. `history` is the `messages` array the client keeps and posts;
  `lived` is the conversation as it happened, a history variable. `body` is the
  request under way, with what the client asked for. A payload is a function of
  the names of the controls. `Kept` is the comprehension with which the
  translator picks the blocks of a type, a recursive function over the blocks.

## 3. What the runs check

All runs use 2 workers and finish in less than four minutes each. Deadlock is
not checked where every request, conversation or process ends, and the model
then rightly has no step left.

| Run | Question | Instance |
|---|---|---|
| `core` | Do slots, refusals and health stay right through every failover path? | 2 accounts of one slot, 2 requests (one streamed), a free and a billed model, every error reply, 2 attempts |
| `interventions` | ... while accounts are enabled, deleted, replaced and polled under the requests? | 2 accounts, a third object that replaces one of them, 2 streams, `quota_aware`, 2 interventions, 401s |
| `chain` | Is every request answered and every slot given back, and is a free model left only when nobody could serve it? | 2 accounts of one slot, 2 streams that start at different models, a chain of free, billed, free; caps, throttles, 5xx and 4xx, one probe |
| `tokens` | Are refreshes single-flight, useful, and saved? | a request, a loop task and a reload, three kinds of source, 2 versions, one deletion, one crash |
| `tokensends` | Does every refresh, reload and shutdown end? | two loop tasks for one permit, a request, a reload |
| `relay` | Is every stream a legal message, the same as the unstreamed answer, recorded as what it was? | every body of up to 4 frames, cut, broken off or abandoned anywhere, both dialects |
| `front` | Is the limit exact and `Retry-After` honest; is the catalogue one payload, the newest fetched, without a herd? | 2 handlers, a limited and an unlimited key, 5 payloads (an unusable item, a missing group, no item at all, two sound ones), 5 instants |
| `accounts` | Does the folder survive its writers, failures and a crash, and does a login tell the truth? | 3 accounts, two of which share an e-mail address, one login, one import, one saver, one crash |
| `sharedemail` | ... and a login of an account that shares its address? | the same without a crash |
| `desktop` | Do copies and an update end with one gateway of a verified build? | 5 processes, 3 launches, one update, one kill |
| `window` | Does the window run one gateway, the one configured, and say so? | 4 clicks of Start, Stop and Save at any time |
| `dialects` | Is the upstream told what happened and asked what the client asked? | 5 messages, 2 calls a reply, 6 kinds of user content, every pair of thinking controls and both limits in 5 body shapes and both dialects |

The properties. `AccountsInv`, `FrontInv`, `DesktopInv`, `RelayInv` and
`WindowInv` are each the type invariant of the module and one of the properties
below (`LoginTellsTruth`, `CatalogueIsOneFeed`, `AtMostOneGateway`,
`RecordedTruthfully`, `LiveIsReferenced`), the form in which they are inductive
once strengthened.

* `SlotsBalanced`: the counter of an account is the number of requests that hold
  its slots. Every path must keep it: four error branches that release, a
  re-auth that releases and takes again, two shielded teardowns, cancellation
  anywhere. `CapRespected`: an account is above its cap only by slots that
  `reacquire()` took back.
* `NeverRefusedWithFreeSlot`: a request is turned away by the pool only if no
  account could have taken it at that moment, whichever it had tried before.
* `ParkingIsModelScoped`: the step that parks a model changes nothing for any
  other model or account.
* `AgreesWithRouter`: the availability page, which computes from the same fields
  with code of its own, shows a model as served exactly if the router has a
  candidate for it, but for a missing plan, which only the page looks at.
* `LedgerSpec`, `LedgerFairSpec`: `ChatService` implements `Reservations`, with
  `holds <- held` and `extra <- retaken`; under fairness every slot is dropped.
* `EveryRequestEnds`: no sequence of saturation and errors keeps a request for
  ever, nor do caps that lift and return while it walks down the chain.
* `LeavesOnlyCappedModels`: a request changes its model only between exchanges,
  and only when no account in the pool could serve the old one.
  `ExhaustedHonestly`: a client told that all free models are capped had every
  free model of the chain attempted from its own on, in order, and no other.
* `SingleFlight`, `NoStampede`, `SavedWhenIdle`, `EveryRefreshEnds`: one refresh
  of an account at a time, cancelled ones included; a task that queued does not post again for a token that was replaced
  meanwhile; a restart finds a token as new as the one in memory unless a save
  failed, was interrupted, or overwrote an import; nobody waits for ever. The first two are
  claimed while the account is in the pool: `drop_lock()` takes away the lock
  under a refresh, and then two may run.
* `MessageSpec`: what an Anthropic client receives is always a prefix of a legal
  message (`MessageEvents`): blocks opened and closed in turn, deltas only in
  the open block and of its kind, one end. `SameAsUnstreamed`: an Anthropic stream whose body
  ends without an error gives the same text, tool arguments and stop reason as
  `complete()` would give (a refusal in several pieces excepted, of which the
  aggregation keeps the last). `RecordedTruthfully`: an exchange is recorded as
  a success only if it was not broken off and no complete frame was an error,
  and as a failure only for one of these reasons.
* `WithinBudget`: no window of a key holds more than `rpm` admissions, whichever
  instants they fall on. `RetryAfterHolds`: who waits as long as a 429 said is
  not refused again, unless the key was served in between.
* `CatalogueIsOneFeed`: what is shown is one payload, whole, and none that
  `_parse_catalogue` must refuse: no group is missing, no item unusable, and there
  is a model. A model the feed lists as free is billed as free under whichever
  heading it comes first. The property says this of what is shown without
  `WellFormed`, so that a mutant of `WellFormed` breaks it.
  `NeverBackwards`: an older answer never replaces a newer one. `NoFetchHerd`:
  handlers queued behind a fetch do not fetch again. `SyncIsFresh`: "Sync models"
  without an error shows nothing older than the press of the button.
  `EveryCallerAnswered`: nobody waits for the lock for ever.
* `SnapshotsSurvive`: at any moment, a restart would find every pooled account,
  and every snapshot is whole and holds the token of the account it names.
  `LoginTellsTruth`: "done" means saved and pooled, "error" and "expired" mean
  neither, and nothing is pooled before it is saved. `LoginEnds`: a login ends.
* `AtMostOneGateway`: two copies never both run a server. `OnlyVerifiedBuildsRun`:
  no process runs a file that was cut short or whose checksum was wrong.
  `UpdateEnds`: after an applied update a gateway serves, or a message or a page
  tells the user that none does.
* `LiveIsReferenced`: a gateway thread that lives is the one the controller
  knows, or Start would add a second one; the exceptions are the `strays`, lost by
  the one late write of `wait_stopped`, and there are none unless Stop was clicked
  while a restart was pending. `RunningIsOfThisStart`: an answer to a start that
  was stopped since is not shown as this one's. `SavesReachGateway`: the gateway of
  the last start runs no older a configuration than that of the last save that
  began a restart. `RestartEnds`: a restart does not stay pending, whatever times
  out or breaks, unless Stop is clicked before its start has answered.
* `ResultsFollowCalls`: in every body the calls of a message are followed at once
  by their results, each once. `ConversationIntact`: the upstream is told
  everything said, called and returned, in order and under its own ids.
  `SettingsReachUpstream`, of both dialects and every shape, as far as the dialect
  has a control (`Understood`): thinking that every control set turns off, the
  `reasoning` object among them, is disabled, and with none set the body has the
  shape's default (`ThinkingHonoured`); the limit goes under the key of the shape
  and is one the client set under either name, 0 too (`LimitHonoured`); the
  sampling controls arrive (`SamplingHonoured`). An Anthropic request has only
  `metadata.reasoning_effort` to control thinking: with `thinking: disabled` alone
  its body says `low`, since the translator drops that key.

Why the bounds are enough. One slot per account and two requests make every
contention there is: a counter off by one shows at once, and a third request
would meet the same two situations (a slot free, no slot free). Two attempts
reach rotation, reuse of a tried account and exhaustion. Two objects for one id
are the least that shows a replaced account. Two versions are the least that
lets one token be newer than another that is newer than the first; one crash
and one deletion interleave with all the rest. Four frames hold a text, two
interleaved tool calls and an error, the longest pattern the translator's state
(open blocks, `next_index`) tells apart. `KillAfter` is 1 instead
of the 3 of the code, so that killing happens. The chain has a second free model
after one that must be skipped, which is where "next" and "last" differ, and
starts at either. In `front` a window is two ticks and `rpm` two, so that a
window is full, partly expired and expired within the clock's bound, and
`Second` is two ticks, so that rounding down would show; five payloads let a
fetch start before, between and after two publications, and three of them are to
be refused, each for a reason of its own. Three accounts are two
that collide by name and one that does not; a second login multiplies the states
beyond reach and meets the first only through files, which the import and the
saver already write beside it. Five processes are three launches and two swaps.
Four clicks are a start, a save whose restart gives up, the Stop that frees the
window and a start; and a save, a Stop during its restart and a Start, which is
how a thread is lost (below), with one click to spare.
Five messages are the shortest conversation with calls, results and a reply to
them that is itself posted back.

Left out of these instances: requests that are refreshed by force while the
chain runs (`core` and `interventions` have them, for safety only, since with
them the liveness graph outgrows the time of a run), and a disk that fills up
between opening and filling a temporary file.

Fairness. The steps of a request (`Advance`) are weakly fair: the event loop
runs a coroutine that is ready, and everything it waits for ends, by a reply or
by a timeout (`upstream.py` sets connect, read, write and pool timeouts,
`acquire()` has a deadline, back-off is a sleep). Arriving, leaving, the clock,
balance polls and the operator are not fair: no client must come or go. In
`Tokens` the steps of tasks are fair for the same reason, the cancellation of
the loop's tasks and the close are fair because `aclose()` performs them; a
cancellation by a client is not. Nothing in the code relies on a reply being a
success, and neither does the model. In `Front`
a handler is fair (its fetch has a timeout), the clock and the feed are not; in
`Accounts` a login's task is fair, and its deadline strongly so, because the
loop looks at the clock before every poll; the browser's approval, the import
and the operator are not. In `Desktop` a started process and the batch file run
on; the user, the network and the end of the server are not fair, but a
`/shutdown` or apply that was answered ends the process one second later. In
`Window` joins and probes are fair, as each has a timeout, and so are callbacks,
as the UI thread runs what it is handed; the gateway thread may hang for ever.

What the violated run shows (with its place under "findings" in
`PROJECT.json`):

* `sharedemail`: a device login names its snapshot without looking at the names
  taken, so it overwrites the snapshot of another account with the same e-mail
  address. That account works on from memory and is gone after a restart.

Where code and comments differ, found in the model and without a run of their
own:

* `updater.py:165` says a download that the published checksums do not list is
  refused; apply looks only whether the file exists. A second download, begun
  from another tab or after the button is enabled again, empties the verified
  file in the second between the reply of apply and the exit, and the batch file
  starts whatever is there. TLC shows it with two elements in `Updates`, where
  `OnlyVerifiedBuildsRun` fails; the run has one.
* `gui.py:1727` says changes are written and the gateway restarts;
  `restart_server` returns when a restart is pending. A save during a restart, once
  the new thread has read `config.yaml`, is written and not loaded: the gateway
  goes on with what it had. `SavesReachGateway` therefore speaks of the saves that
  began a restart. And Stop after the start of a restart leaves it pending for
  good, since the answer that would clear the flag belongs to an older generation:
  every further save is written without a restart until one of the user's own
  starts answers. `RestartEnds` excepts that restart.
* `gui.py:641` says why a quick Start after Stop must not meet the old server on
  the port; `wait_stopped` clears `_thread` after its join, whatever is in it by
  then. Stop during a pending restart clears `_stopping`, so that a Start can put a
  new thread there first; it is forgotten, and the next start meets it on the
  port. `strays` is that thread, and `LiveIsReferenced` says that there is no other
  way to lose one.
* `service.py:442` says a per-model cap must not cool the account; the error of
  the retry after a forced refresh cools it whatever it is (`service.py:434`,
  `RetryFailed`).
* `service.py:857` says only a clean completion clears the error state; a client
  that leaves a healthy stream clears it too, as `stream_ok` is still true
  (`CloseStream`).
* `service.py:398` says an account is retired after repeated refresh failures;
  throttles and refresh failures share one counter, so the first failed refresh
  may kill (`ReauthFails`).
* `service.py:392` says a forced refresh does not return the rejected token; when
  its POST fails and the file still holds that token, it does (`SourceApplied`).
* `service.py:750` says an error frame is not dropped; one without its blank line
  at the end of the body is, and the message ends as a success (`FeedTail`).
* `service.py:790` says an interruption is told by a proper error frame; after an
  unfinished frame that frame is glued to it and unreadable for an OpenAI client
  (`Interrupted`).
* `service.py:256` says a cap never surfaces as a raw 429 that stalls the chain;
  one that is recognised by its message alone keeps its code, and the chain
  re-raises it (`Reraise`). So does a cap on some accounts while another is
  merely cooling.
* `tokens.py:254` says refreshed tokens are durably written; an account of a
  device login has a source that is no file, so its tokens are not until the
  next restart (`FromLogin`, `TokenRefreshed`).

Seen while modelling, and not the subject of a run: `service.py:487` speaks of
exactly one probe with another shape, and `probe_order` allows two (constant
`MaxProbes`); a billed request falls back to an account whose paid lane is exhausted;
`upsert` starts the new object with a full set of slots although requests still
hold slots of the old one; `cool()` brings a dead account back once its
cooldown has passed, if a request that had it in hand fails late; a parked
model is reported as the reason even when other accounts are merely busy; a
reload that waited for a refresh may put an older token back; after a deletion
two refreshes of one account may run; of several refusal deltas the aggregation
keeps the last; a login that is started while the first has not begun to run
replaces it, and the first goes on unseen; a cancel that meets the check after a
login shows "cancelled" although the account is saved and pooled; an import may
overwrite a newer, refreshed token with the one the desktop app holds; two
updates share one batch file (not modelled); a second copy started while the
first is still starting is told that an older build runs; the message box of a
second copy keeps the mutex; `_wait_for` that fails opens a page nobody serves
and ends the process; a Stop before the gateway thread has assigned `_server`
stops nothing, and clears it if it is assigned during the join, after which no
Stop reaches that gateway (`Builds` within `BeginStop` and `JoinReturns`); a
restart that gave up leaves `_stopping` set, so that Start does nothing until
Stop was clicked (`RestartFailed`); an Anthropic client's `thinking` and the
images in tool results are not forwarded; a probe tries three of the four body
shapes.

## 4. What is proved

With `tlapm`, for every value of the constants that meets the assumptions named
at the end of this section. Every proof is of the same form: an invariant that
is inductive, one step of the proof for each action, and the property as a
consequence. What follows says what each invariant had to add and why.

### The request path: `ChatServiceProofs`

* `TypeCorrect`, `HoldsSlotInExchange`: types, and that a request holds a slot
  exactly between selecting an account and the end of the exchange. They are
  proved together (`ExchangeInv`), since whether `held[r]` is an account
  depends on where `r` is.
* `SlotInvariant`: `SlotInv`, the inductive invariant. `SlotsBalanced` alone is
  not inductive: `GiveBack` decrements the counter of `held[r]`, so one must know
  that `held[r]` is an account, which only `HeldInExchange` says, and a slot that
  is taken must be taken by a request that held none. `CapRespected` needs
  `RetakenIsHeld`, or a released slot would still count as extra. The proof goes
  through `SlotStep`, which says of every step that it takes one slot below the
  cap, retakes one, gives one back or touches none (`SlotEffects`, one step per
  action), and then counts holders (`GainHolder`, `LoseHolder`).
* `SlotsAreBalanced`, `CapIsRespected`: its two consequences the runs check.
* `ImplementsLedger`: `ChatService` implements `Reservations`. `SlotStep` is the
  step simulation (`LedgerStep`); `SlotsBalanced` turns the guard on the counter
  into the guard on the number of holders.
* `NoRefusalWithFreeSlot`: from `EndsOfSelection` (which actions can end a
  request that is selecting) and the definition of `FallbackChoice`.
* `ParkingStaysScoped`: from `OnlyRejectionsPark` (no other action adds to
  `parked`), and from what `RejectedForModel` leaves alone.
* `DashboardAgrees`: `AgreesWithRouter`. The runs have no plan-lane model (a
  third model multiplies the states by five); the theorem covers it. It needs
  types only: the accounts the page shows are those the router considers
  (`ServingIsUsable`), and `quota_aware` never narrows some to none
  (`CandidatesAreUsable`).
* The chain changes `model` under the request path, so the slot properties have
  to be shown again: `ChainStepKeepsExchange` and `ChainStepKeepsSlots` show that
  its steps, taken between exchanges, touch no slot, and `ChainKeepsLedger` that
  the whole still implements `Reservations`. `LeavesOnlyCapped` follows from the
  guard `AllCapped`, once it is known that only the chain changes a model
  (`AnswersAreTheChains`).
* `ExhaustionIsHonest`: the invariant (`IsWalk`) is that the candidates so far
  are exactly the free models of the chain from the first of them to the present
  one, in order. The next candidate is the least free position behind, so
  nothing lies between (`NextCandidate`); at the end nothing lies behind. The
  chain names no model twice, which is what makes `chain.index` its inverse
  (`PositionInverts`).

### The stream: `StreamRelayProofs`

* `LegalMessage`: `StreamRelay` implements `MessageEvents`, for any frames and
  tools, streams of any length, and a client that leaves between any two events.
  What the client has is not enough to know that the next event is legal, since
  the translator is ahead of it: the invariant speaks of what was received and
  what is still to be taken, together (`Made`). All of it is a legal message
  (`LegalSoFar`), and until an error was told the translator describes it
  (`Describes`): its blocks are numbered to `next`, and those not stopped are the
  last one while `textOpen` and those of `tools`. One lemma for each event the
  translator emits says that the event may come next and that the translator
  describes what it makes (`TextBlockOpens` to `ToolBlockOpens`); one for each
  of its operators, that it keeps both (`Sound`). The calls of a frame
  and the tool blocks that `finish()` stops are walked by recursive functions;
  that each value follows from the one before (`FeedCallsUnfolds`,
  `StopToolsUnfolds`) is shown by a least counterexample (`LeastNatural`), and so
  is what holds of all of them. Taking an event changes nothing of what was made
  (`Taken`), which is the refinement step.
* `RecordsTruthfully`: `RelayInv`. That `next` stays within its type is a bound
  on the blocks opened, one for each frame and one for each tool
  (`BlocksBounded`); it needs `Describes` no less than the order of events does.
  `RecordInv` says what `stream_ok` stands for at every point, where the property
  speaks of the end only.
* `StreamEqualsAnswer`: `SameAsUnstreamed`, which speaks of the end only, while a
  delta, once sent, is never taken back. `ContentInv` says what holds all the way
  of an Anthropic stream without an error: the message made so far, received or
  not, tells what the frames so far say (`Follows`). Its text deltas are the
  texts, the tools opened are the tools called, each with its arguments in its
  own block, the reason kept is the last one given; and after `finish()` the one
  stop reason is that one's. To be inductive it says besides that no two tools
  share a block, or a delta for one would count for the other, and that a block
  not yet started carries nothing, or a tool might open on what is there
  (`Tells`). The argument goes down as the code does: one event adds what it
  carries to the deltas (`DeltasAppend`, `TellsText`, `TellsTool`,
  `TellsOpened`), one operator of the translator what it says
  (`OpenTextBlockSays` to `FeedCallsSays`), one frame what it says to each part of
  the answer (`TextAppend`, `ArgumentsAppend`, `CalledAppend`, `ReasonAppend`,
  `FeedFollows`), and the blocks that `finish()` stops add nothing
  (`StopToolsSays`, `FinishCompletes`). `ErrorSeen` ties the errors told to the
  frames, since the property excepts streams that failed. At the end, the
  texts and refusals the stream joins are the contents, or the one refusal, of the
  answer: there, and only there, `PlainRefusal` is used (`ContentImplies`).

### Tokens: `TokensProofs`

* `TokensTypeCorrect`, `RefreshesExclude`: `LockInv` ties every lock to the one
  task inside it, in both directions, and says that no task works with a lock
  not yet handed out; `SingleFlight` speaks only of where tasks are, and is not
  inductive without `holder`.
* `NoStampedes`: one step per action, over `LockInv`.
* `SavesSurvive`: `SaveInv`. Until a save is lost, what a task has read from the
  source is no newer than the source, and a token the source lacks is carried by
  a task on its way to save it. Which of two saves comes first does not matter,
  because `IssuedInv` bounds all versions by the newest issued.

### The read side: `FrontProofs`

* `BudgetIsKept`, `PromisesAreKept`: in `LimiterInv`, the bucket is the right end
  of all admissions that a window may still contain (`IsRightEnd`), is never
  longer than `rpm`, and while it is full its oldest entry is no younger than the
  one the last `Retry-After` was computed from. The lemmas say what popping the
  expired entries leaves (`PoppedIsExpired`, `LiveIsRightEnd`), for every window
  and resolution of the clock.
* `FrontIsSafe`, `CatalogueMovesForward`, `FetchesDoNotHerd`, `SyncsAreFresh`: in
  `CatalogueInv`, the queue of the lock names every waiting handler once and the
  one that fetches is its head, so there is one fetch at a time; an answer under
  way is no older than what is shown and no older than its handler's start; what
  is shown passed `WellFormed`, or is the built-in snapshot, which would have.

### Accounts, processes and the window

* `AccountsProofs`: `SnapshotsAreSafe`, `LoginsTellTruth`. The invariant says who
  owns a file name: an account does if its content is in the file or in the
  temporary file, if somebody is writing it there, or if an import has taken the
  name for it; a name has one owner (`OwnersInv`), a temporary file has somebody
  working on it (`TmpInv`), the saver only rewrites what is there (`SaverInv`),
  and what an import does not know of belongs to a login (`ImportInv`). They need
  each other: an import looks once which names are free and writes much later.
  Assumed is `UnsharedNames`, that no account logs in under a base name another
  account has too. The code does not ensure it, and without it the property is
  false: that is what the run `sharedemail` shows. Any number of logins may run
  at a time, where the run has one.
* `DesktopProofs`: `OneGateway`, for any number of copies. `AtMostOneGateway` is
  not inductive; `MutexHeldByOne` includes the process whose server never came
  up. `VerifiedBuilds` is a theorem of `Spec /\ []UpdatesTakeTurns`: updates in
  any number, one at a time. Two at a time break the property (section 3), so the
  restriction is stated and not hidden in the bound of a run.
* `WindowProofs`: `ThreadsReferenced`, `SavedIsRunning`, `RunningIsCurrent`, for
  any number of clicks at any time, restarts that are stopped and restarts that
  overlap included. `GenerationInv` says that generations are given out in order,
  that none has a thread or an answer before it is, and that there are enough for
  the clicks: a start may come from each wait that is under way, so the waits are
  counted (`Pending`, a cardinality). `ThreadInv` says that no thread is lost but a
  stray (`NoneLost`), that until Stop is clicked during a restart there is one
  wait, that of the last generation, and no click gets between it and its start
  (`RestartAlone`), and what is known of the last generation (`LastGeneration`).

### The dialects: `DialectsProofs`

`DialectsInv` is inductive, and its parts are needed together: for any contents,
texts and settings, conversations of any length, and any number of calls.

* `CallsAreAnswered`: `ResultsFollowCalls` speaks of a body, which is made from
  the history as it stands, so `HistoryInv` says it of the translated history at
  every point, but for the calls of the last reply, which are `pending`
  (`Settled`). A turn of the user settles these, in whatever order and place the
  client put the results: the translator moves them before what the user says
  (`UserTurnTells`, `SettledByTurn`), and each comes once because fresh ids are
  distinct and the client answers each once (`OrderParts`). A reply leaves only
  its own calls open (`SettledByReply`).
* `NothingIsLost`: `HistoryInv` says more than `ConversationIntact`, namely that
  the translated history tells exactly what was lived, all kinds of items in one
  order; the property, which compares two selections, follows. `BodyInv` says
  that a body under way is of the present history, and that the client has spoken
  last.
* `SettingsAreHeard`: `SettingsReachUpstream` holds of any body when it is built
  (`SettingsSent`) and a body is not changed. A dialect's payload has the controls
  it understands as they were set, and no other (`ThinkingCarried`,
  `LimitCarried`). The one case that is not a look at a table is thinking switched
  off: several spellings may be set at once, the `reasoning` object goes before
  the effort keys, the first of these counts, and the proof is that whichever it
  is says off (`OffIsHeard`), through the floor of the kimi family and the
  reduction to what a shape can say (`OffIsKept`).

These proofs and `StreamEqualsAnswer` rest on the same few lemmas: what a fold or a
recursive function returns for one more element (`FlattenAppend`, `KeptAppend`),
shown by taking it apart at a least counterexample (`FlattenUnfolds`,
`KeptUnfolds`), and what it returns for a concatenation (`KeptConcat`,
`ToldAppend`).

### Assumptions

The named assumptions of the modules, which TLC evaluates on the instances:
finite sets where something is counted, lanes that are disjoint sets of models,
positive limits, absent values (`NoAccount`, `NoTask`, `NoLogin`, `NoFile`,
`Torn`, ...) that are no member of the set they stand beside, a chain without
duplicates (the code removes them), writers of the folder that are different
from each other, a feed of at least one payload, users whose blocks are texts,
images and others but no calls or results of their own making. Besides these, only
`UnsharedNames` and `UpdatesTakeTurns`, each stated in the theorem that needs it.

### Model-checked only

* Liveness (`EveryRequestEnds`, `EveryRefreshEnds`, `EveryCallerAnswered`,
  `LoginEnds`, `UpdateEnds`, `RestartEnds`, `LedgerFairSpec`): the prover has no
  rule for fairness and ENABLED.

Every invariant and every action property that a run checks is a theorem. What the
theorems do not say is what their premises exclude: `SameAsUnstreamed` of streams
that failed or refuse in more than one piece, `SingleFlight` and `NoStampede` of a
deleted account, and the three conditions named above.

## 5. What is not modelled

* Upstream HTTP, SQLite, JSONL, files of other tools, windows: I/O without
  decisions. `store.py`, `logbuffer.py`, `client_sync.py`, `cline_detect.py` and
  most of `gui.py` are of this kind.
* Parsing and formatting: configuration, the text of snapshots, tool schemas,
  system prompts, error envelopes. Where a conversion decides something (`classify()`, frame
  splitting, the stream translator) it is modelled by what it decides.
* Token counts, prices and balances as numbers: a balance is at or below the
  threshold or above it.
* A coroutine that the framework creates and never starts: `stream_from` gives
  its slot back only once it was started, which is taken for granted.
* The polls of the Tk window: one worker at a time, whose answer is shown and
  decides nothing.
* A foreign process on the gateway's port, whose `/health` the Tk window takes for
  its own gateway's.
* The settings route of the dashboard: it writes the configuration, which is read
  at the next start.
* A second copy's bootstrap of the configuration before it looks at the mutex
  (`gui_main.py:159`): two first launches may each write keys of their own.

## 6. Plan

1. The balance sweep of `tokens.py` over replies of any shape, where one that is
   no object hides every later account.
