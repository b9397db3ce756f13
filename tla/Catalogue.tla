----------------------------- MODULE Catalogue -----------------------------
(***************************************************************************)
(* model_catalog.ModelCatalog and the part of registry.Registry it fills:  *)
(* the public model feed, fetched by whichever request finds it due, under *)
(* an asyncio.Lock, and the visible catalogue it replaces.                 *)
(*                                                                         *)
(* The feed itself is external: it publishes the payloads Feed[1],         *)
(* Feed[2], ... in turn; a fetch is answered with what is published when   *)
(* the request arrives upstream, or fails.                                 *)
(***************************************************************************)
EXTENDS Clock, Integers, Sequences, FiniteSets

CONSTANTS Callers,     \* request handlers that touch the catalogue
          Groups,      \* CATALOG_GROUPS, in order
          Feed,        \* sequence of payloads: [group -> sequence of items or NotAList]
          NotAList,    \* a group that is missing or not a list
          BadItem,     \* an entry that is no object, or has no usable id
          Refresh,     \* REFRESH_SECONDS in ticks
          Retry        \* RETRY_SECONDS in ticks

VARIABLES published,   \* the feed's current payload (external)
          entries,     \* registry._catalog_entries: id -> group
          freeIds,     \* registry._catalog_free_ids
          shown,       \* history: the payload the two were read from, 0 = snapshot
          nextCheck,   \* _next_check
          lastError,   \* _error is set
          updated,     \* _updated_at is set
          queue,       \* the lock's holder, then its waiters in order
          call,        \* what each handler is doing
          lastFetch    \* history: when the last fetch of any kind ended

catalogueVars == <<published, entries, freeIds, shown, nextCheck, lastError,
                   updated, queue, call, lastFetch>>

\* What a payload lists under a group.
Listed(payload, g) == {payload[g][i] : i \in DOMAIN payload[g]}

ASSUME CatalogueAssumption ==
    /\ Feed \in Seq({Feed[n] : n \in DOMAIN Feed}) /\ Feed # <<>>
    /\ \A n \in DOMAIN Feed : DOMAIN Feed[n] = {Groups[i] : i \in DOMAIN Groups}
    /\ \A n \in DOMAIN Feed : \A g \in DOMAIN Feed[n] :
           Feed[n][g] = NotAList \/ Feed[n][g] \in Seq(Listed(Feed[n], g))
    /\ NotAList \notin {<<>>, <<"old-free">>} /\ BadItem # "old-free"
    /\ \E i \in DOMAIN Groups : Groups[i] = "free"
    /\ Refresh \in Nat /\ Retry \in 1..Refresh

\* Mutant: an item without a usable id is not looked for.
WellFormedLists(payload) ==
    /\ \A g \in DOMAIN payload : payload[g] # NotAList
    /\ \E g \in DOMAIN payload : payload[g] # <<>>

\* _parse_catalogue: any malformed part refuses the whole payload; the first
\* group that names a model places it, membership of "free" is kept apart.
WellFormed(payload) ==
    /\ \A g \in DOMAIN payload : payload[g] # NotAList
    /\ \A g \in DOMAIN payload : BadItem \notin Listed(payload, g)
    /\ \E g \in DOMAIN payload : payload[g] # <<>>

ParsedEntries(payload) ==
    [id \in UNION {Listed(payload, g) : g \in DOMAIN payload} |->
        LET places == {i \in DOMAIN Groups : id \in Listed(payload, Groups[i])}
        IN  Groups[CHOOSE i \in places : \A j \in places : i <= j]]

\* Mutant: a model is free only when "free" is the heading it is shown under.
ParsedFreeShown(payload) ==
    {id \in DOMAIN ParsedEntries(payload) : ParsedEntries(payload)[id] = "free"}

ParsedFree(payload) == Listed(payload, "free")

Idle == [at |-> "idle", force |-> FALSE, since |-> 0, got |-> 0]

Snapshot == [g \in {Groups[i] : i \in DOMAIN Groups} |-> IF g = "free" THEN <<"old-free">> ELSE <<>>]

CatalogueInit ==
    /\ published = 1
    /\ entries = ParsedEntries(Snapshot) /\ freeIds = ParsedFree(Snapshot)
    /\ shown = 0
    /\ nextCheck = 0 /\ lastError = FALSE /\ updated = FALSE
    /\ queue = <<>>
    /\ call = [c \in Callers |-> Idle]
    /\ lastFetch = -Refresh

Due == clock >= nextCheck

\* refresh_if_due up to the lock: not due and not forced answers at once.
AnswerCached(c, force) ==
    /\ ~force /\ ~Due
    /\ UNCHANGED catalogueVars

Enqueue(c, force) ==
    /\ force \/ Due
    /\ queue' = Append(queue, c)
    /\ call' = [call EXCEPT ![c] = [at |-> "queued", force |-> force,
                                    since |-> IF force THEN published ELSE 0, got |-> 0]]
    /\ UNCHANGED <<published, entries, freeIds, shown, nextCheck, lastError, updated, lastFetch>>

RefreshIfDue(c, force) ==
    /\ call[c].at = "idle"
    /\ AnswerCached(c, force) \/ Enqueue(c, force)

\* Mutant: no lock.
HoldsAnyone(c) == \E i \in DOMAIN queue : queue[i] = c

Holds(c) == queue # <<>> /\ Head(queue) = c
\* Mutant: the lock outlives a failed fetch.
ReleaseUnlessFailed == queue' = IF lastError' THEN queue ELSE Tail(queue)
Release == queue' = Tail(queue)

\* Mutants: the second check is left out; it forgets the force flag.
StillDueAlways(c) == TRUE
StillDueIgnoresForce(c) == Due

\* The check is made again once the lock is held.
StillDue(c) == call[c].force \/ Due

LeaveCached(c) ==
    /\ call[c].at = "queued" /\ Holds(c)
    /\ ~StillDue(c)
    /\ UNCHANGED <<published, entries, freeIds, shown, nextCheck, lastError, updated, lastFetch>>
    /\ call' = [call EXCEPT ![c] = Idle]
    /\ Release

BeginFetch(c) ==
    /\ call[c].at = "queued" /\ Holds(c)
    /\ StillDue(c)
    /\ call' = [call EXCEPT ![c].at = "fetching"]
    /\ UNCHANGED <<published, entries, freeIds, shown, nextCheck, lastError, updated, queue, lastFetch>>

\* The feed (external): it moves on to its next payload, and it answers.
Publish ==
    /\ published < Len(Feed)
    /\ published' = published + 1
    /\ UNCHANGED <<entries, freeIds, shown, nextCheck, lastError, updated, queue, call, lastFetch>>

FeedAnswers(c) ==
    /\ call[c].at = "fetching" /\ call[c].got = 0
    /\ call' = [call EXCEPT ![c].got = published]
    /\ UNCHANGED <<published, entries, freeIds, shown, nextCheck, lastError, updated, queue, lastFetch>>

FetchEnds(c, period) ==
    /\ nextCheck' = clock + period
    /\ lastFetch' = clock
    /\ Release
    /\ call' = [call EXCEPT ![c] = Idle]
    /\ UNCHANGED published

\* use_live_catalogue: both halves are replaced with no suspension between.
FetchLands(c) ==
    /\ call[c].at = "fetching" /\ call[c].got > 0
    /\ WellFormed(Feed[call[c].got])
    /\ entries' = ParsedEntries(Feed[call[c].got])
    /\ freeIds' = ParsedFree(Feed[call[c].got])
    /\ shown' = call[c].got
    /\ updated' = TRUE /\ lastError' = FALSE
    /\ FetchEnds(c, Refresh)

\* A timeout, an error status, or a payload _parse_catalogue refuses.
FetchFails(c) ==
    /\ call[c].at = "fetching"
    /\ call[c].got > 0 => ~WellFormed(Feed[call[c].got])
    /\ lastError' = TRUE
    /\ FetchEnds(c, Retry)
    /\ UNCHANGED <<entries, freeIds, shown, updated>>

\* registry.model_lane for a listed model without a reserved prefix.
IsFree(id) == id \in freeIds

HandlerStep(c) ==
    \/ LeaveCached(c) \/ BeginFetch(c) \/ FeedAnswers(c)
    \/ FetchLands(c) \/ FetchFails(c)
=============================================================================
