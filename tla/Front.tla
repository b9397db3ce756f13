------------------------------- MODULE Front -------------------------------
(***************************************************************************)
(* The read side of the HTTP surface: authentication and rate limiting in  *)
(* front of the handlers that list models, and the shared model catalogue  *)
(* behind them.  Composes RateLimit and Catalogue over one clock.          *)
(***************************************************************************)
EXTENDS RateLimit, Catalogue

CONSTANT MaxClock      \* bound: the clock stops here

ASSUME MaxClockAssumption == MaxClock \in Nat

frontVars == <<clock, limiterVars, catalogueVars>>

FrontInit == clock = 0 /\ LimiterInit /\ CatalogueInit

\* GET /v1/models: client_key, then the catalogue, then the list.
ListModels(c, k) ==
    /\ Authorised(k)
    /\ RefreshIfDue(c, FALSE)
    /\ UNCHANGED clock

\* Any other route behind client_key, as far as this module is concerned.
OtherRequest(k) == Authorised(k) /\ UNCHANGED <<clock, catalogueVars>>

TooMany(k) == Rejected(k) /\ UNCHANGED <<clock, catalogueVars>>

\* GET /admin/models/availability and POST /admin/models/catalog/refresh.
ModelAvailability(c) == RefreshIfDue(c, FALSE) /\ UNCHANGED <<clock, limiterVars>>
SyncModels(c) == RefreshIfDue(c, TRUE) /\ UNCHANGED <<clock, limiterVars>>

Fetching(c) == HandlerStep(c) /\ UNCHANGED <<clock, limiterVars>>
Publishing == Publish /\ UNCHANGED <<clock, limiterVars>>

Tick == clock < MaxClock /\ LimiterTick /\ UNCHANGED catalogueVars

FrontNext ==
    \/ \E c \in Callers, k \in Keys : ListModels(c, k)
    \/ \E k \in Keys : OtherRequest(k) \/ TooMany(k)
    \/ \E c \in Callers : ModelAvailability(c) \/ SyncModels(c) \/ Fetching(c)
    \/ Publishing \/ Tick

(* The event loop runs every handler that can run, and the client's        *)
(* timeout ends a fetch the feed does not answer.                          *)
FrontSpec == FrontInit /\ [][FrontNext]_frontVars
                       /\ \A c \in Callers : WF_frontVars(Fetching(c))

-----------------------------------------------------------------------------
(* The lock has one holder and its queue no handler twice; what is fetching *)
(* is its holder; times and payload numbers are in range.                   *)
FrontTypeOK ==
    /\ clock \in 0..MaxClock
    /\ \A k \in Keys : Len(buckets[k]) <= Rpm[k]
    /\ published \in DOMAIN Feed /\ shown \in 0..Len(Feed)
    /\ \A c \in Callers :
           /\ call[c].at \in {"idle", "queued", "fetching"}
           /\ call[c].at = "idle" <=> \A i \in DOMAIN queue : queue[i] # c
           /\ call[c].at = "fetching" => Holds(c)
    /\ \A i, j \in DOMAIN queue : queue[i] = queue[j] => i = j

(* What the catalogue shows is one payload, whole: never a mixture of two  *)
(* or one that _parse_catalogue must refuse (a group that is missing, an   *)
(* item without a usable id, no item at all), and a model the feed offers  *)
(* for free is billed as free even when another heading lists it first.    *)
CatalogueIsOneFeed ==
    LET payload == IF shown = 0 THEN Snapshot ELSE Feed[shown]
    IN  /\ \A g \in DOMAIN payload : payload[g] # NotAList
        /\ DOMAIN entries = UNION {Listed(payload, g) : g \in DOMAIN payload}
        /\ BadItem \notin DOMAIN entries /\ DOMAIN entries # {}
        /\ \A id \in DOMAIN entries : IsFree(id) <=> id \in Listed(payload, "free")

(* The two together, the state part of what a reader of the list sees.     *)
FrontInv == FrontTypeOK /\ CatalogueIsOneFeed

(* An older answer never replaces a newer one: fetches are serialised, so  *)
(* the catalogue only moves forward through what the feed published.       *)
NeverBackwards == [][shown' >= shown]_frontVars

(* Requests that queue up behind one fetch do not fetch again after it:    *)
(* without "Sync models" the feed is asked at most once per retry period.  *)
NoFetchHerd ==
    [][\A c \in Callers :
           call[c].at = "queued" /\ call'[c].at = "fetching" /\ ~call[c].force
           => clock - lastFetch >= Retry]_frontVars

(* "Sync models" that reports no error shows nothing older than what was   *)
(* published when the button was pressed, however long it waited.          *)
SyncIsFresh ==
    [][\A c \in Callers :
           call[c].force /\ call'[c] = Idle /\ ~lastError'
           => shown' >= call[c].since]_frontVars

(* No request waits for the catalogue for ever, whatever the feed does.    *)
EveryCallerAnswered ==
    \A c \in Callers : call[c].at = "queued" ~> call[c].at = "idle"
=============================================================================
