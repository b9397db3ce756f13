-------------------------------- MODULE Pool --------------------------------
(***************************************************************************)
(* The account pool of the gateway: cline_gateway/pool.py, classes         *)
(* Account, Router and PoolManager.                                        *)
(*                                                                         *)
(* An element of Accounts is one Account OBJECT.  Two objects may carry    *)
(* the same account id (IdOf): PoolManager.upsert replaces the registered  *)
(* object by a new one, while requests that acquired the old object go on  *)
(* using and releasing it.                                                 *)
(*                                                                         *)
(* No critical section of PoolManager._lock contains a suspension point,   *)
(* so every operation is one atomic step of the event loop.  An operation  *)
(* constrains the variables of the groups it belongs to (slots, health,    *)
(* caps, registry); the module that composes operations into a handler     *)
(* says what happens to the other groups.                                  *)
(***************************************************************************)
EXTENDS Naturals, FiniteSets

CONSTANTS
    Accounts,        \* account objects, those not yet created included
    Ids,             \* account ids
    IdOf,            \* the id each object carries
    Registered,      \* the objects in the pool at start-up
    Models,          \* upstream model ids
    FreeModels,      \* lane "free": credit-free, capped per model and account
    UsageModels,     \* lane "usage": billed to the credit balance
    MaxInFlight,     \* pool.max_in_flight_per_account
    KillAfter,       \* errors after which a failed refresh kills (3 in the code)
    QuotaAware       \* pool.strategy = "quota_aware"

ASSUME PoolAssumption ==
    /\ IsFiniteSet(Accounts)
    /\ IdOf \in [Accounts -> Ids]
    /\ Registered \subseteq Accounts
    /\ FreeModels \subseteq Models
    /\ UsageModels \subseteq Models
    /\ FreeModels \cap UsageModels = {}
    /\ MaxInFlight \in Nat \ {0}
    /\ KillAfter \in Nat \ {0}
    /\ QuotaAware \in BOOLEAN

VARIABLES
    inFlight,        \* Account.in_flight
    state,           \* Account.state, with COOLING split by the cooldown clock
    errorCount,      \* Account.error_count, saturating at KillAfter
    paidExhausted,   \* Account.paid_exhausted
    lowBalance,      \* objects whose balance_micro is known and <= min_balance_micro
    parked,          \* Account.model_caps: the models whose cap has not lifted yet
    members,         \* PoolManager._accounts: the registered objects
    created          \* objects that exist already (an object is created once)

slotVars     == inFlight
healthVars   == <<state, errorCount, paidExhausted>>
registryVars == <<members, created>>
poolVars     == <<inFlight, state, errorCount, paidExhausted, lowBalance,
                  parked, members, created>>

(***************************************************************************)
(* AccountState.COOLING is "cooling" while now < cooldown_until and        *)
(* "cooled" from then on: still COOLING for the code, but selectable.      *)
(* EXHAUSTED does not occur: no caller passes paid_only=False to retire(). *)
(***************************************************************************)
AccountStates == {"ready", "cooling", "cooled", "dead"}

PoolTypeOK ==
    /\ inFlight \in [Accounts -> Nat]
    /\ state \in [Accounts -> AccountStates]
    /\ errorCount \in [Accounts -> 0..KillAfter]
    /\ paidExhausted \in [Accounts -> BOOLEAN]
    /\ lowBalance \subseteq Accounts
    /\ parked \in [Accounts -> SUBSET Models]
    /\ members \subseteq created
    /\ created \subseteq Accounts

PoolInit ==
    /\ inFlight = [a \in Accounts |-> 0]
    /\ state = [a \in Accounts |-> "ready"]
    /\ errorCount = [a \in Accounts |-> 0]
    /\ paidExhausted = [a \in Accounts |-> FALSE]
    /\ lowBalance = {}
    /\ parked = [a \in Accounts |-> {}]
    /\ members = Registered
    /\ created = Registered

-----------------------------------------------------------------------------
(* Selection: Account.is_ready, Router.candidates, Router.pick.            *)

IsCooling(a) == state[a] \in {"cooling", "cooled"}

IsReady(a) == state[a] \in {"ready", "cooled"}

\* Accounts that could serve model m, whatever their load; `paid` asks for
\* the usage lane.  The quota_aware strategy narrows them to the accounts
\* above the balance threshold, unless that leaves none.
Candidates(exclude, paid, m) ==
    LET usable == {a \in members : /\ IdOf[a] \notin exclude
                                   /\ IsReady(a)
                                   /\ ~(paid /\ paidExhausted[a])
                                   /\ m \notin parked[a]}
        funded == usable \ lowBalance
    IN  IF QuotaAware /\ paid /\ funded # {} THEN funded ELSE usable

\* Mutant: off by one at the cap.
HasSlotAtCap(a) == inFlight[a] <= MaxInFlight

HasSlot(a) == inFlight[a] < MaxInFlight

\* What pick() may return.  The strategies (round robin, LRU, least in
\* flight) only order these accounts; every order is allowed here.
Selectable(exclude, paid, m) ==
    {a \in Candidates(exclude, paid, m) : HasSlot(a)}

NeedsPaid(m) == m \in UsageModels

\* PoolManager.unavailable_reason, in the order the code looks for reasons.
UnavailableReason(m) ==
    IF \E a \in members : m \in parked[a] THEN "parked"
    ELSE IF members = {} THEN "none"
    ELSE IF \A a \in members : IsCooling(a) THEN "cooling"
    ELSE IF \A a \in members : ~IsReady(a) THEN "unusable"
    ELSE IF \A a \in members : IsReady(a) => ~HasSlot(a) THEN "busy"
    ELSE "none"

-----------------------------------------------------------------------------
(* Slots: the in-flight reservations.                                      *)

Reserve(a) == inFlight' = [inFlight EXCEPT ![a] = @ + 1]

Release(a) == inFlight' = [inFlight EXCEPT ![a] = IF @ > 0 THEN @ - 1 ELSE 0]

-----------------------------------------------------------------------------
(* Health: state, error count and paid lane of one account.                *)

Cool(a) ==
    /\ state' = [state EXCEPT ![a] = "cooling"]
    /\ errorCount' = [errorCount EXCEPT
                        ![a] = IF @ < KillAfter THEN @ + 1 ELSE @]
    /\ UNCHANGED paidExhausted

\* retire(paid_only=True), the only form the code calls.
Retire(a) ==
    /\ paidExhausted' = [paidExhausted EXCEPT ![a] = TRUE]
    /\ state' = [state EXCEPT ![a] = IF IsCooling(a) THEN "ready" ELSE @]
    /\ UNCHANGED errorCount

Restore(a) ==
    /\ paidExhausted' = [paidExhausted EXCEPT ![a] = FALSE]
    /\ UNCHANGED <<state, errorCount>>

Kill(a) ==
    /\ state' = [state EXCEPT ![a] = "dead"]
    /\ UNCHANGED <<errorCount, paidExhausted>>

OnSuccess(a) ==
    /\ errorCount' = [errorCount EXCEPT ![a] = 0]
    /\ state' = [state EXCEPT ![a] = IF IsCooling(a) THEN "ready" ELSE @]
    /\ UNCHANGED paidExhausted

Enable(a) ==
    /\ a \in members
    /\ state' = [state EXCEPT ![a] = "ready"]
    /\ errorCount' = [errorCount EXCEPT ![a] = 0]
    /\ paidExhausted' = [paidExhausted EXCEPT ![a] = FALSE]

-----------------------------------------------------------------------------
(* Per-model caps, and the registry of account objects.                    *)

CapModel(a, m) == parked' = [parked EXCEPT ![a] = @ \cup {m}]

\* A fresh object enters the pool; an object of the same id is dropped from
\* the registry but not from the requests that hold it.
Upsert(a) ==
    /\ a \notin created
    /\ created' = created \cup {a}
    /\ members' = {b \in members : IdOf[b] # IdOf[a]} \cup {a}

Remove(a) ==
    /\ a \in members
    /\ members' = members \ {a}
    /\ UNCHANGED created
-----------------------------------------------------------------------------
(* Steps no request takes: the clock, the balance poll, the operator.      *)

CooldownPasses(a) ==
    /\ state[a] = "cooling"
    /\ state' = [state EXCEPT ![a] = "cooled"]
    /\ UNCHANGED <<inFlight, errorCount, paidExhausted, lowBalance, parked,
                   members, created>>

CapLifts(a, m) ==
    /\ m \in parked[a]
    /\ parked' = [parked EXCEPT ![a] = @ \ {m}]
    /\ UNCHANGED <<inFlight, healthVars, lowBalance, registryVars>>

\* check_account() once the balance reply is in: a low balance retires the
\* paid lane, a recovered one restores it.
BalanceIsLow(a) ==
    /\ a \in created
    /\ lowBalance' = lowBalance \cup {a}
    /\ IF paidExhausted[a] THEN UNCHANGED healthVars ELSE Retire(a)
    /\ UNCHANGED <<inFlight, parked, registryVars>>

BalanceIsFine(a) ==
    /\ a \in created
    /\ lowBalance' = lowBalance \ {a}
    /\ IF paidExhausted[a] THEN Restore(a) ELSE UNCHANGED healthVars
    /\ UNCHANGED <<inFlight, parked, registryVars>>

EnableAccount(a) ==
    /\ Enable(a)
    /\ UNCHANGED <<inFlight, lowBalance, parked, registryVars>>

AddAccount(a) ==
    /\ Upsert(a)
    /\ UNCHANGED <<inFlight, healthVars, lowBalance, parked>>

DeleteAccount(a) ==
    /\ Remove(a)
    /\ UNCHANGED <<inFlight, healthVars, lowBalance, parked>>
=============================================================================
