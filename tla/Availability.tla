---------------------------- MODULE Availability ----------------------------
(***************************************************************************)
(* What the dashboard says of accounts and models: availability.py, over   *)
(* the state of the pool.  It is computed apart from the router, from the  *)
(* same fields; the two must not contradict each other.                    *)
(*                                                                         *)
(* Whether an account has a plan (Account.has_plan) is known to this page  *)
(* only, the router never asks: `planless` is the set of accounts whose    *)
(* has_plan is False, and every such set is considered.                    *)
(***************************************************************************)
EXTENDS Pool

\* registry.model_lane: which gate applies to model m.
Lane(m) ==
    IF m \in FreeModels THEN "free"
    ELSE IF m \in UsageModels THEN "usage"
    ELSE "plan"

\* Mutant: an elapsed cooldown is still reported as cooling.
InCooldownByState(a) == IsCooling(a)

InCooldown(a) == state[a] = "cooling"

\* account_model_status.  A parked model is "capped" whatever the code that
\* parked it; "no_entitlement" is what a missing plan gives.
Status(a, m, planless) ==
    IF state[a] = "dead" THEN "unavailable"
    ELSE IF m \in parked[a] THEN "capped"
    ELSE IF Lane(m) = "plan" /\ a \in planless THEN "no_entitlement"
    ELSE IF Lane(m) = "usage" /\ paidExhausted[a] THEN "no_credit"
    ELSE IF InCooldown(a) THEN "cooling"
    ELSE "available"

Serving(m, planless) == {a \in members : Status(a, m, planless) = "available"}

\* model_availability, the verdict of the pool; the worst status when no
\* account serves the model is left out.
Overall(m, planless) ==
    IF Serving(m, planless) = {} THEN "none"
    ELSE IF Serving(m, planless) = members THEN "available"
    ELSE "partial"
-----------------------------------------------------------------------------
\* availability.py:76 "reporting cooling forever made dashboards disagree with
\* the router": a model the dashboard shows as served has a candidate in the
\* router, and one it shows as not served has none, but for accounts without
\* the plan it needs, which the router tries all the same.  Saturation is not
\* availability: a busy account counts on both sides.
AgreesWithRouter ==
    \A m \in Models, planless \in SUBSET members :
        LET routable == Candidates({}, NeedsPaid(m), m)
        IN  /\ Overall(m, planless) # "none" => routable # {}
            /\ Overall(m, planless) = "none" /\ Lane(m) # "plan" => routable = {}
            /\ routable \subseteq Serving(m, planless) \cup planless
=============================================================================
