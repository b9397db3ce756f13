---------------------------- MODULE Reservations ----------------------------
(***************************************************************************)
(* What the pool promises its callers about slots, without its counters:   *)
(* a ledger of who holds a slot of which account.                          *)
(*                                                                         *)
(* A request holds at most one slot.  It takes one only while the account  *)
(* has fewer than MaxInFlight holders; retaking a slot (after a token      *)
(* refresh) is allowed beyond that, and remembered in `extra`.  Every slot *)
(* taken is dropped in the end.                                            *)
(***************************************************************************)
EXTENDS Naturals, FiniteSets

CONSTANTS Requests, Accounts, NoAccount, MaxInFlight

VARIABLES
    holds,           \* the account each request holds a slot of
    extra            \* the requests whose slot was retaken

ledger == <<holds, extra>>

HoldersOf(a) == {r \in Requests : holds[r] = a}

Init ==
    /\ holds = [r \in Requests |-> NoAccount]
    /\ extra = {}

Take(r, a) ==
    /\ holds[r] = NoAccount
    /\ Cardinality(HoldersOf(a)) < MaxInFlight
    /\ holds' = [holds EXCEPT ![r] = a]
    /\ UNCHANGED extra

Retake(r, a) ==
    /\ holds[r] = NoAccount
    /\ holds' = [holds EXCEPT ![r] = a]
    /\ extra' = extra \cup {r}

Drop(r) ==
    /\ holds[r] # NoAccount
    /\ holds' = [holds EXCEPT ![r] = NoAccount]
    /\ extra' = extra \ {r}

Next ==
    \E r \in Requests :
        \/ \E a \in Accounts : Take(r, a) \/ Retake(r, a)
        \/ Drop(r)

Spec == Init /\ [][Next]_ledger

FairSpec == Spec /\ \A r \in Requests : WF_ledger(Drop(r))
=============================================================================
