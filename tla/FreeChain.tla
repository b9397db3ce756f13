----------------------------- MODULE FreeChain -----------------------------
(***************************************************************************)
(* The automatic fallback between free models: ChatService._open           *)
(* (cline_gateway/service.py).  Around _open_model, the request path of    *)
(* ChatService, it goes on to the next free model of the configured chain  *)
(* when every account is capped for the one it tried.                      *)
(*                                                                         *)
(* The failure of _open_model and the look at the pool that follows are    *)
(* one step of the event loop; here they are two, which only adds          *)
(* interleavings to those of the code.                                     *)
(***************************************************************************)
EXTENDS ChatService, Sequences

Seqs == INSTANCE SequencesExt

CONSTANTS
    Chain,           \* models.auto_free_fallback.chain, resolved, no duplicates
    Asked            \* the models each client may ask for

ASSUME ChainAssumption ==
    /\ Chain \in Seq(Models)
    /\ Seqs!IsInjective(Chain)
    /\ Asked \in [Requests -> SUBSET Models]

VARIABLES
    attempted,       \* the candidates of each request so far
    answered         \* requests whose failure has left _open

chainVars == <<vars, attempted, answered>>

ChainInit ==
    /\ Init
    /\ \A r \in Requests : model[r] \in Asked[r]
    /\ attempted = [r \in Requests |-> <<model[r]>>]
    /\ answered = {}

\* The outcomes that are an UpstreamFailure raised by _open_model.
Failures == {"plain", "scoped", "parked", "cooling", "unusable", "busy",
             "empty", "edge", "client"}

\* A request whose model is free and in the chain has failed with it.
Failing(r) ==
    /\ pc[r] = "done"
    /\ r \notin answered
    /\ outcome[r] \in Failures
    /\ model[r] \in FreeModels \cap Seqs!ToSet(Chain)

\* chain.index(m), of a model that is in the chain.
Position(m) == CHOOSE i \in DOMAIN Chain : Chain[i] = m

\* Mutant: a model of another lane ends the chain.
CandidatesAfterStopping(m) ==
    {i \in DOMAIN Chain : /\ i > Position(m)
                          /\ \A j \in Position(m)..i : Chain[j] \in FreeModels}

\* What is left of the chain after m, by position: models of other lanes are
\* skipped.
CandidatesAfter(m) ==
    {i \in DOMAIN Chain : i > Position(m) /\ Chain[i] \in FreeModels}

\* The failures whose code may name a cap or a plan; a client error's may,
\* whatever its status says of it.
CapCodes == {"scoped", "parked", "client"}

\* Mutant: one capped account is enough.
AllCappedAny(m) == \E a \in members : m \in parked[a]

\* Every account that is not dead, a cooling one included, has the model parked.
AllCapped(m) ==
    LET eligible == {a \in members : state[a] # "dead"}
    IN  eligible # {} /\ \A a \in eligible : m \in parked[a]

\* The next candidate is opened like the first.
MoveOn(r) ==
    /\ Failing(r)
    /\ outcome[r] \in CapCodes
    /\ AllCapped(model[r])
    /\ \E i \in CandidatesAfter(model[r]) :
          /\ \A j \in CandidatesAfter(model[r]) : i <= j
          /\ model' = [model EXCEPT ![r] = Chain[i]]
          /\ attempted' = [attempted EXCEPT ![r] = Append(@, Chain[i])]
          /\ probesLeft' = [probesLeft EXCEPT
                              ![r] = IF Chain[i] \in known THEN 0 ELSE MaxProbes]
    /\ Goto(r, "acquire")
    /\ outcome' = [outcome EXCEPT ![r] = "pending"]
    /\ UNCHANGED <<poolVars, held, subject, retaken, tried, attempt, lastError,
                   clean, known, interventions, answered>>

Answer(r, result) ==
    /\ Failing(r)
    /\ answered' = answered \cup {r}
    /\ outcome' = [outcome EXCEPT ![r] = result]
    /\ UNCHANGED <<poolVars, pc, model, held, subject, retaken, tried, attempt,
                   probesLeft, lastError, clean, known, interventions, attempted>>

\* 429 AUTO_FREE_MODELS_EXHAUSTED, with the models attempted.
Exhausted(r) ==
    /\ outcome[r] \in CapCodes
    /\ AllCapped(model[r])
    /\ CandidatesAfter(model[r]) = {}
    /\ Answer(r, "exhausted")

\* A code that does not name a cap is raised as it is: that of a cap which only
\* the message tells is one, so every failure may end so.
Reraise(r) == Answer(r, outcome[r])

ChainStep(r) == MoveOn(r) \/ Exhausted(r) \/ Reraise(r)

ChainNext ==
    \/ Next /\ UNCHANGED <<attempted, answered>>
    \/ \E r \in Requests : ChainStep(r)

ChainSpec == ChainInit /\ [][ChainNext]_chainVars

OwnStep(r) ==
    \/ Advance(r) /\ UNCHANGED <<interventions, attempted, answered>>
    \/ ChainStep(r)

ChainFairSpec == ChainSpec /\ \A r \in Requests : WF_chainVars(OwnStep(r))
-----------------------------------------------------------------------------
(* Properties.                                                             *)

\* Every request that starts is answered: neither saturation, nor any sequence
\* of upstream errors, nor caps that lift and return while it walks down the
\* chain leave it waiting, rotating or changing models for ever.
EveryRequestEnds ==
    \A r \in Requests : pc[r] # "idle" ~> pc[r] = "done" /\ ~Failing(r)

\* A request gives a model up only when no account in the pool could serve it,
\* whatever its load, and only between exchanges.
LeavesOnlyCappedModels ==
    [][\A r \in Requests :
          model'[r] # model[r]
          => /\ held[r] = NoAccount
             /\ \A a \in Accounts : ~Serves(a, model[r])]_chainVars

\* A client told that all free models are capped had every free model of the
\* chain attempted, from the one it selected on, in their order, and no other.
ExhaustedHonestly ==
    \A r \in Requests :
        outcome[r] = "exhausted"
        => LET seen == attempted[r]
           IN  /\ Seqs!ToSet(seen) =
                     {Chain[i] : i \in {j \in DOMAIN Chain :
                                          /\ j >= Position(seen[1])
                                          /\ Chain[j] \in FreeModels}}
               /\ \A k, l \in DOMAIN seen :
                     k < l => Position(seen[k]) < Position(seen[l])
=============================================================================
