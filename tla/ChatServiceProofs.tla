------------------------- MODULE ChatServiceProofs -------------------------
(***************************************************************************)
(* Theorems about the request path, for every set of accounts, requests    *)
(* and models, and every bound, about the availability page that is        *)
(* computed from the same pool, and about the walk down the free-model     *)
(* chain around the path, for every chain.                                 *)
(***************************************************************************)
EXTENDS FreeChain, Availability, FiniteSetTheorems, TLAPS

\* Types, together with what the program counter says about the slot and the
\* account in transit.
ExchangeInv ==
    /\ TypeOK
    /\ HeldInExchange
    /\ SubjectInTransit
    /\ RetakenIsHeld

LEMMA ExchangeInit == Init => ExchangeInv
  BY PoolAssumption, ServiceAssumption
  DEF Init, PoolInit, ExchangeInv, TypeOK, PoolTypeOK, HeldInExchange,
      SubjectInTransit, RetakenIsHeld, ExchangePCs, PCs, AccountStates,
      ErrorClasses, Outcomes

\* The types of the health variables.
HealthTypeOK ==
    /\ state \in [Accounts -> AccountStates]
    /\ errorCount \in [Accounts -> 0..KillAfter]
    /\ paidExhausted \in [Accounts -> BOOLEAN]

LEMMA RetireTyped ==
  ASSUME HealthTypeOK, NEW a \in Accounts, Retire(a) \/ Restore(a)
  PROVE  HealthTypeOK'
<1>1. state' \in [Accounts -> AccountStates]
  BY DEF HealthTypeOK, AccountStates, Retire, Restore, IsCooling
<1>2. paidExhausted' \in [Accounts -> BOOLEAN]
  BY DEF HealthTypeOK, Retire, Restore
<1>3. errorCount' \in [Accounts -> 0..KillAfter]
  BY DEF HealthTypeOK, Retire, Restore
<1>4. QED
  BY <1>1, <1>2, <1>3 DEF HealthTypeOK

LEMMA CoolTyped ==
  ASSUME HealthTypeOK, NEW a \in Accounts, Cool(a)
  PROVE  HealthTypeOK'
<1>1. state' \in [Accounts -> AccountStates]
  BY DEF HealthTypeOK, AccountStates, Cool
<1>2. paidExhausted' \in [Accounts -> BOOLEAN]
  BY DEF HealthTypeOK, Cool
<1>3. errorCount' \in [Accounts -> 0..KillAfter]
  BY PoolAssumption DEF HealthTypeOK, Cool
<1>4. QED
  BY <1>1, <1>2, <1>3 DEF HealthTypeOK

LEMMA ExchangeStep == ExchangeInv /\ [Next]_vars => ExchangeInv'
<1> SUFFICES ASSUME ExchangeInv, [Next]_vars PROVE ExchangeInv'
  OBVIOUS
<1> USE PoolAssumption, ServiceAssumption
    DEF ExchangeInv, TypeOK, PoolTypeOK, HeldInExchange, SubjectInTransit,
        RetakenIsHeld, ExchangePCs, PCs, AccountStates, ErrorClasses, Outcomes,
        poolVars, healthVars, registryVars, requestFrame, Goto, Forget, Finish,
        TakeSlot, GiveBack, Reserve, Release, Exclude, Note
<1>a. ASSUME NEW r \in Requests, NEW a \in Accounts, Acquired(r, a),
             pc[r] \in {"acquire", "waiting"}, attempt[r] < MaxAttempts,
             UNCHANGED interventions
      PROVE  ExchangeInv'
  <2>1. TypeOK'
    BY <1>a DEF Acquired
  <2>2. HeldInExchange' /\ SubjectInTransit' /\ RetakenIsHeld'
    BY <1>a DEF Acquired
  <2>3. QED
    BY <2>1, <2>2
<1>b. ASSUME NEW r \in Requests, NEW class \in ErrorClasses,
             RetryFailed(r, class), pc[r] \in {"resending", "redraining"},
             UNCHANGED interventions
      PROVE  ExchangeInv'
  BY <1>b DEF RetryFailed, Cool
<1>1. ASSUME NEW r \in Requests, Start(r), UNCHANGED interventions
      PROVE  ExchangeInv'
  BY <1>1 DEF Start
<1>2. ASSUME NEW r \in Requests, AcquireUntried(r), UNCHANGED interventions
      PROVE  ExchangeInv'
  <2>1. FirstChoice(r) \subseteq Accounts
    BY DEF FirstChoice, Selectable, Candidates
  <2>2. QED
    BY <1>2, <1>a, <2>1 DEF AcquireUntried
<1>3. ASSUME NEW r \in Requests, WaitForSlot(r), UNCHANGED interventions
      PROVE  ExchangeInv'
  BY <1>3 DEF WaitForSlot
<1>4. ASSUME NEW r \in Requests, AcquireFallback(r), UNCHANGED interventions
      PROVE  ExchangeInv'
  <2>1. FallbackChoice(r) \subseteq Accounts
    BY DEF FallbackChoice, Selectable, Candidates
  <2>2. /\ pc[r] \in {"acquire", "waiting"}
        /\ attempt[r] < MaxAttempts
    BY <1>4 DEF AcquireFallback, SelectionFails
  <2>3. QED
    BY <1>4, <1>a, <2>1, <2>2 DEF AcquireFallback
<1>5. ASSUME NEW r \in Requests, Refuse(r), UNCHANGED interventions
      PROVE  ExchangeInv'
  <2>1. UnavailableReason(model[r]) \in Outcomes \cup {"none"}
    BY Zenon DEF UnavailableReason
  <2>2. PICK result \in Outcomes : Finish(r, result)
    BY <1>5, <2>1 DEF Refuse, LastErrorOr
  <2>3. pc[r] \notin ExchangePCs /\ pc[r] # "reauth" /\ pc[r] # "closed"
    BY <1>5 DEF Refuse, SelectionFails
  <2>4. QED
    BY <1>5, <2>2, <2>3 DEF Refuse
<1>6. ASSUME NEW r \in Requests, AttemptsExhausted(r), UNCHANGED interventions
      PROVE  ExchangeInv'
  BY <1>6 DEF AttemptsExhausted, LastErrorOr
<1>7. ASSUME NEW r \in Requests, RefreshUsable(r), UNCHANGED interventions
      PROVE  ExchangeInv'
  BY <1>7 DEF RefreshUsable
<1>8. ASSUME NEW r \in Requests, RefreshUnusable(r), UNCHANGED interventions
      PROVE  ExchangeInv'
  BY <1>8 DEF RefreshUnusable
<1>9. ASSUME NEW r \in Requests, SendFails(r), UNCHANGED interventions
      PROVE  ExchangeInv'
  BY <1>9 DEF SendFails
<1>10. ASSUME NEW r \in Requests, PauseEnds(r), UNCHANGED interventions
      PROVE  ExchangeInv'
  BY <1>10 DEF PauseEnds
<1>11. ASSUME NEW r \in Requests, Opened(r), UNCHANGED interventions
      PROVE  ExchangeInv'
  BY <1>11 DEF Opened
<1>12. ASSUME NEW r \in Requests, ErrorStatus(r), UNCHANGED interventions
      PROVE  ExchangeInv'
  BY <1>12 DEF ErrorStatus
<1>13. ASSUME NEW r \in Requests, RejectedForCredits(r), UNCHANGED interventions
      PROVE  ExchangeInv'
  <2>1. HealthTypeOK'
    <3>1. held[r] \in Accounts
      BY <1>13 DEF RejectedForCredits, Drained
    <3>2. Cool(held[r]) \/ Retire(held[r])
      BY <1>13 DEF RejectedForCredits
    <3>3. QED
      BY <3>1, <3>2, CoolTyped, RetireTyped DEF HealthTypeOK
  <2>2. PICK class \in SomeClass : Rotate(r, class)
    BY <1>13 DEF RejectedForCredits
  <2>3. /\ Drained(r, "credits")
        /\ Goto(r, "acquire")
        /\ UNCHANGED <<parked, subject>>
    BY <1>13 DEF RejectedForCredits
  <2>4. QED
    BY <1>13, <2>1, <2>2, <2>3 DEF Drained, Rotate, SomeClass, HealthTypeOK
<1>14. ASSUME NEW r \in Requests, RejectedForModel(r), UNCHANGED interventions
      PROVE  ExchangeInv'
  BY <1>14 DEF RejectedForModel, Drained, Rotate, CapModel
<1>15. ASSUME NEW r \in Requests, RejectedUnauthorized(r), UNCHANGED interventions
      PROVE  ExchangeInv'
  BY <1>15 DEF RejectedUnauthorized, Drained, Rotate, SomeClass
<1>16. ASSUME NEW r \in Requests, RejectedThrottled(r), UNCHANGED interventions
      PROVE  ExchangeInv'
  BY <1>16 DEF RejectedThrottled, Drained, Rotate, Cool, SomeClass
<1>17. ASSUME NEW r \in Requests, RejectedByEdge(r), UNCHANGED interventions
      PROVE  ExchangeInv'
  BY <1>17 DEF RejectedByEdge, Drained, Cool
<1>18. ASSUME NEW r \in Requests, RejectedByServer(r), UNCHANGED interventions
      PROVE  ExchangeInv'
  BY <1>18 DEF RejectedByServer, Drained, Rotate, Cool, SomeClass
<1>19. ASSUME NEW r \in Requests, ProbeNextShape(r), UNCHANGED interventions
      PROVE  ExchangeInv'
  BY <1>19 DEF ProbeNextShape, Drained, SomeClass
<1>20. ASSUME NEW r \in Requests, RejectedForClient(r), UNCHANGED interventions
      PROVE  ExchangeInv'
  BY <1>20 DEF RejectedForClient, Drained
<1>21. ASSUME NEW r \in Requests, ReauthFails(r), UNCHANGED interventions
      PROVE  ExchangeInv'
  BY <1>21 DEF ReauthFails, Kill, Cool
<1>22. ASSUME NEW r \in Requests, ReauthSucceeds(r), UNCHANGED interventions
      PROVE  ExchangeInv'
  BY <1>22 DEF ReauthSucceeds
<1>23. ASSUME NEW r \in Requests, ResendFails(r), UNCHANGED interventions
      PROVE  ExchangeInv'
  BY <1>23, <1>b DEF ResendFails
<1>24. ASSUME NEW r \in Requests, ResendRejected(r), UNCHANGED interventions
      PROVE  ExchangeInv'
  BY <1>24, <1>b DEF ResendRejected
<1>25. ASSUME NEW r \in Requests, BodyEnds(r), UNCHANGED interventions
      PROVE  ExchangeInv'
  BY <1>25 DEF BodyEnds
<1>26. ASSUME NEW r \in Requests, CloseStream(r), UNCHANGED interventions
      PROVE  ExchangeInv'
  BY <1>26 DEF CloseStream, OnSuccess
<1>27. ASSUME NEW r \in Requests, CloseResponse(r), UNCHANGED interventions
      PROVE  ExchangeInv'
  BY <1>27 DEF CloseResponse
<1>28. ASSUME NEW r \in Requests, CompleteReturns(r), UNCHANGED interventions
      PROVE  ExchangeInv'
  BY <1>28 DEF CompleteReturns, OnSuccess
<1>29. ASSUME NEW r \in Requests, Unwind(r), UNCHANGED interventions
      PROVE  ExchangeInv'
  BY <1>29 DEF Unwind
<1>30. ASSUME NEW r \in Requests, Disconnect(r), UNCHANGED interventions
      PROVE  ExchangeInv'
  BY <1>30 DEF Disconnect
<1>31. ASSUME NEW r \in Requests, Abort(r), UNCHANGED interventions
      PROVE  ExchangeInv'
  BY <1>31 DEF Abort
<1>32. ASSUME NEW r \in Requests, AbortUnheld(r), UNCHANGED interventions
      PROVE  ExchangeInv'
  BY <1>32 DEF AbortUnheld
<1>33. ASSUME NEW r \in Requests, AbortTeardown(r), UNCHANGED interventions
      PROVE  ExchangeInv'
  BY <1>33 DEF AbortTeardown
<1>34. ASSUME NEW a \in Accounts, CooldownPasses(a), UNCHANGED <<requestVars, interventions>>
      PROVE  ExchangeInv'
  BY <1>34 DEF CooldownPasses, requestVars
<1>35. ASSUME NEW a \in Accounts, NEW m \in Models, CapLifts(a, m),
             UNCHANGED <<requestVars, interventions>>
      PROVE  ExchangeInv'
  BY <1>35 DEF CapLifts, requestVars
<1>36. ASSUME Balance
      PROVE  ExchangeInv'
  <2>1. ASSUME NEW a \in Accounts, BalanceIsLow(a)
        PROVE  PoolTypeOK'
    <3>1. HealthTypeOK'
      BY <2>1, RetireTyped DEF BalanceIsLow, HealthTypeOK
    <3>2. QED
      BY <2>1, <3>1 DEF BalanceIsLow, HealthTypeOK
  <2>2. ASSUME NEW a \in Accounts, BalanceIsFine(a)
        PROVE  PoolTypeOK'
    <3>1. HealthTypeOK'
      BY <2>2, RetireTyped DEF BalanceIsFine, HealthTypeOK
    <3>2. QED
      BY <2>2, <3>1 DEF BalanceIsFine, HealthTypeOK
  <2>3. PoolTypeOK'
    BY <1>36, <2>1, <2>2, Zenon DEF Balance
  <2>4. QED
    BY <1>36, <2>3 DEF Balance, requestVars
<1>37. ASSUME Operator
      PROVE  ExchangeInv'
  <2>1. ASSUME NEW a \in Accounts, EnableAccount(a)
        PROVE  PoolTypeOK'
    BY <2>1 DEF EnableAccount, Enable
  <2>2. ASSUME NEW a \in Accounts, AddAccount(a)
        PROVE  PoolTypeOK'
    BY <2>2 DEF AddAccount, Upsert
  <2>3. ASSUME NEW a \in Accounts, DeleteAccount(a)
        PROVE  PoolTypeOK'
    BY <2>3 DEF DeleteAccount, Remove
  <2>4. PoolTypeOK'
    BY <1>37, <2>1, <2>2, <2>3, Zenon DEF Operator
  <2>5. QED
    BY <1>37, <2>4 DEF Operator, requestVars
<1>38. CASE UNCHANGED vars
  BY <1>38 DEF vars, requestVars
<1>39. CASE ClockTick
  BY <1>39, <1>34, <1>35, Zenon DEF ClockTick
<1>40. QED
  BY <1>1, <1>2, <1>3, <1>4, <1>5, <1>6, <1>7, <1>8, <1>9, <1>10, <1>11, <1>12, <1>13, <1>14, <1>15, <1>16, <1>17, <1>18, <1>19, <1>20, <1>21, <1>22, <1>23, <1>24, <1>25, <1>26, <1>27, <1>28, <1>29, <1>30, <1>31, <1>32, <1>33,
     <1>36, <1>37, <1>38, <1>39, Zenon DEF Next, Advance, Interrupt

\* The types of the request path and of the pool hold in every reachable
\* state: in particular no handler indexes the pool with the absent account.
THEOREM TypeCorrect == Spec => []TypeOK
<1>1. ExchangeInv => TypeOK
  BY DEF ExchangeInv
<1>2. QED
  BY <1>1, ExchangeInit, ExchangeStep, PTL DEF Spec

\* A request holds a slot exactly while an upstream exchange is in its hands.
THEOREM HoldsSlotInExchange == Spec => []HeldInExchange
<1>1. ExchangeInv => HeldInExchange
  BY DEF ExchangeInv
<1>2. QED
  BY <1>1, ExchangeInit, ExchangeStep, PTL DEF Spec

-----------------------------------------------------------------------------
(* What a step of the system can do to the slots: nothing, take one below  *)
(* the cap, retake one, or give one back.                                  *)

SlotsKept == UNCHANGED <<inFlight, held, retaken>>

SlotTaken(r, a) ==
    /\ held[r] = NoAccount
    /\ HasSlot(a)
    /\ TakeSlot(r, a)
    /\ UNCHANGED retaken

SlotRetaken(r, a) ==
    /\ held[r] = NoAccount
    /\ TakeSlot(r, a)
    /\ retaken' = retaken \cup {r}

SlotDropped(r) ==
    /\ held[r] # NoAccount
    /\ GiveBack(r)

SlotStep ==
    \/ SlotsKept
    \/ \E r \in Requests :
          \/ SlotDropped(r)
          \/ \E a \in Accounts : SlotTaken(r, a) \/ SlotRetaken(r, a)

LEMMA SlotEffects == ExchangeInv /\ [Next]_vars => SlotStep
<1> SUFFICES ASSUME ExchangeInv, [Next]_vars PROVE SlotStep
  OBVIOUS
<1> USE DEF SlotStep
<1>1. ASSUME NEW r \in Requests,
             \/ Start(r) \/ WaitForSlot(r) \/ Refuse(r) \/ AttemptsExhausted(r)
             \/ RefreshUsable(r) \/ PauseEnds(r) \/ Opened(r) \/ ErrorStatus(r)
             \/ ReauthFails(r) \/ BodyEnds(r) \/ CompleteReturns(r)
             \/ Interrupt(r)
      PROVE  SlotsKept
  BY <1>1, Zenon
  DEF SlotsKept, Start, WaitForSlot, Refuse, AttemptsExhausted, RefreshUsable,
      PauseEnds, Opened, ErrorStatus, ReauthFails, BodyEnds, CompleteReturns,
      Interrupt, Disconnect, Abort, AbortUnheld, AbortTeardown, poolVars
<1>2. ASSUME ClockTick \/ Balance \/ Operator \/ UNCHANGED vars
      PROVE  SlotsKept
  BY <1>2
  DEF SlotsKept, ClockTick, Balance, Operator, CooldownPasses, CapLifts,
      BalanceIsLow, BalanceIsFine, EnableAccount, AddAccount, DeleteAccount,
      requestVars, poolVars, vars
<1>3. ASSUME NEW r \in Requests,
             \/ RefreshUnusable(r) \/ SendFails(r)
             \/ RejectedForCredits(r) \/ RejectedForModel(r)
             \/ RejectedUnauthorized(r) \/ RejectedThrottled(r)
             \/ RejectedByEdge(r) \/ RejectedByServer(r) \/ ProbeNextShape(r)
             \/ RejectedForClient(r) \/ ResendFails(r) \/ ResendRejected(r)
             \/ CloseStream(r) \/ CloseResponse(r) \/ Unwind(r)
      PROVE  SlotDropped(r)
  <2>1. pc[r] \in ExchangePCs /\ GiveBack(r)
    BY <1>3, Zenon
    DEF ExchangePCs, RefreshUnusable, SendFails, RejectedForCredits,
        RejectedForModel, RejectedUnauthorized, RejectedThrottled,
        RejectedByEdge, RejectedByServer, ProbeNextShape, RejectedForClient,
        Drained, ResendFails, ResendRejected, RetryFailed, CloseStream,
        CloseResponse, Unwind
  <2>2. QED
    BY <2>1 DEF SlotDropped, ExchangeInv, HeldInExchange
<1>4. ASSUME NEW r \in Requests, AcquireUntried(r) \/ AcquireFallback(r)
      PROVE  \E a \in Accounts : SlotTaken(r, a)
  <2>1. held[r] = NoAccount
    BY <1>4 DEF AcquireUntried, AcquireFallback, SelectionFails, ExchangeInv,
                HeldInExchange, ExchangePCs
  <2>2. \A a \in FirstChoice(r) \cup FallbackChoice(r) :
           a \in Accounts /\ HasSlot(a)
    BY DEF FirstChoice, FallbackChoice, Selectable, Candidates, ExchangeInv,
           TypeOK, PoolTypeOK
  <2>3. \E a \in FirstChoice(r) \cup FallbackChoice(r) : Acquired(r, a)
    BY <1>4 DEF AcquireUntried, AcquireFallback
  <2>4. QED
    BY <2>1, <2>2, <2>3 DEF Acquired, SlotTaken
<1>5. ASSUME NEW r \in Requests, ReauthSucceeds(r)
      PROVE  \E a \in Accounts : SlotRetaken(r, a)
  <2>1. held[r] = NoAccount
    BY <1>5 DEF ReauthSucceeds, ExchangeInv, HeldInExchange, ExchangePCs
  <2>2. subject[r] \in Accounts
    BY <1>5 DEF ReauthSucceeds, ExchangeInv, TypeOK, SubjectInTransit
  <2>3. QED
    BY <1>5, <2>1, <2>2 DEF ReauthSucceeds, SlotRetaken
<1>6. QED
  BY <1>1, <1>2, <1>3, <1>4, <1>5, Zenon DEF Next, Advance

-----------------------------------------------------------------------------
(* The counters: SlotInv is inductive.                                     *)

\* The holders of an account whose slot was retaken.
ExtraHolders(a) == {r \in retaken : held[r] = a}

LEMMA HoldersFinite ==
  ASSUME TypeOK, NEW a \in Accounts
  PROVE  /\ IsFiniteSet(Holders(a))
         /\ IsFiniteSet(ExtraHolders(a))
         /\ Cardinality(Holders(a)) \in Nat
         /\ Cardinality(ExtraHolders(a)) \in Nat
<1>1. Holders(a) \subseteq Requests /\ ExtraHolders(a) \subseteq Requests
  BY DEF Holders, ExtraHolders, TypeOK
<1>2. QED
  BY <1>1, ServiceAssumption, FS_Subset, FS_CardinalityType

\* How the holders of an account change when one request gains a slot ...
LEMMA GainHolder ==
  ASSUME TypeOK, NEW r \in Requests, NEW b \in Accounts, NEW a \in Accounts,
         held[r] = NoAccount, held' = [held EXCEPT ![r] = b]
  PROVE  Cardinality(Holders(a)') = IF a = b THEN Cardinality(Holders(a)) + 1
                                    ELSE Cardinality(Holders(a))
<1>1. Holders(a)' = IF a = b THEN Holders(a) \cup {r} ELSE Holders(a)
  BY ServiceAssumption DEF Holders, TypeOK
<1>2. r \notin Holders(a)
  BY ServiceAssumption DEF Holders
<1>3. QED
  BY <1>1, <1>2, HoldersFinite, FS_AddElement

\* ... and when one loses it.
LEMMA LoseHolder ==
  ASSUME TypeOK, NEW r \in Requests, NEW a \in Accounts,
         held[r] # NoAccount, held' = [held EXCEPT ![r] = NoAccount]
  PROVE  Cardinality(Holders(a)') = IF a = held[r]
                                    THEN Cardinality(Holders(a)) - 1
                                    ELSE Cardinality(Holders(a))
<1>1. Holders(a)' = IF a = held[r] THEN Holders(a) \ {r} ELSE Holders(a)
  BY ServiceAssumption DEF Holders, TypeOK
<1>2. a = held[r] => r \in Holders(a)
  BY DEF Holders
<1>3. QED
  BY <1>1, <1>2, HoldersFinite, FS_RemoveElement

LEMMA SlotInvInit == Init => SlotInv
<1> SUFFICES ASSUME Init PROVE SlotsBalanced /\ CapRespected
  BY ExchangeInit DEF SlotInv, ExchangeInv
<1>1. ASSUME NEW a \in Accounts
      PROVE  Holders(a) = {} /\ {r \in retaken : held[r] = a} = {}
  BY ServiceAssumption DEF Init, Holders
<1>2. ASSUME NEW a \in Accounts
      PROVE  inFlight[a] = 0
  BY DEF Init, PoolInit
<1>3. Cardinality({}) = 0
  BY FS_EmptySet
<1>4. SlotsBalanced
  BY <1>1, <1>2, <1>3 DEF SlotsBalanced
<1>5. CapRespected
  <2>1. MaxInFlight \in Nat
    BY PoolAssumption
  <2>2. QED
    BY <1>1, <1>2, <1>3, <2>1 DEF CapRespected
<1>6. QED
  BY <1>4, <1>5

LEMMA SlotsBalancedStep ==
  ExchangeInv /\ SlotsBalanced /\ SlotStep => SlotsBalanced'
<1> SUFFICES ASSUME ExchangeInv, SlotsBalanced, SlotStep, NEW a \in Accounts
             PROVE  (inFlight[a] = Cardinality(Holders(a)))'
  BY DEF SlotsBalanced
<1>1. /\ TypeOK
      /\ inFlight \in [Accounts -> Nat]
      /\ inFlight[a] = Cardinality(Holders(a))
      /\ Cardinality(Holders(a)) \in Nat
  BY HoldersFinite DEF ExchangeInv, TypeOK, PoolTypeOK, SlotsBalanced
<1>2. CASE SlotsKept
  BY <1>1, <1>2 DEF SlotsKept, Holders
<1>3. ASSUME NEW r \in Requests, NEW b \in Accounts,
             SlotTaken(r, b) \/ SlotRetaken(r, b)
      PROVE  (inFlight[a] = Cardinality(Holders(a)))'
  BY <1>1, <1>3, GainHolder DEF SlotTaken, SlotRetaken, TakeSlot, Reserve
<1>4. ASSUME NEW r \in Requests, SlotDropped(r)
      PROVE  (inFlight[a] = Cardinality(Holders(a)))'
  <2>1. /\ held[r] \in Accounts
        /\ inFlight' = [inFlight EXCEPT
             ![held[r]] = IF @ > 0 THEN @ - 1 ELSE 0]
        /\ Cardinality(Holders(a)') = IF a = held[r]
                                      THEN Cardinality(Holders(a)) - 1
                                      ELSE Cardinality(Holders(a))
    BY <1>1, <1>4, LoseHolder DEF SlotDropped, GiveBack, Release, TypeOK
  <2>2. a = held[r] => Cardinality(Holders(a)) # 0
    BY <1>1, HoldersFinite, FS_EmptySet DEF Holders
  <2>3. QED
    BY <1>1, <2>1, <2>2
<1>5. QED
  BY <1>2, <1>3, <1>4 DEF SlotStep

LEMMA CapRespectedStep ==
  ExchangeInv /\ SlotsBalanced /\ CapRespected /\ SlotStep => CapRespected'
<1> SUFFICES ASSUME ExchangeInv, SlotsBalanced, CapRespected, SlotStep,
                    NEW a \in Accounts
             PROVE  (inFlight[a] <= MaxInFlight + Cardinality(ExtraHolders(a)))'
  BY DEF CapRespected, ExtraHolders
<1> DEFINE extra == ExtraHolders(a)
<1>1. /\ TypeOK
      /\ RetakenIsHeld
      /\ inFlight \in [Accounts -> Nat]
      /\ IsFiniteSet(extra)
      /\ Cardinality(extra) \in Nat
      /\ inFlight[a] <= MaxInFlight + Cardinality(extra)
      /\ MaxInFlight \in Nat
      /\ retaken \subseteq Requests
      /\ held \in [Requests -> Accounts \cup {NoAccount}]
  BY HoldersFinite, PoolAssumption
  DEF ExchangeInv, TypeOK, PoolTypeOK, CapRespected, ExtraHolders
<1>2. CASE SlotsKept
  BY <1>1, <1>2 DEF SlotsKept, ExtraHolders
<1>3. ASSUME NEW r \in Requests, NEW b \in Accounts, SlotTaken(r, b)
      PROVE  (inFlight[a] <= MaxInFlight + Cardinality(ExtraHolders(a)))'
  <2>1. extra' = extra
    BY <1>1, <1>3 DEF SlotTaken, TakeSlot, ExtraHolders, RetakenIsHeld
  <2>2. QED
    BY <1>1, <1>3, <2>1 DEF SlotTaken, TakeSlot, Reserve, HasSlot
<1>4. ASSUME NEW r \in Requests, NEW b \in Accounts, SlotRetaken(r, b)
      PROVE  (inFlight[a] <= MaxInFlight + Cardinality(ExtraHolders(a)))'
  <2>1. /\ extra' = IF a = b THEN extra \cup {r} ELSE extra
        /\ r \notin extra
    BY <1>1, <1>4, ServiceAssumption
    DEF SlotRetaken, TakeSlot, ExtraHolders, RetakenIsHeld
  <2>2. Cardinality(extra') = IF a = b THEN Cardinality(extra) + 1
                              ELSE Cardinality(extra)
    BY <1>1, <2>1, FS_AddElement
  <2>3. QED
    BY <1>1, <1>4, <2>2 DEF SlotRetaken, TakeSlot, Reserve
<1>5. ASSUME NEW r \in Requests, SlotDropped(r)
      PROVE  (inFlight[a] <= MaxInFlight + Cardinality(ExtraHolders(a)))'
  <2>1. CASE a = held[r]
    <3>1. extra' = extra \ {r}
      BY <1>1, <1>5, <2>1, ServiceAssumption
      DEF SlotDropped, GiveBack, ExtraHolders, TypeOK
    <3>2. Cardinality(extra') >= Cardinality(extra) - 1
      BY <1>1, <3>1, FS_RemoveElement
    <3>3. Cardinality(extra') \in Nat
      BY <1>1, <3>1, FS_RemoveElement, FS_CardinalityType
    <3>4. inFlight[a]' = inFlight[a] - 1 /\ inFlight[a] # 0
      <4>1. inFlight[a] = Cardinality(Holders(a)) /\ r \in Holders(a)
        BY <2>1 DEF SlotsBalanced, Holders
      <4>2. inFlight[a] # 0
        BY <1>1, <4>1, HoldersFinite, FS_EmptySet
      <4>3. QED
        BY <1>1, <1>5, <2>1, <4>2 DEF SlotDropped, GiveBack, Release
    <3>5. QED
      BY <1>1, <3>2, <3>3, <3>4
  <2>2. CASE a # held[r]
    <3>1. extra' = extra
      BY <1>1, <1>5, <2>2, ServiceAssumption
      DEF SlotDropped, GiveBack, ExtraHolders, TypeOK
    <3>2. QED
      BY <1>1, <1>5, <2>2, <3>1 DEF SlotDropped, GiveBack, Release
  <2>3. QED
    BY <2>1, <2>2
<1>6. QED
  BY <1>2, <1>3, <1>4, <1>5 DEF SlotStep

LEMMA SlotInvInductive == TypeOK /\ SlotInv /\ [Next]_vars => TypeOK' /\ SlotInv'
<1>1. TypeOK /\ SlotInv => ExchangeInv /\ SlotsBalanced /\ CapRespected
  BY DEF SlotInv, ExchangeInv
<1>2. ExchangeInv' /\ SlotsBalanced' /\ CapRespected' => TypeOK' /\ SlotInv'
  BY DEF SlotInv, ExchangeInv
<1>3. QED
  BY <1>1, <1>2, ExchangeStep, SlotEffects, SlotsBalancedStep, CapRespectedStep

\* The invariant that carries the slot properties.
THEOREM SlotInvariant == Spec => [](TypeOK /\ SlotInv)
<1>1. Init => TypeOK /\ SlotInv
  BY ExchangeInit, SlotInvInit DEF ExchangeInv
<1>2. QED
  BY <1>1, SlotInvInductive, PTL DEF Spec

\* in_flight is exact: no leak and no double release on any path, for any
\* number of accounts, requests, attempts and interventions.
THEOREM SlotsAreBalanced == Spec => []SlotsBalanced
<1>1. SlotInv => SlotsBalanced
  BY DEF SlotInv
<1>2. QED
  BY <1>1, SlotInvariant, PTL

\* The in-flight cap is exceeded only by retaken slots.
THEOREM CapIsRespected == Spec => []CapRespected
<1>1. SlotInv => CapRespected
  BY DEF SlotInv
<1>2. QED
  BY <1>1, SlotInvariant, PTL

-----------------------------------------------------------------------------
(* Refinement: the counters implement the abstract slot ledger.            *)

LEMMA LedgerInit == Init => Ledger!Init
  BY DEF Init, Ledger!Init

LEMMA LedgerStep ==
  ASSUME TypeOK, SlotInv, [Next]_vars
  PROVE  [Ledger!Next]_(Ledger!ledger)
<1>1. SlotStep
  BY SlotEffects DEF SlotInv, ExchangeInv
<1>2. ASSUME NEW r \in Requests, NEW a \in Accounts, SlotTaken(r, a)
      PROVE  Ledger!Take(r, a)
  <2>1. inFlight[a] = Cardinality(Ledger!HoldersOf(a))
    BY DEF SlotInv, SlotsBalanced, Holders, Ledger!HoldersOf
  <2>2. Cardinality(Ledger!HoldersOf(a)) < MaxInFlight
    BY <1>2, <2>1 DEF SlotTaken, HasSlot
  <2>3. Ledger!Cardinality(Ledger!HoldersOf(a)) = Cardinality(Ledger!HoldersOf(a))
    BY DEF Cardinality, Ledger!Cardinality
  <2>4. QED
    BY <1>2, <2>2, <2>3 DEF SlotTaken, TakeSlot, Ledger!Take
<1>3. ASSUME NEW r \in Requests, NEW a \in Accounts, SlotRetaken(r, a)
      PROVE  Ledger!Retake(r, a)
  BY <1>3 DEF SlotRetaken, TakeSlot, Ledger!Retake
<1>4. ASSUME NEW r \in Requests, SlotDropped(r)
      PROVE  Ledger!Drop(r)
  BY <1>4 DEF SlotDropped, GiveBack, Ledger!Drop
<1>5. CASE SlotsKept
  BY <1>5 DEF SlotsKept, Ledger!ledger
<1>6. QED
  BY <1>1, <1>2, <1>3, <1>4, <1>5 DEF SlotStep, Ledger!Next

\* Every behaviour of the request path is one of the ledger: a slot is taken
\* only below the cap, retaken only after a refresh, and dropped by its holder.
THEOREM ImplementsLedger == Spec => LedgerSpec
<1>1. TypeOK /\ SlotInv /\ [Next]_vars => [Ledger!Next]_(Ledger!ledger)
  BY LedgerStep
<1>2. QED
  BY <1>1, LedgerInit, SlotInvariant, PTL DEF Spec, LedgerSpec, Ledger!Spec

-----------------------------------------------------------------------------
(* Refusals.                                                               *)

\* A step that ends request r while it selects an account is a step of r, and
\* one of three.
LEMMA EndsOfSelection ==
  ASSUME ExchangeInv, [Next]_vars, NEW r \in Requests,
         pc[r] \in {"acquire", "waiting"}, pc'[r] = "done"
  PROVE  Refuse(r) \/ AttemptsExhausted(r) \/ AbortUnheld(r)
<1>1. pc \in [Requests -> PCs]
  BY DEF ExchangeInv, TypeOK
<1>2. pc' # pc
  BY <1>1
<1>3. PICK q \in Requests : Start(q) \/ Advance(q) \/ Interrupt(q)
  BY <1>2 DEF Next, ClockTick, Balance, Operator, requestVars, vars
<1>4. ASSUME Refuse(q) \/ AttemptsExhausted(q) \/ AbortUnheld(q)
      PROVE  q = r
  <2>1. \E l \in {"done"} : pc' = [pc EXCEPT ![q] = l]
    BY <1>4, Zenon DEF Refuse, AttemptsExhausted, AbortUnheld, Finish, Goto
  <2>2. QED
    BY <1>1, <2>1
<1>5. CASE ~(Refuse(q) \/ AttemptsExhausted(q) \/ AbortUnheld(q))
  <2>1. \/ Start(q) \/ AcquireUntried(q) \/ WaitForSlot(q) \/ AcquireFallback(q)
        \/ RefreshUsable(q) \/ RefreshUnusable(q)
        \/ SendFails(q) \/ PauseEnds(q) \/ Opened(q) \/ ErrorStatus(q)
        \/ RejectedForCredits(q) \/ RejectedForModel(q)
        \/ RejectedUnauthorized(q) \/ RejectedThrottled(q) \/ RejectedByEdge(q)
        \/ RejectedByServer(q) \/ ProbeNextShape(q) \/ RejectedForClient(q)
        \/ ReauthFails(q) \/ ReauthSucceeds(q) \/ ResendFails(q)
        \/ ResendRejected(q) \/ BodyEnds(q) \/ CloseStream(q)
        \/ CloseResponse(q) \/ CompleteReturns(q) \/ Unwind(q)
        \/ Disconnect(q) \/ Abort(q) \/ AbortTeardown(q)
    BY <1>3, <1>5, Zenon DEF Advance, Interrupt
  <2>2. \/ pc' = pc
        \/ \E l : pc' = [pc EXCEPT ![q] = l] /\ l # "done"
        \/ /\ pc[q] \notin {"acquire", "waiting"}
           /\ \E l : pc' = [pc EXCEPT ![q] = l]
    BY <2>1
    DEF Goto, Start, AcquireUntried, WaitForSlot, AcquireFallback, Acquired,
        RefreshUsable, RefreshUnusable, SendFails, PauseEnds, Opened,
        ErrorStatus, RejectedForCredits, RejectedForModel,
        RejectedUnauthorized, RejectedThrottled, RejectedByEdge,
        RejectedByServer, ProbeNextShape, RejectedForClient, Drained, Finish,
        ReauthFails, ReauthSucceeds, ResendFails, ResendRejected, RetryFailed,
        BodyEnds, CloseStream, CloseResponse, CompleteReturns, Unwind,
        Disconnect, Abort, AbortTeardown
  <2>3. QED
    BY <1>1, <2>2
<1>6. QED
  BY <1>4, <1>5

\* No request is refused while an account could serve it.
THEOREM NoRefusalWithFreeSlot == Spec => NeverRefusedWithFreeSlot
<1>1. ASSUME ExchangeInv, [Next]_vars, NEW r \in Requests,
             pc[r] \in {"acquire", "waiting"}, pc'[r] = "done",
             outcome'[r] # "aborted", attempt[r] < MaxAttempts
      PROVE  Selectable({}, NeedsPaid(model[r]), model[r]) = {}
  <2>1. ~AttemptsExhausted(r)
    BY <1>1 DEF AttemptsExhausted, ExchangeInv, TypeOK
  <2>2. ~AbortUnheld(r)
    BY <1>1 DEF AbortUnheld, Finish, ExchangeInv, TypeOK
  <2>3. Refuse(r)
    BY <1>1, <2>1, <2>2, EndsOfSelection
  <2>4. CASE tried[r] = {}
    BY <2>3, <2>4 DEF Refuse, SelectionFails, FirstChoice
  <2>5. CASE tried[r] # {}
    BY <2>3, <2>5 DEF Refuse, FallbackChoice
  <2>6. QED
    BY <2>4, <2>5
<1> DEFINE NoRefusal ==
      \A r \in Requests :
         /\ pc[r] \in {"acquire", "waiting"}
         /\ pc'[r] = "done"
         /\ outcome'[r] # "aborted"
         /\ attempt[r] < MaxAttempts
         => Selectable({}, NeedsPaid(model[r]), model[r]) = {}
<1>2. ExchangeInv /\ [Next]_vars => [NoRefusal]_vars
  BY <1>1
<1>3. QED
  BY <1>2, ExchangeInit, ExchangeStep, PTL DEF Spec, NeverRefusedWithFreeSlot

-----------------------------------------------------------------------------
(* Parking a model: the only write that adds to a set of parked models.    *)

LEMMA OnlyRejectionsPark ==
  ASSUME ExchangeInv, [Next]_vars, NEW a \in Accounts,
         ~(parked'[a] \subseteq parked[a])
  PROVE  \E r \in Requests : RejectedForModel(r)
<1> USE DEF requestFrame, poolVars
<1>1. ASSUME ClockTick \/ Balance \/ Operator \/ UNCHANGED vars
      PROVE  parked'[a] \subseteq parked[a]
  BY <1>1
  DEF ClockTick, Balance, Operator, CooldownPasses, CapLifts, BalanceIsLow,
      BalanceIsFine, EnableAccount, AddAccount, DeleteAccount, vars,
      ExchangeInv, TypeOK, PoolTypeOK
<1>2. ASSUME NEW r \in Requests,
             \/ Start(r) \/ AcquireUntried(r) \/ WaitForSlot(r)
             \/ AcquireFallback(r) \/ Refuse(r) \/ AttemptsExhausted(r)
             \/ RefreshUsable(r) \/ RefreshUnusable(r) \/ SendFails(r)
             \/ PauseEnds(r) \/ Opened(r) \/ ErrorStatus(r)
             \/ RejectedForCredits(r) \/ RejectedUnauthorized(r)
             \/ RejectedThrottled(r) \/ RejectedByEdge(r) \/ RejectedByServer(r)
             \/ ProbeNextShape(r) \/ RejectedForClient(r)
             \/ ReauthFails(r) \/ ReauthSucceeds(r) \/ ResendFails(r)
             \/ ResendRejected(r) \/ BodyEnds(r) \/ CloseStream(r)
             \/ CloseResponse(r) \/ CompleteReturns(r) \/ Unwind(r)
             \/ Interrupt(r)
      PROVE  parked' = parked
  BY <1>2, Zenon
  DEF Start, AcquireUntried, WaitForSlot, AcquireFallback, Acquired, Refuse,
      AttemptsExhausted, RefreshUsable, RefreshUnusable, SendFails, PauseEnds,
      Opened, ErrorStatus, RejectedForCredits, RejectedUnauthorized,
      RejectedThrottled, RejectedByEdge, RejectedByServer, ProbeNextShape,
      RejectedForClient, ReauthFails, ReauthSucceeds, ResendFails,
      ResendRejected, RetryFailed, BodyEnds, CloseStream, CloseResponse,
      CompleteReturns, Unwind, Interrupt, Disconnect, Abort, AbortUnheld,
      AbortTeardown
<1>3. QED
  BY <1>1, <1>2, Zenon DEF Next, Advance

\* A rejection that names the model touches that model of that account alone:
\* which other models the account serves, and what every other account
\* serves, stays as it was.
THEOREM ParkingStaysScoped == Spec => ParkingIsModelScoped
<1> DEFINE Scoped ==
      \A a \in Accounts, m \in Models :
         m \in parked'[a] \ parked[a]
         => \A b \in Accounts, n \in Models :
               <<b, n>> # <<a, m>> => (Serves(b, n) <=> Serves(b, n)')
<1>1. ASSUME ExchangeInv, [Next]_vars, NEW a \in Accounts, NEW m \in Models,
             m \in parked'[a] \ parked[a],
             NEW b \in Accounts, NEW n \in Models, <<b, n>> # <<a, m>>
      PROVE  Serves(b, n) <=> Serves(b, n)'
  <2>1. PICK r \in Requests : RejectedForModel(r)
    BY <1>1, OnlyRejectionsPark
  <2>2. PICK c \in Accounts, k \in Models :
             parked' = [parked EXCEPT ![c] = @ \cup {k}]
    <3>1. held[r] \in Accounts /\ model[r] \in Models
      BY <1>1, <2>1
      DEF RejectedForModel, Drained, ExchangeInv, TypeOK, HeldInExchange,
          ExchangePCs
    <3>2. QED
      BY <2>1, <3>1 DEF RejectedForModel, CapModel
  <2>3. parked \in [Accounts -> SUBSET Models]
    BY <1>1 DEF ExchangeInv, TypeOK, PoolTypeOK
  <2>4. c = a /\ k = m
    BY <1>1, <2>2, <2>3
  <2>5. n \in parked'[b] <=> n \in parked[b]
    BY <1>1, <2>2, <2>3, <2>4
  <2>6. UNCHANGED <<members, state, paidExhausted>>
    BY <2>1 DEF RejectedForModel, Drained, requestFrame, healthVars
  <2>7. QED
    BY <2>5, <2>6 DEF Serves, IsReady
<1>2. ExchangeInv /\ [Next]_vars => [Scoped]_vars
  BY <1>1
<1>3. QED
  BY <1>2, ExchangeInit, ExchangeStep, PTL DEF Spec, ParkingIsModelScoped

-----------------------------------------------------------------------------
(* The availability page.                                                  *)

\* The accounts the router would consider, before quota_aware narrows them.
Usable(m) == {a \in members : /\ IsReady(a)
                              /\ ~(NeedsPaid(m) /\ paidExhausted[a])
                              /\ m \notin parked[a]}

\* The narrowing by quota_aware leaves some account if there was one.
LEMMA CandidatesAreUsable ==
  ASSUME NEW m \in Models
  PROVE  /\ Candidates({}, NeedsPaid(m), m) \subseteq Usable(m)
         /\ Usable(m) # {} => Candidates({}, NeedsPaid(m), m) # {}
  BY DEF Candidates, Usable

\* What the page shows as available is what the router would consider, up to
\* the plan.
LEMMA ServingIsUsable ==
  ASSUME PoolTypeOK, NEW m \in Models, NEW planless \in SUBSET members
  PROVE  Serving(m, planless) =
            IF Lane(m) = "plan" THEN Usable(m) \ planless ELSE Usable(m)
<1> USE PoolAssumption DEF PoolTypeOK, AccountStates
<1>1. (Lane(m) = "usage") = NeedsPaid(m)
  BY DEF Lane, NeedsPaid
<1>2. ASSUME NEW a \in members
      PROVE  Status(a, m, planless) = "available"
                <=> /\ a \in Usable(m)
                    /\ ~(Lane(m) = "plan" /\ a \in planless)
  <2>1. state[a] \in AccountStates
    OBVIOUS
  <2>2. IsReady(a) <=> state[a] # "dead" /\ ~InCooldown(a)
    BY <2>1 DEF IsReady, InCooldown
  <2>3. QED
    BY <1>1, <2>2 DEF Status, Usable
<1>3. QED
  BY <1>2 DEF Serving, Usable

\* availability.py:76: the dashboard never contradicts the router.
THEOREM DashboardAgrees == Spec => []AgreesWithRouter
<1>1. ASSUME PoolTypeOK PROVE AgreesWithRouter
  <2> SUFFICES ASSUME NEW m \in Models, NEW planless \in SUBSET members
               PROVE  LET routable == Candidates({}, NeedsPaid(m), m)
                      IN  /\ Overall(m, planless) # "none" => routable # {}
                          /\ Overall(m, planless) = "none" /\ Lane(m) # "plan"
                             => routable = {}
                          /\ routable \subseteq Serving(m, planless) \cup planless
    BY DEF AgreesWithRouter
  <2>1. Overall(m, planless) = "none" <=> Serving(m, planless) = {}
    BY DEF Overall
  <2>2. QED
    BY <1>1, <2>1, CandidatesAreUsable, ServingIsUsable
<1>2. TypeOK => PoolTypeOK
  BY DEF TypeOK
<1>3. QED
  BY <1>1, <1>2, TypeCorrect, PTL

-----------------------------------------------------------------------------
(* The chain: positions in it.                                             *)

ChainModels == {Chain[i] : i \in DOMAIN Chain}

\* The free models of the chain, by position.
FreePositions == {i \in DOMAIN Chain : Chain[i] \in FreeModels}

\* The chain names no model twice: positions and models of it correspond.
LEMMA PositionInverts ==
  ASSUME NEW i \in DOMAIN Chain
  PROVE  Position(Chain[i]) = i
<1>1. \A j, k \in DOMAIN Chain : Chain[j] = Chain[k] => j = k
  BY ChainAssumption DEF Seqs!IsInjective
<1>2. QED
  BY <1>1 DEF Position

LEMMA ChainTyped == /\ DOMAIN Chain \subseteq Nat
                    /\ \A i \in DOMAIN Chain : Chain[i] \in Models
  BY ChainAssumption

-----------------------------------------------------------------------------
(* The inductive invariant.                                                *)

\* A walk through the chain: candidates that end with model m and that, where m
\* is a model the chain may go on from, are the free models of the chain between
\* the first of them and m, in the order of the chain.
IsWalk(walk, m) ==
    /\ walk \in Seq(Models)
    /\ walk # <<>>
    /\ walk[Len(walk)] = m
    /\ m \in FreeModels \cap ChainModels =>
          /\ {walk[k] : k \in DOMAIN walk} =
                {Chain[i] : i \in {j \in FreePositions :
                                     j >= Position(walk[1]) /\ j <= Position(m)}}
          /\ \A k, l \in DOMAIN walk :
                k < l => Position(walk[k]) < Position(walk[l])

\* The candidates of a request so far are a walk to its model.
Walked(r) == IsWalk(attempted[r], model[r])

\* An exhausted chain was left at its last free model, and for good.
ExhaustedAtEnd(r) ==
    outcome[r] = "exhausted" =>
        /\ r \in answered
        /\ model[r] \in FreeModels \cap ChainModels
        /\ CandidatesAfter(model[r]) = {}

WalkInv ==
    /\ attempted \in [Requests -> Seq(Models)]
    /\ \A r \in Requests : Walked(r) /\ ExhaustedAtEnd(r)

\* What the request path guarantees survives the steps of the chain.
ChainInv == ExchangeInv /\ SlotInv /\ WalkInv
-----------------------------------------------------------------------------
(* What the steps of the request path leave alone.                         *)

LEMMA AnswersAreTheChains ==
  ASSUME ExchangeInv, [Next]_vars
  PROVE  /\ model' = model
         /\ \A r \in Requests : outcome'[r] = "exhausted" => outcome[r] = "exhausted"
<1> DEFINE Kept ==
      /\ model' = model
      /\ \A r \in Requests : outcome'[r] = "exhausted" => outcome[r] = "exhausted"
<1> USE DEF requestFrame, ExchangeInv, TypeOK
<1>1. ASSUME NEW r \in Requests,
             \/ Start(r) \/ AcquireUntried(r) \/ WaitForSlot(r)
             \/ AcquireFallback(r) \/ RefreshUsable(r) \/ RefreshUnusable(r)
             \/ SendFails(r) \/ PauseEnds(r) \/ Opened(r) \/ ErrorStatus(r)
             \/ RejectedForCredits(r) \/ RejectedForModel(r)
             \/ RejectedUnauthorized(r) \/ RejectedThrottled(r)
             \/ RejectedByServer(r) \/ ProbeNextShape(r) \/ ReauthFails(r)
             \/ ReauthSucceeds(r) \/ ResendFails(r) \/ ResendRejected(r)
             \/ CloseStream(r) \/ CloseResponse(r) \/ CompleteReturns(r)
             \/ Unwind(r)
      PROVE  UNCHANGED <<model, outcome>>
  BY <1>1, Zenon
  DEF Start, AcquireUntried, WaitForSlot, AcquireFallback, Acquired,
      RefreshUsable, RefreshUnusable, SendFails, PauseEnds, Opened,
      ErrorStatus, RejectedForCredits, RejectedForModel, RejectedUnauthorized,
      RejectedThrottled, RejectedByServer, ProbeNextShape, Drained, Rotate,
      ReauthFails, ReauthSucceeds, ResendFails, ResendRejected, RetryFailed,
      CloseStream, CloseResponse, CompleteReturns, Unwind
<1>2. ASSUME NEW r \in Requests, BodyEnds(r) \/ Interrupt(r)
      PROVE  /\ model' = model
             /\ \E result \in Outcomes \ {"exhausted"} :
                   outcome' = [outcome EXCEPT ![r] = result]
  BY <1>2
  DEF BodyEnds, Interrupt, Disconnect, Abort, AbortUnheld, AbortTeardown,
      Finish, Outcomes
<1>3. ASSUME NEW r \in Requests,
             Refuse(r) \/ AttemptsExhausted(r) \/ RejectedByEdge(r)
             \/ RejectedForClient(r)
      PROVE  /\ model' = model
             /\ \E result \in Outcomes \ {"exhausted"} :
                   outcome' = [outcome EXCEPT ![r] = result]
  <2>1. LastErrorOr(r, "empty") \in {"plain", "scoped", "empty"}
    BY DEF LastErrorOr, ErrorClasses
  <2>2. UnavailableReason(model[r]) \in
           {"none", "parked", "cooling", "unusable", "busy"}
    BY Zenon DEF UnavailableReason
  <2>3. PICK result \in Outcomes \ {"exhausted"} : Finish(r, result)
    BY <1>3, <2>1, <2>2
    DEF Refuse, AttemptsExhausted, RejectedByEdge, RejectedForClient, Outcomes
  <2>4. model' = model
    BY <1>3, Zenon DEF Refuse, AttemptsExhausted, RejectedByEdge, RejectedForClient,
                Drained
  <2>5. QED
    BY <2>3, <2>4 DEF Finish
<1>4. ASSUME ClockTick \/ Balance \/ Operator \/ UNCHANGED vars
      PROVE  UNCHANGED <<model, outcome>>
  BY <1>4, Zenon DEF ClockTick, Balance, Operator, requestVars, vars
<1>5. ASSUME NEW r \in Requests, NEW result \in Outcomes \ {"exhausted"},
             model' = model, outcome' = [outcome EXCEPT ![r] = result]
      PROVE  Kept
  BY <1>5
<1>6. UNCHANGED <<model, outcome>> => Kept
  OBVIOUS
<1>7. ASSUME NEW r \in Requests, Start(r) \/ Advance(r) \/ Interrupt(r)
      PROVE  Kept
  <2>1. CASE UNCHANGED <<model, outcome>>
    BY <2>1, <1>6
  <2>2. CASE ~UNCHANGED <<model, outcome>>
    <3>1. /\ model' = model
          /\ \E result \in Outcomes \ {"exhausted"} :
                outcome' = [outcome EXCEPT ![r] = result]
      BY <1>7, <2>2, <1>1, <1>2, <1>3, Zenon DEF Advance
    <3>2. QED
      BY <3>1, <1>5
  <2>3. QED
    BY <2>1, <2>2
<1>8. Kept
  BY <1>4, <1>6, <1>7, Zenon DEF Next
<1>9. QED
  BY <1>8

-----------------------------------------------------------------------------
(* The steps of the chain, seen from the request path.                     *)

LEMMA ChainStepKeepsExchange ==
  ASSUME ExchangeInv, NEW r \in Requests, ChainStep(r)
  PROVE  ExchangeInv' /\ UNCHANGED <<inFlight, held, retaken>>
<1>1. pc[r] = "done" /\ UNCHANGED <<poolVars, held, retaken>>
  BY Zenon DEF ChainStep, MoveOn, Exhausted, Reraise, Answer, Failing
<1>2. CASE MoveOn(r)
  <2>1. PICK i \in DOMAIN Chain :
             /\ model' = [model EXCEPT ![r] = Chain[i]]
             /\ probesLeft' = [probesLeft EXCEPT
                                 ![r] = IF Chain[i] \in known THEN 0 ELSE MaxProbes]
    BY <1>2 DEF MoveOn, CandidatesAfter
  <2>2. Chain[i] \in Models
    BY ChainTyped
  <2>3. QED
    BY <1>1, <1>2, <2>1, <2>2, ServiceAssumption
    DEF MoveOn, Goto, ExchangeInv, TypeOK, PoolTypeOK, poolVars,
        HeldInExchange, ExchangePCs, SubjectInTransit, RetakenIsHeld, PCs,
        Outcomes
<1>3. ASSUME NEW result \in Outcomes, Answer(r, result)
      PROVE  ExchangeInv'
  BY <1>1, <1>3
  DEF Answer, ExchangeInv, TypeOK, PoolTypeOK, poolVars,
      HeldInExchange, ExchangePCs, SubjectInTransit, RetakenIsHeld
<1>4. outcome[r] \in Outcomes /\ "exhausted" \in Outcomes
  BY DEF ExchangeInv, TypeOK, Outcomes
<1>5. QED
  BY <1>1, <1>2, <1>3, <1>4 DEF ChainStep, Exhausted, Reraise, poolVars

LEMMA ChainStepKeepsSlots ==
  ASSUME ExchangeInv, SlotInv, NEW r \in Requests, ChainStep(r)
  PROVE  SlotInv'
<1>1. ExchangeInv' /\ UNCHANGED <<inFlight, held, retaken>>
  BY ChainStepKeepsExchange
<1>2. SlotsBalanced' /\ CapRespected'
  BY <1>1 DEF SlotInv, SlotsBalanced, Holders, CapRespected
<1>3. QED
  BY <1>1, <1>2 DEF SlotInv, ExchangeInv

\* A step is one of the request path, or one of the chain.
LEMMA ChainSteps ==
  ASSUME [ChainNext]_chainVars
  PROVE  \/ [Next]_vars /\ UNCHANGED <<attempted, answered>>
         \/ \E r \in Requests : ChainStep(r)
  BY DEF ChainNext, chainVars
-----------------------------------------------------------------------------
(* The walk.                                                               *)

LEMMA FirstCandidate ==
  ASSUME ChainInit, NEW r \in Requests
  PROVE  Walked(r) /\ ExhaustedAtEnd(r)
<1>1. attempted[r] = <<model[r]>> /\ model[r] \in Models
  BY DEF ChainInit, Init
<1>2. ASSUME model[r] \in FreeModels \cap ChainModels
      PROVE  {attempted[r][k] : k \in DOMAIN attempted[r]} =
                {Chain[i] : i \in {j \in FreePositions :
                                     /\ j >= Position(attempted[r][1])
                                     /\ j <= Position(model[r])}}
  <2>1. PICK p \in DOMAIN Chain : Chain[p] = model[r]
    BY <1>2 DEF ChainModels
  <2>2. Position(model[r]) = p /\ p \in FreePositions
    BY <1>2, <2>1, PositionInverts DEF FreePositions
  <2>3. {j \in FreePositions : j >= p /\ j <= p} = {p}
    BY <2>2, ChainTyped DEF FreePositions
  <2>4. {attempted[r][k] : k \in DOMAIN attempted[r]} = {model[r]}
    BY <1>1
  <2>5. attempted[r][1] = model[r]
    BY <1>1
  <2>6. QED
    BY <2>1, <2>2, <2>3, <2>4, <2>5
<1>3. \A k, l \in DOMAIN attempted[r] : ~(k < l)
  BY <1>1
<1>4. Walked(r)
  BY <1>1, <1>2, <1>3 DEF Walked, IsWalk
<1>5. QED
  BY <1>4 DEF ExhaustedAtEnd, ChainInit, Init

\* Going on to the next free model extends the walk by that model.
LEMMA NextCandidate ==
  ASSUME ExchangeInv, WalkInv, NEW r \in Requests, MoveOn(r)
  PROVE  Walked(r)'
<1> DEFINE before == attempted[r]
           from == Position(before[1])
           here == Position(model[r])
<1>1. PICK i \in CandidatesAfter(model[r]) :
           /\ \A j \in CandidatesAfter(model[r]) : i <= j
           /\ model' = [model EXCEPT ![r] = Chain[i]]
           /\ attempted' = [attempted EXCEPT ![r] = Append(@, Chain[i])]
  BY DEF MoveOn
<1>2. /\ i \in DOMAIN Chain /\ i \in Nat
      /\ Chain[i] \in FreeModels /\ Chain[i] \in Models
      /\ i > here
      /\ Position(Chain[i]) = i
  BY <1>1, ChainTyped, PositionInverts DEF CandidatesAfter
<1>3. /\ model'[r] = Chain[i]
      /\ attempted'[r] = Append(before, Chain[i])
  BY <1>1 DEF ExchangeInv, TypeOK, WalkInv
<1>4. /\ before \in Seq(Models)
      /\ before # <<>>
      /\ before[Len(before)] = model[r]
  BY DEF WalkInv, Walked, IsWalk
<1>5. model[r] \in FreeModels \cap ChainModels
  BY DEF MoveOn, Failing, Seqs!ToSet, ChainModels
<1>6. PICK p \in DOMAIN Chain : Chain[p] = model[r]
  BY <1>5 DEF ChainModels
<1>7. /\ here = p /\ p \in Nat /\ p \in FreePositions
  BY <1>5, <1>6, ChainTyped, PositionInverts DEF FreePositions
<1>8. /\ {before[k] : k \in DOMAIN before} =
            {Chain[q] : q \in {j \in FreePositions : j >= from /\ j <= here}}
      /\ \A k, l \in DOMAIN before :
            k < l => Position(before[k]) < Position(before[l])
  BY <1>5 DEF WalkInv, Walked, IsWalk
<1>9. /\ DOMAIN before = 1..Len(before) /\ Len(before) \in Nat \ {0}
      /\ DOMAIN Append(before, Chain[i]) = 1..(Len(before) + 1)
      /\ Len(Append(before, Chain[i])) = Len(before) + 1
      /\ \A k \in DOMAIN before : Append(before, Chain[i])[k] = before[k]
      /\ Append(before, Chain[i])[Len(before) + 1] = Chain[i]
      /\ Append(before, Chain[i]) \in Seq(Models)
  BY <1>2, <1>4
\* The candidates so far come before the new one.
<1>10. \A k \in DOMAIN before :
          \E q \in FreePositions : /\ before[k] = Chain[q] /\ q <= here
                                   /\ Position(before[k]) = q
  <2>1. \A k \in DOMAIN before :
           \E q \in FreePositions : before[k] = Chain[q] /\ q <= here
    BY <1>8
  <2>2. QED
    BY <2>1, PositionInverts DEF FreePositions
<1>11. PICK q \in FreePositions : before[1] = Chain[q] /\ q = from /\ from <= here
  BY <1>9, <1>10
<1>12. from \in Nat /\ here \in Nat
  BY <1>7, <1>11, ChainTyped DEF FreePositions
<1>13. Append(before, Chain[i])[1] = before[1]
  BY <1>9
<1>14. {j \in FreePositions : j >= from /\ j <= i} =
          {j \in FreePositions : j >= from /\ j <= here} \cup {i}
  <2>1. i \in FreePositions /\ i >= from
    BY <1>2, <1>11, <1>12 DEF FreePositions
  <2>2. \A j \in FreePositions : j <= i <=> j <= here \/ j = i
    <3>1. \A j \in FreePositions : j \in Nat /\ (j > here => i <= j)
      BY <1>1, ChainTyped DEF FreePositions, CandidatesAfter
    <3>2. QED
      BY <3>1, <1>2, <1>12
  <2>3. QED
    BY <2>1, <2>2
<1>15. {Append(before, Chain[i])[k] : k \in DOMAIN Append(before, Chain[i])} =
          {before[k] : k \in DOMAIN before} \cup {Chain[i]}
  BY <1>9
<1>16. {Append(before, Chain[i])[k] : k \in DOMAIN Append(before, Chain[i])} =
          {Chain[j] : j \in {j \in FreePositions : j >= from /\ j <= i}}
  BY <1>8, <1>14, <1>15
<1>17. \A k, l \in DOMAIN Append(before, Chain[i]) :
          k < l => Position(Append(before, Chain[i])[k])
                      < Position(Append(before, Chain[i])[l])
  <2>1. ASSUME NEW k \in 1..Len(before)
        PROVE  Position(before[k]) < Position(Chain[i])
    <3>1. PICK h \in FreePositions : h <= here /\ Position(before[k]) = h
      BY <1>9, <1>10
    <3>2. h \in Nat
      BY ChainTyped DEF FreePositions
    <3>3. QED
      BY <3>1, <3>2, <1>2, <1>12
  <2>2. QED
    BY <2>1, <1>8, <1>9
<1>18. IsWalk(Append(before, Chain[i]), Chain[i])
  <2> DEFINE after == Append(before, Chain[i])
  <2>1. /\ after \in Seq(Models)
        /\ after # <<>>
        /\ after[Len(after)] = Chain[i]
    BY <1>9
  <2>2. Position(after[1]) = from /\ Position(Chain[i]) = i
    BY <1>2, <1>13
  <2>3. {after[k] : k \in DOMAIN after} =
           {Chain[j] : j \in {j \in FreePositions :
                                j >= Position(after[1]) /\ j <= Position(Chain[i])}}
    BY <1>16, <2>2
  <2>4. \A k, l \in DOMAIN after : k < l => Position(after[k]) < Position(after[l])
    BY <1>17
  <2> HIDE DEF after
  <2>5. IsWalk(after, Chain[i])
    BY <2>1, <2>3, <2>4 DEF IsWalk
  <2>6. QED
    BY <2>5 DEF after
<1>19. QED
  BY <1>3, <1>18 DEF Walked

LEMMA WalkStep ==
  ASSUME ExchangeInv, WalkInv, [ChainNext]_chainVars
  PROVE  WalkInv'
<1>1. CASE [Next]_vars /\ UNCHANGED <<attempted, answered>>
  <2>1. /\ model' = model
        /\ \A r \in Requests : outcome'[r] = "exhausted" => outcome[r] = "exhausted"
    BY <1>1, AnswersAreTheChains
  <2>2. QED
    BY <1>1, <2>1 DEF WalkInv, Walked, ExhaustedAtEnd
<1>2. ASSUME NEW r \in Requests, MoveOn(r)
      PROVE  WalkInv'
  <2>1. PICK i \in DOMAIN Chain :
             /\ model' = [model EXCEPT ![r] = Chain[i]]
             /\ attempted' = [attempted EXCEPT ![r] = Append(@, Chain[i])]
    BY <1>2 DEF MoveOn, CandidatesAfter
  <2>2. attempted' \in [Requests -> Seq(Models)]
    BY <2>1, ChainTyped DEF WalkInv
  <2>3. Walked(r)'
    BY <1>2, NextCandidate
  <2>4. ASSUME NEW s \in Requests, s # r
        PROVE  Walked(s)'
    <3>1. model'[s] = model[s] /\ attempted'[s] = attempted[s]
      BY <2>1, <2>4 DEF ExchangeInv, TypeOK, WalkInv
    <3>2. QED
      BY <3>1 DEF WalkInv, Walked
  <2>5. outcome'[r] = "pending" /\ answered' = answered
    BY <1>2 DEF MoveOn, ExchangeInv, TypeOK
  <2>6. ASSUME NEW s \in Requests
        PROVE  ExhaustedAtEnd(s)'
    <3>1. CASE s = r
      BY <2>5, <3>1 DEF ExhaustedAtEnd
    <3>2. CASE s # r
      BY <1>2, <2>1, <2>5, <3>2
      DEF MoveOn, ExhaustedAtEnd, ExchangeInv, TypeOK, WalkInv
    <3>3. QED
      BY <3>1, <3>2
  <2>7. QED
    BY <2>2, <2>3, <2>4, <2>6 DEF WalkInv
<1>3. ASSUME NEW r \in Requests, NEW result \in Outcomes, Answer(r, result),
             result = "exhausted" => CandidatesAfter(model[r]) = {}
      PROVE  WalkInv'
  <2>1. \A s \in Requests : Walked(s)'
    BY <1>3 DEF Answer, WalkInv, Walked
  <2>2. model[r] \in FreeModels \cap ChainModels
    BY <1>3 DEF Answer, Failing, Seqs!ToSet, ChainModels
  <2>3. \A s \in Requests : ExhaustedAtEnd(s)'
    BY <1>3, <2>2 DEF Answer, WalkInv, ExhaustedAtEnd, ExchangeInv, TypeOK
  <2>4. QED
    BY <1>3, <2>1, <2>3 DEF Answer, WalkInv
<1>4. ASSUME NEW r \in Requests, ChainStep(r)
      PROVE  WalkInv'
  <2>1. "exhausted" \in Outcomes /\ outcome[r] \in Outcomes
    BY DEF ExchangeInv, TypeOK, Outcomes
  <2>2. CASE Reraise(r)
    <3>1. outcome[r] # "exhausted"
      BY <2>2 DEF Reraise, Answer, Failing, Failures
    <3>2. QED
      BY <2>1, <2>2, <3>1, <1>3 DEF Reraise
  <2>3. CASE Exhausted(r)
    BY <2>1, <2>3, <1>3 DEF Exhausted
  <2>4. QED
    BY <1>2, <1>4, <2>2, <2>3 DEF ChainStep
<1>5. QED
  BY <1>1, <1>4, ChainSteps

\* Everything the request path guarantees of its slots stays true under the
\* walk down the chain, and every walk is recorded as it went.
THEOREM ChainInvariant == ChainSpec => []ChainInv
<1>1. ChainInit => ChainInv
  <2>1. SUFFICES ASSUME ChainInit PROVE ChainInv
    OBVIOUS
  <2>2. ExchangeInv /\ SlotInv
    BY <2>1, ExchangeInit, SlotInvInit DEF ChainInit
  <2>3. attempted \in [Requests -> Seq(Models)]
    BY <2>1 DEF ChainInit, Init
  <2>4. QED
    BY <2>1, <2>2, <2>3, FirstCandidate DEF ChainInv, WalkInv
<1>2. ChainInv /\ [ChainNext]_chainVars => ChainInv'
  <2>1. SUFFICES ASSUME ChainInv, [ChainNext]_chainVars PROVE ChainInv'
    OBVIOUS
  <2>2. ExchangeInv' /\ SlotInv'
    BY <2>1, ChainSteps, ExchangeStep, SlotInvInductive,
       ChainStepKeepsExchange, ChainStepKeepsSlots
    DEF ChainInv, ExchangeInv
  <2>3. QED
    BY <2>1, <2>2, WalkStep DEF ChainInv
<1>3. QED
  BY <1>1, <1>2, PTL DEF ChainSpec

\* "All free models are capped" is said of a chain that was walked to its end:
\* every free model from the selected one on, once, in order, and no other.
THEOREM ExhaustionIsHonest == ChainSpec => []ExhaustedHonestly
<1>1. ASSUME WalkInv, NEW r \in Requests, outcome[r] = "exhausted"
      PROVE  /\ Seqs!ToSet(attempted[r]) =
                   {Chain[i] : i \in {j \in DOMAIN Chain :
                                        /\ j >= Position(attempted[r][1])
                                        /\ Chain[j] \in FreeModels}}
             /\ \A k, l \in DOMAIN attempted[r] :
                   k < l => Position(attempted[r][k]) < Position(attempted[r][l])
  <2>1. /\ model[r] \in FreeModels \cap ChainModels
        /\ CandidatesAfter(model[r]) = {}
        /\ Walked(r)
    BY <1>1 DEF WalkInv, ExhaustedAtEnd
  <2>2. PICK p \in DOMAIN Chain : Chain[p] = model[r]
    BY <2>1 DEF ChainModels
  <2>3. Position(model[r]) = p /\ p \in Nat
    BY <2>2, ChainTyped, PositionInverts
  <2>4. \A j \in FreePositions : j <= p
    BY <2>1, <2>3, ChainTyped DEF CandidatesAfter, FreePositions
  <2>5. {j \in FreePositions : /\ j >= Position(attempted[r][1])
                               /\ j <= Position(model[r])} =
           {j \in DOMAIN Chain : /\ j >= Position(attempted[r][1])
                                 /\ Chain[j] \in FreeModels}
    BY <2>3, <2>4 DEF FreePositions
  <2>6. QED
    BY <2>1, <2>5 DEF Walked, IsWalk, Seqs!ToSet
<1>2. ChainInv => ExhaustedHonestly
  BY <1>1 DEF ChainInv, ExhaustedHonestly
<1>3. QED
  BY <1>2, ChainInvariant, PTL

\* A model is left only by a request that holds no slot, and only while no
\* account of the pool could have served it.
THEOREM LeavesOnlyCapped == ChainSpec => LeavesOnlyCappedModels
<1> DEFINE Leaves ==
      \A r \in Requests :
         model'[r] # model[r]
         => /\ held[r] = NoAccount
            /\ \A a \in Accounts : ~Serves(a, model[r])
<1>1. ASSUME ExchangeInv, [ChainNext]_chainVars, NEW r \in Requests,
             model'[r] # model[r]
      PROVE  /\ held[r] = NoAccount
             /\ \A a \in Accounts : ~Serves(a, model[r])
  <2>1. PICK s \in Requests : ChainStep(s)
    BY <1>1, ChainSteps, AnswersAreTheChains
  <2>2. MoveOn(s)
    BY <1>1, <2>1, Zenon DEF ChainStep, Exhausted, Reraise, Answer
  <2>3. s = r
    <3>1. \E m \in Models : model' = [model EXCEPT ![s] = m]
      BY <2>2, ChainTyped DEF MoveOn, CandidatesAfter
    <3>2. QED
      BY <1>1, <3>1 DEF ExchangeInv, TypeOK
  <2>4. held[r] = NoAccount
    BY <1>1, <2>2, <2>3
    DEF MoveOn, Failing, ExchangeInv, TypeOK, HeldInExchange, ExchangePCs
  <2>5. ASSUME NEW a \in Accounts, Serves(a, model[r])
        PROVE  FALSE
    BY <2>2, <2>3, <2>5 DEF MoveOn, AllCapped, Serves, IsReady
  <2>6. QED
    BY <2>4, <2>5
<1>2. ExchangeInv /\ [ChainNext]_chainVars => [Leaves]_chainVars
  BY <1>1
<1>3. ChainInv => ExchangeInv
  BY DEF ChainInv
<1>4. QED
  BY <1>2, <1>3, ChainInvariant, PTL DEF ChainSpec, LeavesOnlyCappedModels

\* With the chain around it, the request path still implements the slot ledger.
THEOREM ChainKeepsLedger == ChainSpec => LedgerSpec
<1>1. ChainInit => Ledger!Init
  BY LedgerInit DEF ChainInit
<1>2. ASSUME ChainInv, [ChainNext]_chainVars
      PROVE  [Ledger!Next]_(Ledger!ledger)
  <2>1. CASE [Next]_vars
    BY <1>2, <2>1, LedgerStep DEF ChainInv, ExchangeInv
  <2>2. ASSUME NEW r \in Requests, ChainStep(r)
        PROVE  UNCHANGED Ledger!ledger
    BY <1>2, <2>2, ChainStepKeepsExchange DEF ChainInv, Ledger!ledger
  <2>3. QED
    BY <1>2, <2>1, <2>2, ChainSteps
<1>3. QED
  BY <1>1, <1>2, ChainInvariant, PTL DEF ChainSpec, LedgerSpec, Ledger!Spec
=============================================================================
