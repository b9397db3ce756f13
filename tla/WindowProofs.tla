---------------------------- MODULE WindowProofs ----------------------------
(***************************************************************************)
(* Theorems about the Tk window, for every number of clicks and for a user *)
(* who clicks whenever he can.                                             *)
(***************************************************************************)
EXTENDS Window, FiniteSetTheorems, TLAPS

\* Restarts whose wait_and_start is under way, and how many have still to give
\* out their second generation.
Active == {r \in Generations : waiter[r] # "idle"}
Pending == Cardinality(Active) + IF ui = "restarting" THEN 1 ELSE 0

\* Generations are given out in order: two per click at most, and only to those
\* given out a thread, a server, an answer or a restart belongs.
GenerationsInOrder ==
    /\ lifecycle + Pending <= 2 * clicks
    /\ \A g \in Generations :
         g > lifecycle => thread[g] = "none" /\ awaiting[g] = "none" /\ waiter[g] = "idle"
    /\ server <= lifecycle
    /\ \A g \in exiting : g < lifecycle
    /\ config <= clicks
    /\ promised <= config
    /\ ui = "restarting" => lifecycle # 0 /\ waiter[lifecycle] = "idle"
    /\ restarting => restart # None
    /\ status = "running" => lifecycle # 0

GenerationInv == WindowTypeOK /\ GenerationsInOrder

Where == {"none", "starting", "loaded", "built", "up", "down"}
Answers == {"none", "probing", "ok", "failed", "done"}
Waits == {"idle", "spawned", "joining", "stopped", "stuck"}

LEMMA GenerationsFinite ==
  /\ IsFiniteSet(Generations) /\ Generations \subseteq Nat \ {0}
  /\ \A n \in Nat \ {0} : n <= 2 * MaxClicks => n \in Generations
<1>1. 2 * MaxClicks \in Int /\ 1 \in Int
  BY WindowAssumption
<1>2. IsFiniteSet(1..(2 * MaxClicks))
  BY <1>1, FS_Interval
<1>3. QED
  BY <1>1, <1>2, WindowAssumption DEF Generations

\* What a set of restarts under way counts, with one more and with one less.
LEMMA ActiveCounts ==
  ASSUME NEW A \in SUBSET Generations
  PROVE  /\ Cardinality(A) \in Nat
         /\ \A r \in Generations \ A : Cardinality(A \cup {r}) = Cardinality(A) + 1
         /\ \A r \in A : Cardinality(A \ {r}) = Cardinality(A) - 1
<1>1. IsFiniteSet(A)
  BY GenerationsFinite, FS_Subset
<1>2. Cardinality(A) \in Nat
  BY <1>1, FS_CardinalityType
<1>3. ASSUME NEW r \in Generations \ A PROVE Cardinality(A \cup {r}) = Cardinality(A) + 1
  BY <1>1, <1>3, FS_AddElement
<1>4. ASSUME NEW r \in A PROVE Cardinality(A \ {r}) = Cardinality(A) - 1
  BY <1>1, <1>4, FS_RemoveElement
<1>5. QED
  BY <1>2, <1>3, <1>4

LEMMA GenerationInit == Init => GenerationInv
<1> SUFFICES ASSUME Init PROVE GenerationInv
  OBVIOUS
<1>1. WindowTypeOK
  <2>1. 0 \in 0..MaxClicks
    BY WindowAssumption
  <2>2. QED
    BY <2>1 DEF Init, WindowTypeOK, None
<1>2. Pending = 0
  <2>1. Active = {}
    BY DEF Init, Active
  <2>2. Cardinality(Active) = 0
    BY <2>1, FS_EmptySet
  <2>3. QED
    BY <2>2 DEF Init, Pending
<1>3. GenerationsInOrder
  BY <1>2, WindowAssumption DEF Init, GenerationsInOrder, None, Generations
<1>4. QED
  BY <1>1, <1>3 DEF GenerationInv

\* The types of what a start, a stop or the gateway thread changes.
LEMMA GenerationNumbers ==
  ASSUME GenerationInv
  PROVE  /\ lifecycle \in Nat /\ clicks \in Nat /\ server \in Nat
         /\ config \in Nat /\ promised \in Nat /\ Pending \in Nat
         /\ exiting \subseteq Generations /\ Generations \subseteq Nat \ {0}
         /\ \A n \in Nat \ {0} : n <= 2 * MaxClicks => n \in Generations
         /\ clicks <= MaxClicks /\ MaxClicks \in Nat
<1>1. Cardinality(Active) \in Nat
  BY ActiveCounts DEF Active
<1>2. Pending \in Nat
  BY <1>1 DEF Pending
<1>3. {clicks, config, promised} \subseteq 0..MaxClicks
  BY DEF GenerationInv, WindowTypeOK
<1>4. {lifecycle, server} \subseteq Generations \cup {0} /\ exiting \subseteq Generations
  BY DEF GenerationInv, WindowTypeOK, None
<1>5. lifecycle \in Nat /\ server \in Nat
  <2>1. Generations \cup {0} \subseteq Nat
    BY GenerationsFinite
  <2>2. lifecycle \in Generations \cup {0} /\ server \in Generations \cup {0}
    BY <1>4, Zenon
  <2>3. QED
    BY <2>1, <2>2, Zenon
<1>6. {clicks, config, promised} \subseteq Nat /\ clicks <= MaxClicks
  BY <1>3, WindowAssumption
<1>7. QED
  BY <1>2, <1>4, <1>5, <1>6, GenerationsFinite, WindowAssumption

LEMMA StartKeepsGenerations ==
  ASSUME GenerationInv, NEW halted \in BOOLEAN, StartEverything(halted),
         clicks' \in 0..MaxClicks, config' = config, Pending' \in Nat,
         lifecycle + 1 + Pending' <= 2 * clicks',
         {stopping', restarting'} \subseteq BOOLEAN,
         ui' = "free",
         waiter' \in [Generations -> Waits],
         target' \in [Generations -> Generations \cup {None}],
         \A r \in Generations : waiter[r] = "idle" => waiter'[r] = "idle",
         restarting' => restarting,
         clicks <= clicks', UNCHANGED <<status, restart, promised, abandoned, strays>>
  PROVE  GenerationInv'
<1>n. clicks' \in Nat
  BY WindowAssumption
<1>1. CASE UNCHANGED <<serverVars, current, lifecycle, awaiting>>
  <2>1. WindowTypeOK'
    BY <1>1 DEF GenerationInv, WindowTypeOK, serverVars, Waits
  <2>2. lifecycle' + Pending' <= 2 * clicks' /\ config' <= clicks'
    BY <1>1, <1>n, GenerationNumbers DEF GenerationInv, GenerationsInOrder
  <2>3. QED
    BY <1>1, <2>1, <2>2 DEF GenerationInv, GenerationsInOrder, serverVars
<1>2. CASE lifecycle' = lifecycle + 1
  <2>1. lifecycle' \in Generations
    BY <1>2, <1>n, GenerationNumbers
  <2>2. /\ Becomes(lifecycle', "starting") /\ current' = lifecycle' /\ failed' = FALSE
        /\ awaiting' = [awaiting EXCEPT ![lifecycle'] = "probing"]
        /\ UNCHANGED <<loaded, exiting, server>>
    BY <1>2, GenerationNumbers DEF StartEverything
  <2>3. WindowTypeOK'
    BY <2>1, <2>2 DEF GenerationInv, WindowTypeOK, Becomes, Waits
  <2>4. lifecycle' + Pending' <= 2 * clicks' /\ config' <= clicks'
    BY <1>2, <1>n, GenerationNumbers DEF GenerationInv, GenerationsInOrder
  <2>5. \A g \in Generations : g > lifecycle' => g > lifecycle /\ g # lifecycle'
    BY <1>2, GenerationNumbers
  <2>6. server' <= lifecycle' /\ \A g \in exiting' : g < lifecycle'
    BY <1>2, <2>2, GenerationNumbers DEF GenerationInv, GenerationsInOrder
  <2>7. \A g \in Generations : g > lifecycle' =>
          thread'[g] = "none" /\ awaiting'[g] = "none" /\ waiter'[g] = "idle"
    BY <2>2, <2>5 DEF GenerationInv, GenerationsInOrder, Becomes, WindowTypeOK
  <2>8. lifecycle' # 0
    BY <2>1, GenerationNumbers
  <2>9. QED
    BY <2>3, <2>4, <2>6, <2>7, <2>8 DEF GenerationInv, GenerationsInOrder
<1>3. QED
  BY <1>1, <1>2 DEF StartEverything

LEMMA StopKeepsGenerations ==
  ASSUME GenerationInv, BeginStop, Pending' \in Nat,
         lifecycle + 1 + Pending' <= 2 * clicks',
         clicks' \in 0..MaxClicks, config' \in 0..MaxClicks, config' <= clicks',
         promised' \in 0..MaxClicks, promised' <= config',
         restarting' \in BOOLEAN,
         restart' \in {restart, lifecycle'}, restarting' => restarting \/ restart' = lifecycle',
         ui' \in {"stopping", "restarting"},
         abandoned' \in {abandoned, abandoned \cup {restart}},
         abandoned' # abandoned => restarting,
         UNCHANGED <<thread, loaded, server, failed, current, status, awaiting,
                     waiter, target, strays>>
  PROVE  GenerationInv'
<1>n. clicks' \in Nat
  BY WindowAssumption
<1>1. lifecycle' = lifecycle + 1 /\ lifecycle' \in Generations
  BY <1>n, GenerationNumbers DEF BeginStop
<1>2. exiting' \subseteq Generations
  BY DEF BeginStop, GenerationInv, WindowTypeOK
<1>3. /\ restart' \in Generations \cup {None} /\ restarting' => restart' # None
      /\ abandoned' \subseteq Generations
  <2>1. lifecycle' # None
    BY <1>1, GenerationNumbers DEF None
  <2>2. restarting => restart # None /\ restart \in Generations
    BY DEF GenerationInv, GenerationsInOrder, WindowTypeOK
  <2>3. restart \in Generations \cup {None} /\ abandoned \subseteq Generations
    BY DEF GenerationInv, WindowTypeOK
  <2>4. restarting' => restart' # None
    BY <2>1, <2>2
  <2>5. QED
    BY <1>1, <2>2, <2>3, <2>4
<1>4. WindowTypeOK'
  BY <1>1, <1>2, <1>3 DEF GenerationInv, WindowTypeOK, BeginStop
<1>5. \A g \in exiting' : g < lifecycle'
  <2>1. \A g \in exiting \cup {server} : g \in Nat /\ g <= lifecycle
    BY GenerationNumbers DEF GenerationInv, GenerationsInOrder
  <2>2. \A g \in exiting \cup {server} : g < lifecycle'
    BY <1>1, <2>1, GenerationNumbers
  <2>3. QED
    BY <2>2 DEF BeginStop
<1>6. server' <= lifecycle' /\ \A g \in Generations : g > lifecycle' => g > lifecycle
  BY <1>1, GenerationNumbers DEF GenerationInv, GenerationsInOrder
<1>7. lifecycle' # 0 /\ waiter'[lifecycle'] = "idle" /\ lifecycle' + Pending' <= 2 * clicks'
  <2>1. lifecycle' > lifecycle
    BY <1>1, GenerationNumbers
  <2>2. QED
    BY <1>1, <2>1, GenerationNumbers DEF GenerationInv, GenerationsInOrder
<1>8. QED
  BY <1>3, <1>4, <1>5, <1>6, <1>7 DEF GenerationInv, GenerationsInOrder

\* The restarts under way, and so what is pending, before and after a step.
LEMMA PendingClick ==
  ASSUME GenerationInv, ui = "free", waiter' = waiter
  PROVE  Pending' = Pending + IF ui' = "restarting" THEN 1 ELSE 0
<1>1. Active' = Active
  BY DEF Active
<1>2. Cardinality(Active) \in Nat
  BY ActiveCounts DEF Active
<1>3. QED
  BY <1>1, <1>2 DEF Pending

LEMMA PendingStays ==
  ASSUME GenerationInv, ui' = ui, waiter' \in [Generations -> Waits],
         \A r \in Generations : waiter[r] = "idle" <=> waiter'[r] = "idle"
  PROVE  Pending' = Pending
<1>1. Active' = Active
  BY DEF Active
<1>2. QED
  BY <1>1 DEF Pending

LEMMA PendingJoin ==
  ASSUME GenerationInv, JoinReturns
  PROVE  /\ Pending' = Pending
         /\ \A g \in Generations : g > lifecycle => waiter'[g] = waiter[g]
         /\ waiter' \in [Generations -> Waits]
<1>0. waiter \in [Generations -> Waits] /\ Cardinality(Active) \in Nat
  BY ActiveCounts DEF GenerationInv, WindowTypeOK, Waits, Active
<1>1. CASE ui = "restarting"
  <2>1. lifecycle \in Generations /\ lifecycle \notin Active
    BY <1>1 DEF GenerationInv, GenerationsInOrder, WindowTypeOK, Active
  <2>2. waiter' = [waiter EXCEPT ![lifecycle] = "spawned"] /\ ui' = "free"
    BY <1>1 DEF JoinReturns
  <2>3. Active' = Active \cup {lifecycle}
    BY <1>0, <2>1, <2>2 DEF Active
  <2>4. Cardinality(Active') = Cardinality(Active) + 1
    BY <2>1, <2>3, ActiveCounts DEF Active
  <2>5. Pending' = Pending
    BY <1>0, <1>1, <2>2, <2>4 DEF Pending
  <2>6. \A g \in Generations : g > lifecycle => g # lifecycle
    BY <2>1, GenerationNumbers
  <2>7. QED
    BY <1>0, <2>2, <2>5, <2>6 DEF Waits
<1>2. CASE ui # "restarting"
  <2>1. waiter' = waiter /\ ui' = "free"
    BY <1>2 DEF JoinReturns
  <2>2. QED
    BY <1>0, <1>2, <2>1 DEF Pending, Active
<1>3. QED
  BY <1>1, <1>2

LEMMA PendingCallback ==
  ASSUME GenerationInv, NEW r \in Generations, waiter[r] # "idle", WaiterDone(r),
         ui = "free", ui' = "free"
  PROVE  /\ Pending' \in Nat /\ Pending' + 1 = Pending
         /\ waiter' \in [Generations -> Waits]
         /\ target' \in [Generations -> Generations \cup {None}]
         /\ \A x \in Generations : waiter[x] = "idle" => waiter'[x] = "idle"
<1>0. /\ waiter \in [Generations -> Waits] /\ Cardinality(Active) \in Nat
      /\ target \in [Generations -> Generations \cup {None}]
  BY ActiveCounts DEF GenerationInv, WindowTypeOK, Waits, Active
<1>1. /\ waiter' = [waiter EXCEPT ![r] = "idle"]
      /\ target' = [target EXCEPT ![r] = None]
  BY DEF WaiterDone
<1>2. Active' = Active \ {r} /\ r \in Active
  BY <1>0, <1>1 DEF Active
<1>3. Cardinality(Active') = Cardinality(Active) - 1 /\ Cardinality(Active') \in Nat
  <2>1. Active \in SUBSET Generations /\ Active' \in SUBSET Generations
    BY DEF Active
  <2>2. QED
    BY <1>2, <2>1, ActiveCounts
<1>4. Pending = Cardinality(Active) /\ Pending' = Cardinality(Active')
  BY <1>0, <1>3 DEF Pending
<1>5. QED
  BY <1>0, <1>1, <1>3, <1>4 DEF Waits

LEMMA GenerationStep == GenerationInv /\ [Next]_vars => GenerationInv'
<1> SUFFICES ASSUME GenerationInv, [Next]_vars PROVE GenerationInv'
  OBVIOUS
<1> USE DEF serverVars, appVars, restartVars
<1>b. /\ {stopping, restarting} \subseteq BOOLEAN
      /\ waiter \in [Generations -> Waits]
      /\ target \in [Generations -> Generations \cup {None}]
      /\ config \in 0..MaxClicks /\ promised \in 0..MaxClicks
  BY DEF GenerationInv, WindowTypeOK, Waits
<1>c. ASSUME Click PROVE clicks' \in 0..MaxClicks /\ clicks' = clicks + 1 /\ ui = "free"
  BY <1>c, GenerationNumbers DEF Click
<1>1. CASE ClickStart
  <2>1. Click /\ ui' = ui /\ UNCHANGED <<config, status, stopping, restarting, restartVars>>
    BY <1>1 DEF ClickStart
  <2>2. ui' = "free" /\ waiter' = waiter
    BY <1>c, <2>1
  <2>3. Pending' = Pending
    BY <1>c, <2>1, <2>2, PendingClick, GenerationNumbers
  <2>4. lifecycle + 1 + Pending' <= 2 * clicks' /\ clicks <= clicks' /\ Pending' \in Nat
    BY <1>c, <2>1, <2>3, GenerationNumbers DEF GenerationInv, GenerationsInOrder
  <2>5. StartEverything(stopping) /\ stopping \in BOOLEAN
    BY <1>1, <1>b DEF ClickStart
  <2>6. QED
    BY <1>b, <1>c, <2>1, <2>2, <2>4, <2>5, StartKeepsGenerations
<1>2. CASE ClickStop
  <2>1. /\ Click /\ ui' = "stopping" /\ waiter' = waiter /\ BeginStop
        /\ abandoned' \in {abandoned, abandoned \cup {restart}}
        /\ abandoned' # abandoned => restarting
        /\ UNCHANGED <<config, restarting, restart, promised>>
    BY <1>2 DEF ClickStop
  <2>2. Pending' = Pending
    BY <1>c, <2>1, PendingClick, GenerationNumbers
  <2>3. /\ lifecycle + 1 + Pending' <= 2 * clicks' /\ Pending' \in Nat
        /\ config' <= clicks' /\ promised' <= config'
    BY <1>c, <2>1, <2>2, GenerationNumbers DEF GenerationInv, GenerationsInOrder
  <2>4. UNCHANGED <<thread, loaded, server, failed, current, status, awaiting,
                    waiter, target, strays>>
    BY <1>2 DEF ClickStop
  <2>5. QED
    BY <1>b, <1>c, <2>1, <2>3, <2>4, StopKeepsGenerations
<1>3. CASE ClickSave
  <2>1. /\ Click /\ waiter' = waiter /\ config' = config + 1
        /\ UNCHANGED <<thread, loaded, server, failed, current, status, awaiting,
                       target, abandoned, strays>>
    BY <1>3 DEF ClickSave
  <2>2. /\ config' \in 0..MaxClicks /\ config' <= clicks'
        /\ promised <= config' /\ config <= config'
    BY <1>b, <1>c, <2>1, GenerationNumbers DEF GenerationInv, GenerationsInOrder
  <2>3. CASE restarting
    <3>1. UNCHANGED <<lifecycle, stopping, exiting, restarting, ui, restart, promised>>
      BY <1>3, <2>3 DEF ClickSave
    <3>2. Pending' = Pending
      BY <1>c, <2>1, <3>1, PendingClick, GenerationNumbers
    <3>3. lifecycle' + Pending' <= 2 * clicks'
      BY <1>c, <2>1, <3>1, <3>2, GenerationNumbers DEF GenerationInv, GenerationsInOrder
    <3>4. WindowTypeOK'
      BY <1>c, <2>1, <2>2, <3>1 DEF GenerationInv, WindowTypeOK
    <3>5. QED
      BY <2>1, <2>2, <3>1, <3>3, <3>4 DEF GenerationInv, GenerationsInOrder
  <2>4. CASE ~restarting
    <3>1. /\ BeginStop /\ restarting' = TRUE /\ ui' = "restarting"
          /\ restart' = lifecycle' /\ promised' = config'
      BY <1>3, <2>4 DEF ClickSave
    <3>2. Pending' = Pending + 1
      BY <1>c, <2>1, <3>1, PendingClick
    <3>3. lifecycle + 1 + Pending' <= 2 * clicks' /\ Pending' \in Nat
      BY <1>c, <2>1, <3>2, GenerationNumbers DEF GenerationInv, GenerationsInOrder
    <3>4. promised' <= config'
      BY <2>2, <3>1
    <3>5. QED
      BY <1>c, <2>1, <2>2, <3>1, <3>3, <3>4, StopKeepsGenerations
  <2>5. QED
    BY <1>b, <2>3, <2>4
<1>4. CASE JoinReturns
  <2>1. /\ ui' = "free" /\ server' = None /\ status' = "stopped"
        /\ stopping' \in BOOLEAN
        /\ UNCHANGED <<clicks, config, thread, loaded, exiting, failed, lifecycle,
                       restarting, awaiting, target, restart, promised, abandoned, strays>>
    BY <1>4 DEF JoinReturns, KeepsStopping
  <2>2. /\ Pending' = Pending /\ waiter' \in [Generations -> Waits]
        /\ \A g \in Generations : g > lifecycle => waiter'[g] = waiter[g]
    BY <1>4, PendingJoin
  <2>3. server' <= lifecycle'
    BY <2>1, GenerationNumbers DEF None
  <2>4. current' \in {current, None}
    BY <1>4 DEF JoinReturns, DropEndedThread
  <2>5. WindowTypeOK'
    BY <2>1, <2>2, <2>4 DEF GenerationInv, WindowTypeOK, Waits
  <2>6. QED
    BY <2>1, <2>2, <2>3, <2>5 DEF GenerationInv, GenerationsInOrder
<1>5. ASSUME NEW r \in Generations, Worker(r) PROVE GenerationInv'
  <2>1. /\ waiter[r] # "idle"
        /\ \E w \in Waits \ {"idle"} : waiter' = [waiter EXCEPT ![r] = w]
        /\ target' \in [Generations -> Generations \cup {None}]
        /\ current' \in {current, None}
        /\ UNCHANGED othersOfWaiter
    BY <1>5, <1>b
    DEF Worker, WaiterReads, WaiterJoins, WaiterGivesUp, Waits, GenerationInv, WindowTypeOK
  <2>2. /\ waiter' \in [Generations -> Waits]
        /\ \A x \in Generations : waiter[x] = "idle" <=> waiter'[x] = "idle"
    BY <1>b, <2>1
  <2>3. Pending' = Pending
    BY <2>1, <2>2, PendingStays DEF othersOfWaiter
  <2>4. strays' \subseteq Generations
    <3>1. Running => current \in Generations
      BY DEF Running, IsAlive, GenerationInv, WindowTypeOK
    <3>2. strays' = strays \/ (Running /\ strays' = strays \cup {current})
      BY <1>5 DEF Worker, WaiterReads, WaiterJoins, WaiterGivesUp
    <3>3. QED
      BY <3>1, <3>2 DEF GenerationInv, WindowTypeOK
  <2>5. WindowTypeOK'
    BY <2>1, <2>2, <2>4 DEF GenerationInv, WindowTypeOK, othersOfWaiter, Waits
  <2>6. ui' = "restarting" => lifecycle' # 0 /\ waiter'[lifecycle'] = "idle"
    <3>1. UNCHANGED <<ui, lifecycle>>
      BY <2>1 DEF othersOfWaiter
    <3>2. ui = "restarting" => lifecycle \in Generations
      BY DEF GenerationInv, GenerationsInOrder, WindowTypeOK
    <3>3. QED
      BY <2>2, <3>1, <3>2 DEF GenerationInv, GenerationsInOrder
  <2>7. QED
    BY <2>1, <2>2, <2>3, <2>5, <2>6 DEF GenerationInv, GenerationsInOrder, othersOfWaiter
<1>6. ASSUME NEW r \in Generations, StartAfterRestart(r) PROVE GenerationInv'
  <2>1. /\ ui = "free" /\ ui' = "free" /\ waiter[r] # "idle" /\ WaiterDone(r)
        /\ UNCHANGED <<clicks, config, status, restarting, restart, promised, abandoned,
                       strays>>
    BY <1>6 DEF StartAfterRestart, WaiterDone
  <2>2. /\ Pending' \in Nat /\ Pending' + 1 = Pending
        /\ waiter' \in [Generations -> Waits]
        /\ target' \in [Generations -> Generations \cup {None}]
        /\ \A x \in Generations : waiter[x] = "idle" => waiter'[x] = "idle"
    BY <2>1, PendingCallback
  <2>3. lifecycle + 1 + Pending' <= 2 * clicks' /\ clicks' \in 0..MaxClicks
        /\ clicks <= clicks'
    BY <2>1, <2>2, GenerationNumbers DEF GenerationInv, GenerationsInOrder, WindowTypeOK
  <2>4. StartEverything(FALSE) \/ StartEverything(TRUE)
    BY <1>6 DEF StartAfterRestart, StartEverything
  <2>5. {stopping', restarting'} \subseteq BOOLEAN
    BY <1>6, <1>b DEF StartAfterRestart
  <2>6. QED
    BY <2>1, <2>2, <2>3, <2>4, <2>5, StartKeepsGenerations
<1>7. ASSUME NEW r \in Generations, RestartFailed(r) PROVE GenerationInv'
  <2>1. /\ ui = "free" /\ ui' = "free" /\ waiter[r] # "idle" /\ WaiterDone(r)
        /\ restarting' = FALSE
        /\ UNCHANGED <<clicks, config, serverVars, current, lifecycle, status, stopping,
                       awaiting, restart, promised, abandoned, strays>>
    BY <1>7 DEF RestartFailed, WaiterDone
  <2>2. /\ Pending' \in Nat /\ Pending' + 1 = Pending
        /\ waiter' \in [Generations -> Waits]
        /\ target' \in [Generations -> Generations \cup {None}]
        /\ \A x \in Generations : waiter[x] = "idle" => waiter'[x] = "idle"
    BY <2>1, PendingCallback
  <2>3. lifecycle' + Pending' <= 2 * clicks'
    BY <2>1, <2>2, GenerationNumbers DEF GenerationInv, GenerationsInOrder
  <2>4. WindowTypeOK'
    BY <2>1, <2>2 DEF GenerationInv, WindowTypeOK, Waits
  <2>5. QED
    BY <2>1, <2>2, <2>3, <2>4 DEF GenerationInv, GenerationsInOrder
<1>8. ASSUME NEW g \in Generations, GatewayThread(g) PROVE GenerationInv'
  <2>1. Pending' = Pending
    BY <1>8, <1>b, PendingStays DEF GatewayThread
  <2>2. thread[g] # "none" /\ g <= lifecycle
    <3>1. thread[g] # "none"
      BY <1>8 DEF GatewayThread, Loads, Builds, Binds, Exits, Breaks, IsAlive
    <3>2. ~(g > lifecycle)
      BY <3>1 DEF GenerationInv, GenerationsInOrder
    <3>3. QED
      BY <3>1, <3>2, GenerationNumbers
  <2>3. WindowTypeOK'
    <3>1. \E w \in Where : thread' = [thread EXCEPT ![g] = w]
      BY <1>8 DEF GatewayThread, Loads, Builds, Binds, Exits, Breaks, Becomes, Where
    <3>2. loaded' = loaded \/ loaded' = [loaded EXCEPT ![g] = config]
      BY <1>8 DEF GatewayThread, Loads, Builds, Binds, Exits, Breaks
    <3>3. server' \in {server, g} /\ failed' \in {failed, TRUE} /\ exiting' = exiting
      BY <1>8 DEF GatewayThread, Loads, Builds, Binds, Exits, Breaks
    <3>4. UNCHANGED <<clicks, config, current, appVars, awaiting, ui, restartVars>>
      BY <1>8 DEF GatewayThread
    <3>5. /\ thread' \in [Generations -> Where]
          /\ loaded' \in [Generations -> 0..MaxClicks]
      BY <1>b, <3>1, <3>2 DEF GenerationInv, WindowTypeOK, Where
    <3>6. QED
      BY <3>3, <3>4, <3>5 DEF GenerationInv, WindowTypeOK, Where
  <2>4. /\ server' <= lifecycle'
        /\ \A h \in Generations : h > lifecycle' => thread'[h] = "none"
    BY <1>8, <2>2, GenerationNumbers
    DEF GatewayThread, Loads, Builds, Binds, Exits, Breaks, Becomes, GenerationInv,
        GenerationsInOrder, WindowTypeOK
  <2>5. QED
    BY <1>8, <2>1, <2>3, <2>4
    DEF GatewayThread, Loads, Builds, Binds, Exits, Breaks, GenerationInv,
        GenerationsInOrder
<1>9. ASSUME NEW g \in Generations, Probed(g) \/ OnReady(g) PROVE GenerationInv'
  <2>1. Pending' = Pending
    BY <1>9, <1>b, PendingStays DEF Probed, OnReady
  <2>2. awaiting[g] # "none" /\ g <= lifecycle
    <3>1. awaiting[g] # "none"
      BY <1>9 DEF Probed, OnReady
    <3>2. ~(g > lifecycle)
      BY <3>1 DEF GenerationInv, GenerationsInOrder
    <3>3. QED
      BY <3>1, <3>2, GenerationNumbers
  <2>3. WindowTypeOK'
    <3>1. \E a \in Answers : awaiting' = [awaiting EXCEPT ![g] = a]
      BY <1>9 DEF Probed, OnReady, Answers
    <3>2. status' \in {"stopped", "running", "failed"} /\ restarting' \in BOOLEAN
      BY <1>9, <1>b DEF Probed, OnReady, StillPending, GenerationInv, WindowTypeOK
    <3>3. UNCHANGED <<clicks, config, serverVars, current, lifecycle, stopping, ui,
                      restartVars>>
      BY <1>9 DEF Probed, OnReady
    <3>4. QED
      BY <3>1, <3>2, <3>3 DEF Answers, GenerationInv, WindowTypeOK
  <2>4. lifecycle' = lifecycle /\ lifecycle # 0 /\ (restarting' => restarting)
    BY <1>9, <2>2, GenerationNumbers DEF Probed, OnReady, StillPending
  <2>5. \A h \in Generations : h > lifecycle' => awaiting'[h] = "none"
    BY <1>9, <2>2, <2>4, GenerationNumbers
    DEF Probed, OnReady, GenerationInv, GenerationsInOrder, WindowTypeOK
  <2>6. QED
    BY <1>9, <2>1, <2>3, <2>4, <2>5
    DEF Probed, OnReady, GenerationInv, GenerationsInOrder
<1>10. CASE UNCHANGED vars
  <2>1. Pending' = Pending
    BY <1>10, <1>b, PendingStays DEF vars
  <2>2. QED
    BY <1>10, <2>1 DEF vars, GenerationInv, GenerationsInOrder, WindowTypeOK
<1>11. QED
  BY <1>1, <1>2, <1>3, <1>4, <1>5, <1>6, <1>7, <1>8, <1>9, <1>10 DEF Next, Callback

\* Every part of the window has its type, and no generation is given out twice
\* or in advance, whatever the user clicks.
THEOREM WindowTypeCorrect == Spec => []WindowTypeOK
<1>1. GenerationInv => WindowTypeOK
  BY DEF GenerationInv
<1>2. QED
  BY <1>1, GenerationInit, GenerationStep, PTL DEF Spec
-----------------------------------------------------------------------------
(* No thread is lost but as a stray.                                       *)

\* A gateway thread that lives is the controller's, or a stray.
NoneLost == \A g \in Generations : IsAlive(g) => g = current \/ g \in strays

\* While no restart was stopped, one that is pending has the window to itself
\* until its start, and so no thread is lost to a late write.
RestartAlone ==
    abandoned = {} =>
      /\ strays = {}
      /\ \A r \in Generations : waiter[r] # "idle" =>
            restarting /\ stopping /\ ui = "free" /\ r = lifecycle
      /\ \A r \in Generations : waiter[r] = "joining" => target[r] = current
      /\ ui # "free" => stopping
      /\ ui = "restarting" => restarting

\* What is known of the last generation: while it is awaited the controller has
\* no other thread; it or a stray was up if there was an answer; it runs a
\* configuration as new as the last restart was for.
LastGeneration ==
    \A g \in Generations : g = lifecycle =>
      /\ awaiting[g] # "none" => current \in {g, None}
      /\ awaiting[g] = "ok" => \E h \in {g} \cup strays : thread[h] \in {"up", "down"}
      /\ thread[g] \in {"loaded", "built", "up"} => loaded[g] >= promised

ThreadInv == NoneLost /\ RestartAlone /\ LastGeneration

\* A start adds a thread only where the controller has none.
LEMMA StartKeepsThreads ==
  ASSUME GenerationInv, ThreadInv, NEW halted \in BOOLEAN, StartEverything(halted),
         ui' = "free", UNCHANGED <<restart, promised, abandoned, strays>>
  PROVE  NoneLost' /\ LastGeneration'
<1>1. CASE UNCHANGED <<serverVars, current, lifecycle, awaiting>>
  BY <1>1 DEF ThreadInv, NoneLost, LastGeneration, IsAlive, serverVars
<1>2. CASE /\ ~Running /\ lifecycle' = lifecycle + 1
           /\ Becomes(lifecycle', "starting") /\ current' = lifecycle'
           /\ awaiting' = [awaiting EXCEPT ![lifecycle'] = "probing"]
  <2>1. \A g \in Generations : IsAlive(g) => g \in strays
    BY <1>2 DEF ThreadInv, NoneLost, Running
  <2>2. /\ thread' = [thread EXCEPT ![lifecycle'] = "starting"]
        /\ thread \in [Generations -> Where] /\ awaiting \in [Generations -> Answers]
    BY <1>2 DEF Becomes, GenerationInv, WindowTypeOK, Where, Answers
  <2>3. \A g \in Generations : g # lifecycle' => thread'[g] = thread[g]
    BY <2>2
  <2>4. NoneLost'
    BY <1>2, <2>1, <2>3 DEF NoneLost, IsAlive
  <2>5. ASSUME NEW g \in Generations, g = lifecycle'
        PROVE  thread'[g] = "starting" /\ awaiting'[g] = "probing"
    BY <1>2, <2>2, <2>5
  <2>6. LastGeneration'
    BY <1>2, <2>5 DEF LastGeneration
  <2>7. QED
    BY <2>4, <2>6
<1>3. QED
  BY <1>1, <1>2 DEF StartEverything

\* A stop takes a generation that has no thread and that nobody awaits.
LEMMA StopKeepsThreads ==
  ASSUME GenerationInv, ThreadInv, BeginStop,
         UNCHANGED <<thread, loaded, current, awaiting, strays>>
  PROVE  NoneLost' /\ LastGeneration'
<1>1. NoneLost'
  BY DEF ThreadInv, NoneLost, IsAlive
<1>2. lifecycle' > lifecycle
  BY GenerationNumbers DEF BeginStop
<1>3. \A g \in Generations : g = lifecycle' => thread'[g] = "none" /\ awaiting'[g] = "none"
  BY <1>2 DEF GenerationInv, GenerationsInOrder
<1>4. LastGeneration'
  BY <1>3 DEF LastGeneration
<1>5. QED
  BY <1>1, <1>4

\* What the callback of a restart leaves of the restarts under way.
LEMMA CallbackKeepsAlone ==
  ASSUME GenerationInv, RestartAlone, NEW r \in Generations, waiter[r] # "idle",
         WaiterDone(r), ui' = "free"
  PROVE  RestartAlone'
<1>1. /\ waiter \in [Generations -> Waits] /\ waiter' = [waiter EXCEPT ![r] = "idle"]
      /\ UNCHANGED <<abandoned, strays>>
  BY DEF GenerationInv, WindowTypeOK, Waits, WaiterDone
<1>2. ASSUME abandoned = {}
      PROVE  strays = {} /\ \A x \in Generations : waiter'[x] = "idle"
  BY <1>1, <1>2 DEF RestartAlone
<1>3. QED
  BY <1>1, <1>2 DEF RestartAlone

LEMMA ThreadStep ==
  ASSUME GenerationInv, GenerationInv', ThreadInv, [Next]_vars
  PROVE  ThreadInv'
<1> USE DEF serverVars, appVars, restartVars
<1>a. /\ thread \in [Generations -> Where] /\ awaiting \in [Generations -> Answers]
      /\ waiter \in [Generations -> Waits]
      /\ target \in [Generations -> Generations \cup {None}]
      /\ loaded \in [Generations -> 0..MaxClicks]
      /\ {stopping, restarting} \subseteq BOOLEAN
      /\ ui \in {"free", "stopping", "restarting"}
  BY DEF GenerationInv, WindowTypeOK, Where, Answers, Waits
<1>c. ASSUME Click PROVE ui = "free"
  BY <1>c DEF Click
<1>1. CASE ClickStart
  <2>1. /\ Click /\ StartEverything(stopping)
        /\ UNCHANGED <<config, status, stopping, restarting, ui, restartVars>>
    BY <1>1 DEF ClickStart
  <2>2. NoneLost' /\ LastGeneration'
    BY <1>a, <1>c, <2>1, StartKeepsThreads
  <2>3. RestartAlone'
    <3>1. CASE stopping
      <4>1. UNCHANGED <<current, lifecycle>>
        BY <2>1, <3>1 DEF StartEverything
      <4>2. QED
        BY <2>1, <4>1 DEF ThreadInv, RestartAlone
    <3>2. CASE ~stopping
      BY <1>c, <2>1, <3>2 DEF ThreadInv, RestartAlone
    <3>3. QED
      BY <1>a, <3>1, <3>2
  <2>4. QED
    BY <2>2, <2>3 DEF ThreadInv
<1>2. CASE ClickStop
  <2>1. /\ Click /\ BeginStop /\ ui' = "stopping"
        /\ abandoned' = IF restarting THEN abandoned \cup {restart} ELSE abandoned
        /\ UNCHANGED <<thread, loaded, current, restarting, awaiting, waiter, target,
                       strays>>
    BY <1>2 DEF ClickStop
  <2>2. abandoned' = {} => abandoned = {} /\ ~restarting
    BY <2>1
  <2>3. RestartAlone'
    BY <2>1, <2>2 DEF ThreadInv, RestartAlone, BeginStop
  <2>4. QED
    BY <2>1, <2>3, StopKeepsThreads DEF ThreadInv
<1>3. CASE ClickSave
  <2>1. Click /\ UNCHANGED <<thread, loaded, current, awaiting, waiter, target, abandoned,
                             strays>>
    BY <1>3 DEF ClickSave
  <2>2. CASE restarting
    <3>1. UNCHANGED <<lifecycle, stopping, restarting, ui, promised>>
      BY <1>3, <2>2 DEF ClickSave
    <3>2. QED
      BY <2>1, <3>1 DEF ThreadInv, NoneLost, RestartAlone, LastGeneration, IsAlive
  <2>3. CASE ~restarting
    <3>1. BeginStop /\ restarting' = TRUE /\ ui' = "restarting"
      BY <1>3, <2>3 DEF ClickSave
    <3>2. RestartAlone'
      BY <2>1, <2>3, <3>1 DEF ThreadInv, RestartAlone, BeginStop
    <3>3. QED
      BY <2>1, <3>1, <3>2, StopKeepsThreads DEF ThreadInv
  <2>4. QED
    BY <1>a, <2>2, <2>3
<1>4. CASE JoinReturns
  <2>1. /\ ui # "free" /\ ui' = "free" /\ DropEndedThread
        /\ stopping' = (ui = "restarting")
        /\ waiter' = IF ui = "restarting" THEN [waiter EXCEPT ![lifecycle] = "spawned"]
                     ELSE waiter
        /\ UNCHANGED <<thread, loaded, lifecycle, restarting, awaiting, target, promised,
                       abandoned, strays>>
    BY <1>4 DEF JoinReturns, KeepsStopping
  <2>2. NoneLost'
    BY <2>1 DEF DropEndedThread, ThreadInv, NoneLost, Running, IsAlive
  <2>3. RestartAlone'
    <3>1. SUFFICES ASSUME abandoned = {} PROVE RestartAlone'
      BY <2>1 DEF RestartAlone
    <3>2. /\ strays = {} /\ \A r \in Generations : waiter[r] = "idle"
          /\ ui = "restarting" => restarting
      BY <2>1, <3>1 DEF ThreadInv, RestartAlone
    <3>3. CASE ui = "restarting"
      <4>1. \A r \in Generations : waiter'[r] = IF r = lifecycle THEN "spawned" ELSE "idle"
        BY <1>a, <2>1, <3>2, <3>3
      <4>2. stopping' /\ restarting' /\ strays' = {} /\ ui' = "free" /\ lifecycle' = lifecycle
        BY <2>1, <3>2, <3>3
      <4>3. \A r \in Generations : waiter'[r] # "idle" => r = lifecycle
        BY <4>1
      <4>4. \A r \in Generations : waiter'[r] # "joining"
        BY <4>1
      <4>5. QED
        BY <4>2, <4>3, <4>4 DEF RestartAlone
    <3>4. CASE ui # "restarting"
      BY <2>1, <3>2, <3>4 DEF RestartAlone
    <3>5. QED
      BY <3>3, <3>4
  <2>4. LastGeneration'
    BY <2>1 DEF DropEndedThread, ThreadInv, LastGeneration
  <2>5. QED
    BY <2>2, <2>3, <2>4 DEF ThreadInv
<1>5. ASSUME NEW r \in Generations, Worker(r) PROVE ThreadInv'
  <2>1. UNCHANGED othersOfWaiter /\ waiter[r] # "idle"
    BY <1>5 DEF Worker, WaiterReads, WaiterJoins, WaiterGivesUp
  <2>2. CASE WaiterReads(r)
    <3>1. /\ waiter' = [waiter EXCEPT ![r] = "joining"]
          /\ target' = [target EXCEPT ![r] = current]
          /\ UNCHANGED <<current, strays>>
      BY <2>2 DEF WaiterReads
    <3>2. \A x \in Generations :
             /\ waiter'[x] = IF x = r THEN "joining" ELSE waiter[x]
             /\ target'[x] = IF x = r THEN current ELSE target[x]
      BY <1>a, <3>1
    <3>3. RestartAlone'
      BY <2>1, <3>1, <3>2 DEF othersOfWaiter, ThreadInv, RestartAlone
    <3>4. QED
      BY <2>1, <3>1, <3>3
      DEF othersOfWaiter, ThreadInv, NoneLost, LastGeneration, IsAlive
  <2>3. CASE WaiterJoins(r)
    <3>1. /\ waiter[r] = "joining" /\ ~IsAlive(target[r])
          /\ waiter' = [waiter EXCEPT ![r] = "stopped"]
          /\ current' = None /\ target' = target
          /\ strays' = IF Running THEN strays \cup {current} ELSE strays
      BY <2>3 DEF WaiterJoins
    <3>2. \A x \in Generations : waiter'[x] = IF x = r THEN "stopped" ELSE waiter[x]
      BY <1>a, <3>1
    <3>3. NoneLost'
      BY <2>1, <3>1 DEF othersOfWaiter, ThreadInv, NoneLost, Running, IsAlive
    <3>4. RestartAlone'
      <4>1. SUFFICES ASSUME abandoned = {} PROVE RestartAlone'
        BY <2>1 DEF RestartAlone, othersOfWaiter
      <4>2. target[r] = current /\ strays' = {}
        BY <3>1, <4>1 DEF ThreadInv, RestartAlone, Running
      <4>3. \A x \in Generations : waiter[x] # "idle" => x = r
        BY <3>1, <4>1 DEF ThreadInv, RestartAlone
      <4>4. QED
        BY <2>1, <3>2, <4>1, <4>2, <4>3 DEF ThreadInv, RestartAlone, othersOfWaiter
    <3>5. LastGeneration'
      <4>1. strays \subseteq strays'
        BY <3>1
      <4>2. QED
        BY <2>1, <3>1, <4>1 DEF othersOfWaiter, ThreadInv, LastGeneration
    <3>6. QED
      BY <3>3, <3>4, <3>5 DEF ThreadInv
  <2>4. CASE WaiterGivesUp(r)
    <3>1. /\ waiter' = [waiter EXCEPT ![r] = "stuck"]
          /\ UNCHANGED <<current, target, strays>>
      BY <2>4 DEF WaiterGivesUp
    <3>2. \A x \in Generations : waiter'[x] = IF x = r THEN "stuck" ELSE waiter[x]
      BY <1>a, <3>1
    <3>3. RestartAlone'
      BY <2>1, <3>1, <3>2 DEF othersOfWaiter, ThreadInv, RestartAlone
    <3>4. QED
      BY <2>1, <3>1, <3>3
      DEF othersOfWaiter, ThreadInv, NoneLost, LastGeneration, IsAlive
  <2>5. QED
    BY <1>5, <2>2, <2>3, <2>4 DEF Worker
<1>6. ASSUME NEW r \in Generations, StartAfterRestart(r) PROVE ThreadInv'
  <2>1. /\ ui = "free" /\ ui' = "free" /\ waiter[r] # "idle" /\ WaiterDone(r)
        /\ UNCHANGED <<restart, promised, abandoned, strays>>
        /\ StartEverything(FALSE) \/ StartEverything(TRUE)
    BY <1>6 DEF StartAfterRestart, StartEverything, WaiterDone
  <2>2. NoneLost' /\ LastGeneration'
    BY <2>1, StartKeepsThreads
  <2>3. RestartAlone'
    BY <2>1, CallbackKeepsAlone DEF ThreadInv
  <2>4. QED
    BY <2>2, <2>3 DEF ThreadInv
<1>7. ASSUME NEW r \in Generations, RestartFailed(r) PROVE ThreadInv'
  <2>1. /\ ui = "free" /\ ui' = "free" /\ waiter[r] # "idle" /\ WaiterDone(r)
        /\ UNCHANGED <<thread, loaded, current, lifecycle, awaiting, promised, strays>>
    BY <1>7 DEF RestartFailed, WaiterDone
  <2>2. RestartAlone'
    BY <2>1, CallbackKeepsAlone DEF ThreadInv
  <2>3. QED
    BY <2>1, <2>2 DEF ThreadInv, NoneLost, LastGeneration, IsAlive
<1>8. ASSUME NEW g \in Generations, GatewayThread(g) PROVE ThreadInv'
  <2>1. UNCHANGED <<clicks, config, current, appVars, awaiting, ui, restartVars>>
    BY <1>8 DEF GatewayThread
  <2>2. \A h \in Generations \ {g} : thread'[h] = thread[h] /\ loaded'[h] = loaded[h]
    BY <1>8, <1>a DEF GatewayThread, Loads, Builds, Binds, Exits, Breaks, Becomes
  <2>3. /\ thread'[g] \in {"starting", "loaded", "built", "up"} => IsAlive(g)
        /\ thread[g] \in {"up", "down"} => thread'[g] \in {"up", "down"}
        /\ thread'[g] \in {"loaded", "built", "up"}
             => \/ loaded'[g] = config
                \/ thread[g] \in {"loaded", "built", "up"} /\ loaded'[g] = loaded[g]
    <3>1. g # None
      BY GenerationNumbers DEF None
    <3>2. CASE Loads(g)
      BY <1>a, <3>1, <3>2 DEF Loads, Becomes, IsAlive
    <3>3. CASE Builds(g) \/ Binds(g)
      BY <1>a, <3>1, <3>3 DEF Builds, Binds, Becomes, IsAlive
    <3>4. CASE Exits(g) \/ Breaks(g)
      BY <1>a, <3>4 DEF Exits, Breaks, Becomes
    <3>5. QED
      BY <1>8, <3>2, <3>3, <3>4 DEF GatewayThread
  <2>4. NoneLost'
    BY <2>1, <2>2, <2>3 DEF ThreadInv, NoneLost, IsAlive
  <2>5. RestartAlone'
    BY <2>1 DEF ThreadInv, RestartAlone
  <2>6. ASSUME NEW h \in Generations, h = lifecycle, awaiting[h] = "ok"
        PROVE  \E x \in {h} \cup strays : thread'[x] \in {"up", "down"}
    <3>1. PICK x \in {h} \cup strays : thread[x] \in {"up", "down"}
      BY <2>6 DEF ThreadInv, LastGeneration
    <3>2. x \in Generations
      BY <3>1 DEF GenerationInv, WindowTypeOK
    <3>3. thread'[x] \in {"up", "down"}
      BY <2>2, <2>3, <3>1, <3>2
    <3>4. QED
      BY <3>1, <3>3
  <2>7. ASSUME NEW h \in Generations, h = lifecycle, thread'[h] \in {"loaded", "built", "up"}
        PROVE  loaded'[h] >= promised
    <3>1. config >= promised
      BY GenerationNumbers DEF GenerationInv, GenerationsInOrder
    <3>2. CASE h = g /\ loaded'[g] = config
      BY <3>1, <3>2
    <3>3. CASE thread[h] \in {"loaded", "built", "up"} /\ loaded'[h] = loaded[h]
      BY <2>7, <3>3 DEF ThreadInv, LastGeneration
    <3>4. QED
      BY <2>2, <2>3, <2>7, <3>2, <3>3
  <2>8. LastGeneration'
    BY <2>1, <2>6, <2>7 DEF ThreadInv, LastGeneration
  <2>9. QED
    BY <2>4, <2>5, <2>8 DEF ThreadInv
<1>9. ASSUME NEW g \in Generations, Probed(g) PROVE ThreadInv'
  <2>1. /\ UNCHANGED <<thread, loaded, current, appVars, ui, restartVars>>
        /\ awaiting[g] = "probing"
        /\ awaiting'[g] = "ok" => \E h \in Generations : thread[h] = "up"
        /\ \A h \in Generations \ {g} : awaiting'[h] = awaiting[h]
    BY <1>9, <1>a DEF Probed
  <2>2. ASSUME g = lifecycle, awaiting'[g] = "ok"
        PROVE  \E h \in {g} \cup strays : thread[h] \in {"up", "down"}
    <3>1. current \in {g, None}
      BY <2>1, <2>2 DEF ThreadInv, LastGeneration
    <3>2. PICK h \in Generations : thread[h] = "up"
      BY <2>1, <2>2
    <3>3. IsAlive(h) /\ h # None
      BY <3>2, GenerationNumbers DEF IsAlive, None
    <3>4. h = g \/ h \in strays
      BY <3>1, <3>3 DEF ThreadInv, NoneLost
    <3>5. QED
      BY <3>2, <3>4
  <2>3. LastGeneration'
    BY <2>1, <2>2 DEF ThreadInv, LastGeneration
  <2>4. NoneLost' /\ RestartAlone'
    BY <2>1 DEF ThreadInv, NoneLost, IsAlive, RestartAlone
  <2>5. QED
    BY <2>3, <2>4 DEF ThreadInv
<1>10. ASSUME NEW g \in Generations, OnReady(g) PROVE ThreadInv'
  <2>1. /\ UNCHANGED <<thread, loaded, current, lifecycle, stopping, ui, restartVars>>
        /\ ui = "free"
        /\ restarting' = restarting \/ ~stopping
        /\ awaiting[g] # "none" /\ awaiting'[g] = "done"
        /\ \A h \in Generations \ {g} : awaiting'[h] = awaiting[h]
    BY <1>10, <1>a DEF OnReady
  <2>2. LastGeneration'
    BY <2>1 DEF ThreadInv, LastGeneration
  <2>3. RestartAlone'
    BY <2>1 DEF ThreadInv, RestartAlone
  <2>4. NoneLost'
    BY <2>1 DEF ThreadInv, NoneLost, IsAlive
  <2>5. QED
    BY <2>2, <2>3, <2>4 DEF ThreadInv
<1>11. CASE UNCHANGED vars
  BY <1>11 DEF vars, ThreadInv, NoneLost, RestartAlone, LastGeneration, IsAlive
<1>12. QED
  BY <1>1, <1>2, <1>3, <1>4, <1>5, <1>6, <1>7, <1>8, <1>9, <1>10, <1>11
  DEF Next, Callback

LEMMA ThreadInvariant ==
  Spec => []GenerationInv /\ []ThreadInv
<1>1. Init => ThreadInv
  BY DEF Init, ThreadInv, NoneLost, IsAlive, RestartAlone, LastGeneration
<1>2. GenerationInv /\ GenerationInv' /\ ThreadInv /\ [Next]_vars => ThreadInv'
  BY ThreadStep
<1>3. QED
  BY <1>1, <1>2, GenerationInit, GenerationStep, PTL DEF Spec

\* gui.py:641-644: whatever of clicks, threads, joins and callbacks comes first, a
\* gateway thread that lives is the one the controller knows, or was lost to the
\* late write of a wait_and_start (gui.py:655), and that takes a Stop clicked
\* while a restart was pending.
THEOREM ThreadsReferenced == Spec => []WindowInv
<1>1. GenerationInv /\ ThreadInv => WindowInv
  BY DEF GenerationInv, ThreadInv, NoneLost, RestartAlone, WindowInv, LiveIsReferenced
<1>2. QED
  BY <1>1, ThreadInvariant, PTL

\* gui.py:1727: however often the user clicks, and whenever, the gateway of the
\* last start runs no older a version than the last save that began a restart
\* wrote.
THEOREM SavedIsRunning == Spec => []SavesReachGateway
<1>1. GenerationInv /\ ThreadInv => SavesReachGateway
  <2> SUFFICES ASSUME GenerationInv, ThreadInv, lifecycle # 0, thread[lifecycle] = "up"
               PROVE  loaded[lifecycle] >= promised
    BY DEF SavesReachGateway
  <2>1. lifecycle \in Generations
    BY DEF GenerationInv, WindowTypeOK
  <2>2. QED
    BY <2>1 DEF ThreadInv, LastGeneration
<1>2. QED
  BY <1>1, ThreadInvariant, PTL

\* The label turns to "running" only for the last start, which has not been told
\* to exit, and only after its gateway, or a stray one, did come up.
THEOREM RunningIsCurrent == Spec => RunningIsOfThisStart
<1> DEFINE Shown == status' = "running" =>
             /\ lifecycle # 0 /\ lifecycle \notin exiting
             /\ \E h \in {lifecycle} \cup strays : thread[h] \in {"up", "down"}
<1>1. ASSUME GenerationInv, ThreadInv, [Next]_vars, status' # status PROVE Shown
  <2>1. ASSUME NEW g \in Generations, OnReady(g), status' = "running" PROVE Shown
    <3>1. g = lifecycle /\ awaiting[g] = "ok"
      BY <1>1, <2>1 DEF OnReady, IsCurrent
    <3>2. \E h \in {g} \cup strays : thread[h] \in {"up", "down"}
      BY <1>1, <3>1 DEF ThreadInv, LastGeneration
    <3>3. lifecycle # 0 /\ lifecycle \notin exiting
      BY <1>1, <3>1, GenerationNumbers DEF GenerationInv, GenerationsInOrder
    <3>4. QED
      BY <3>1, <3>2, <3>3
  <2>2. status' = "running" => \E g \in Generations : OnReady(g)
    BY <1>1
    DEF Next, vars, appVars, ClickStart, ClickStop, ClickSave, JoinReturns, Worker,
        WaiterReads, WaiterJoins, WaiterGivesUp, othersOfWaiter, Callback,
        StartAfterRestart, RestartFailed, GatewayThread, Probed
  <2>3. QED
    BY <2>1, <2>2
<1>2. GenerationInv /\ ThreadInv /\ [Next]_vars => [Shown]_status
  BY <1>1
<1>3. QED
  BY <1>2, ThreadInvariant, PTL DEF Spec, RunningIsOfThisStart
=============================================================================
