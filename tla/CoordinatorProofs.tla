--------------------------- MODULE CoordinatorProofs ---------------------------
(***************************************************************************)
(* Proofs about accounts/account_coordinator.ts: the lanes exclude each    *)
(* other's jobs, the queues and the map never disagree with who waits, a   *)
(* drained coordinator is quiet, and the lanes are the abstract pools of   *)
(* PermitPool, for all jobs, plans, accounts and lane objects.             *)
(*                                                                         *)
(* An action's lemma shows both that it keeps IInv and that it is a step   *)
(* of the pools: the two rest on the same facts about the lane it touches. *)
(***************************************************************************)
EXTENDS AccountCoordinator, QueueLemmas

Queued == {"queued_life", "queued_gen"}
AtGeneration == {"queued_gen", "gen"}
Waiting(l) == {j \in Jobs : at[j] \in Queued /\ LaneOf(j) = l}

\* The job is inside the lane, admitted.
Runs(j, l) == IF l = Lifecycle THEN InLifecycle(j) ELSE at[j] = "gen" /\ holds[j] = l

\* A lane's queue holds those who wait for it, once each.
QueuesMatch ==
  \A l \in AllLanes : IsInjective(lanes[l].queue) /\ ToSet(lanes[l].queue) = Waiting(l)

\* Where a job is follows its plan, and the lane it is in is the one the map has
\* for its account.
Placed ==
  \A j \in Jobs :
    /\ at[j] \in {"queued_life", "life"} => Plan[j].lifecycle
    /\ at[j] = "idle" /\ ~Plan[j].lifecycle => step[j] = 1
    /\ at[j] \in AtGeneration => MoreAccounts(j) /\ generations[Account(j)] = holds[j]

\* An active lane has one job inside it, an inactive one has none and no queue.
OneRunner ==
  \A l \in AllLanes :
    /\ \A j, k \in Jobs : Runs(j, l) /\ Runs(k, l) => j = k
    /\ lanes[l].active <=> \E j \in Jobs : Runs(j, l)
    /\ ~lanes[l].active => lanes[l].queue = <<>>

\* The map has a lane for an account only while a job is there, and gives no
\* lane to two accounts.
Mapped ==
  /\ \A a, b \in Accounts : generations[a] = generations[b] /\ generations[a] # NoLane => a = b
  /\ \A a \in Accounts : generations[a] # NoLane =>
       \E j \in Jobs : at[j] \in AtGeneration /\ Account(j) = a

\* Only a stopped coordinator drains, and it resolves the drain when it is idle.
Drained ==
  /\ drain # "none" => stopped
  /\ drain = "resolved" => IsIdle(lanes, generations)

IInv == TypeOK /\ QueuesMatch /\ Placed /\ OneRunner /\ Mapped /\ Drained

\* A step of the abstract pools, or none.
PoolsMove ==
  /\ [LifecyclePool!Next]_(LifecyclePool!vars)
  /\ [GenerationPool!Next]_(GenerationPool!vars)

------------------------------------------------------------------------------
(* What the operators on lanes do. *)

Lane == [active : BOOLEAN, queue : Seq(Jobs)]

\* A job that wants a generation lane has an account.
LEMMA AccountOfPlan ==
  ASSUME TypeOK, NEW j \in Jobs, MoreAccounts(j)
  PROVE  Account(j) \in Accounts
BY PlanAssumption DEF TypeOK, MoreAccounts, Account

\* run() changes the one lane, which is active then.
LEMMA JoinLane ==
  ASSUME TypeOK, NEW l \in AllLanes, NEW j \in Jobs, Join(l, j)
  PROVE  /\ lanes' \in [AllLanes -> Lane]
         /\ \A m \in AllLanes : m # l => lanes'[m] = lanes[m]
         /\ lanes'[l].active
         /\ lanes[l].active => lanes'[l].queue = Append(lanes[l].queue, j)
         /\ ~lanes[l].active => lanes'[l].queue = lanes[l].queue
<1>1. lanes \in [AllLanes -> Lane] /\ lanes[l].queue \in Seq(Jobs)
  BY DEF TypeOK, Lane
<1>2. Append(lanes[l].queue, j) \in Seq(Jobs)
  BY <1>1
<1> QED BY <1>1, <1>2 DEF Join, Lane

\* The finally of admit() changes the one lane: it stays active exactly when
\* somebody waits, and then the head leaves the queue.
LEMMA HandOnLane ==
  ASSUME TypeOK, NEW l \in AllLanes, HandOn(l), lanes[l].active
  PROVE  /\ lanes' \in [AllLanes -> Lane]
         /\ \A m \in AllLanes : m # l => lanes'[m] = lanes[m]
         /\ lanes[l].queue = <<>> => ~lanes'[l].active /\ lanes'[l].queue = <<>>
         /\ lanes[l].queue # <<>> => lanes'[l].active /\ lanes'[l].queue = Tail(lanes[l].queue)
<1>1. lanes \in [AllLanes -> Lane] /\ lanes[l].queue \in Seq(Jobs)
  BY DEF TypeOK, Lane
<1>2. lanes[l].queue # <<>> => Tail(lanes[l].queue) \in Seq(Jobs)
  BY <1>1
<1> QED BY <1>1, <1>2 DEF HandOn, Lane

\* Nobody is anywhere in an idle coordinator.
LEMMA IdleIsQuiet ==
  ASSUME IInv, IsIdle(lanes, generations), NEW j \in Jobs
  PROVE  at[j] \in {"idle"} \cup Ended
<1>1. Lifecycle \in AllLanes /\ lanes[Lifecycle].queue = <<>> /\ ~lanes[Lifecycle].active
  BY DEF AllLanes, IsIdle, Empty
<1>2. j \notin Waiting(Lifecycle)
  BY <1>1, EmptyQueue DEF IInv, QueuesMatch
<1>3. ~InLifecycle(j)
  BY <1>1 DEF IInv, OneRunner, Runs
<1>4. at[j] \notin AtGeneration
  <2> SUFFICES ASSUME at[j] \in AtGeneration PROVE FALSE
    OBVIOUS
  <2>1. MoreAccounts(j) /\ generations[Account(j)] = holds[j]
    BY DEF IInv, Placed
  <2>2. Account(j) \in Accounts
    BY <2>1, AccountOfPlan DEF IInv
  <2>3. holds[j] # NoLane
    BY DEF IInv, TypeOK, AtGeneration
  <2> QED BY <2>1, <2>2, <2>3 DEF IsIdle
<1>5. at[j] # "queued_life"
  BY <1>2 DEF Waiting, Queued, LaneOf
<1>6. at[j] # "life"
  BY <1>3 DEF IInv, Placed, InLifecycle, Inside
<1> QED BY <1>4, <1>5, <1>6 DEF IInv, TypeOK, AtGeneration, Inside, Ended

------------------------------------------------------------------------------
(* The lanes as pools with one permit. *)

\* The pools speak of sequences and sets in the same words.
LEMMA SameOperators ==
  /\ \A S : /\ LifecyclePool!Cardinality(S) = Cardinality(S)
            /\ GenerationPool!Cardinality(S) = Cardinality(S)
  /\ \A q : LifecyclePool!ToSet(q) = ToSet(q) /\ GenerationPool!ToSet(q) = ToSet(q)
  /\ \A q, x : /\ LifecyclePool!RemoveFirst(q, x) = RemoveFirst(q, x)
               /\ GenerationPool!RemoveFirst(q, x) = RemoveFirst(q, x)
<1>1. \A S : /\ LifecyclePool!Cardinality(S) = Cardinality(S)
             /\ GenerationPool!Cardinality(S) = Cardinality(S)
  BY DEF LifecyclePool!Cardinality, GenerationPool!Cardinality, Cardinality
<1>2. \A q : LifecyclePool!ToSet(q) = ToSet(q) /\ GenerationPool!ToSet(q) = ToSet(q)
  BY DEF LifecyclePool!ToSet, GenerationPool!ToSet, ToSet
<1>3. \A q, x : LifecyclePool!RemoveFirst(q, x) = RemoveFirst(q, x)
  BY DEF LifecyclePool!RemoveFirst, RemoveFirst, LifecyclePool!RemoveAt, RemoveAt,
         LifecyclePool!SelectInSeq, SelectInSeq, LifecyclePool!Min, Min
<1>4. \A q, x : GenerationPool!RemoveFirst(q, x) = RemoveFirst(q, x)
  BY DEF GenerationPool!RemoveFirst, RemoveFirst, GenerationPool!RemoveAt, RemoveAt,
         GenerationPool!SelectInSeq, SelectInSeq, GenerationPool!Min, Min
<1> QED BY <1>1, <1>2, <1>3, <1>4

\* The lifecycle lane's permit is taken exactly while it is active.
LEMMA LifecycleLane ==
  ASSUME IInv
  PROVE  /\ lanes[Lifecycle].active => Cardinality(LifecycleInside) = 1
         /\ ~lanes[Lifecycle].active => /\ Cardinality(LifecycleInside) = 0
                                        /\ lanes[Lifecycle].queue = <<>>
<1>1. /\ \A j, k \in Jobs : InLifecycle(j) /\ InLifecycle(k) => j = k
      /\ lanes[Lifecycle].active <=> \E j \in Jobs : InLifecycle(j)
      /\ ~lanes[Lifecycle].active => lanes[Lifecycle].queue = <<>>
  BY DEF IInv, OneRunner, Runs, AllLanes
<1>2. CASE lanes[Lifecycle].active
  <2>1. PICK j \in Jobs : InLifecycle(j)
    BY <1>1, <1>2
  <2>2. LifecycleInside = {j}
    BY <1>1, <2>1 DEF LifecycleInside
  <2> QED BY <1>2, <2>2, FS_Singleton
<1>3. CASE ~lanes[Lifecycle].active
  <2>1. LifecycleInside = {}
    BY <1>1, <1>3 DEF LifecycleInside
  <2> QED BY <1>1, <1>3, <2>1, FS_EmptySet
<1> QED BY <1>2, <1>3

\* The account's permit is taken exactly while the map has a lane for it.
LEMMA GenerationLane ==
  ASSUME IInv, NEW l, l = generations[Pooled]
  PROVE  /\ l # NoLane => /\ l \in LaneIds /\ l \in AllLanes /\ l # Lifecycle
                          /\ lanes[l].active
                          /\ GenerationQueue = lanes[l].queue
                          /\ Cardinality(GenerationInside) = 1
         /\ l = NoLane => /\ GenerationQueue = <<>>
                          /\ Cardinality(GenerationInside) = 0
<1>1. CASE l # NoLane
  <2>1. l \in LaneIds /\ l \in AllLanes /\ l # Lifecycle
    BY <1>1, PooledAssumption, LanesAssumption DEF IInv, TypeOK, AllLanes
  <2>2. PICK j \in Jobs : at[j] \in AtGeneration /\ Account(j) = Pooled
    BY <1>1, PooledAssumption DEF IInv, Mapped
  <2>3. holds[j] = l
    BY <2>2 DEF IInv, Placed
  <2>4. /\ ToSet(lanes[l].queue) = Waiting(l)
        /\ \A i, k \in Jobs : Runs(i, l) /\ Runs(k, l) => i = k
        /\ lanes[l].active <=> \E k \in Jobs : Runs(k, l)
        /\ ~lanes[l].active => lanes[l].queue = <<>>
    BY <2>1 DEF IInv, QueuesMatch, OneRunner
  <2>5. lanes[l].active
    <3>1. CASE at[j] = "gen"
      BY <3>1, <2>1, <2>3, <2>4 DEF Runs
    <3>2. CASE at[j] = "queued_gen"
      <4>1. j \in Waiting(l)
        BY <3>2, <2>3 DEF Waiting, Queued, LaneOf
      <4> QED BY <4>1, <2>4, EmptyQueue
    <3> QED BY <3>1, <3>2, <2>2 DEF AtGeneration
  <2>6. PICK k \in Jobs : Runs(k, l)
    BY <2>4, <2>5
  <2>7. ASSUME NEW i \in Jobs, Runs(i, l) PROVE InGeneration(i, Pooled)
    <3>1. at[i] = "gen" /\ holds[i] = l
      BY <2>7, <2>1 DEF Runs
    <3>2. MoreAccounts(i) /\ generations[Account(i)] = l
      BY <3>1 DEF IInv, Placed, AtGeneration
    <3>3. Account(i) \in Accounts
      BY <3>2, AccountOfPlan DEF IInv
    <3>4. Account(i) = Pooled
      BY <3>2, <3>3, <1>1, PooledAssumption DEF IInv, Mapped
    <3> QED BY <3>1, <3>4 DEF InGeneration
  <2>8. ASSUME NEW i \in Jobs, InGeneration(i, Pooled) PROVE Runs(i, l)
    BY <2>8, <2>1 DEF InGeneration, Runs, IInv, Placed, AtGeneration
  <2>9. GenerationInside = {k}
    BY <2>4, <2>6, <2>7, <2>8 DEF GenerationInside
  <2> QED BY <1>1, <2>1, <2>5, <2>9, FS_Singleton DEF GenerationQueue
<1>2. CASE l = NoLane
  <2>1. ASSUME NEW i \in Jobs, InGeneration(i, Pooled) PROVE FALSE
    <3>1. at[i] = "gen" /\ holds[i] = l
      BY <2>1 DEF InGeneration, IInv, Placed, AtGeneration
    <3> QED BY <3>1, <1>2 DEF IInv, TypeOK
  <2>2. GenerationInside = {}
    BY <2>1 DEF GenerationInside
  <2> QED BY <1>2, <2>2, FS_EmptySet DEF GenerationQueue
<1> QED BY <1>1, <1>2

------------------------------------------------------------------------------
(* Init and the actions preserve IInv and are steps of the pools. *)

LEMMA InitIInv == Init => IInv
<1> SUFFICES ASSUME Init PROVE IInv
  OBVIOUS
<1>1. TypeOK
  <2>1. <<>> \in Seq(Jobs)
    OBVIOUS
  <2>2. \A j \in Jobs : 1 <= Len(Plan[j].accounts) + 1
    <3>1. \A j \in Jobs : Len(Plan[j].accounts) \in Nat
      BY PlanAssumption
    <3> QED BY <3>1
  <2>3. \A j \in Jobs : step[j] <= Len(Plan[j].accounts) + 1
    BY <2>2 DEF Init
  <2>4. \A j \in Jobs : holds[j] # NoLane <=> at[j] \in {"queued_gen", "gen"}
    BY DEF Init
  <2>5. lanes \in [AllLanes -> [active : BOOLEAN, queue : Seq(Jobs)]]
    BY <2>1 DEF Init
  <2>6. /\ generations \in [Accounts -> LaneIds \cup {NoLane}]
        /\ at \in [Jobs -> {"idle", "queued_life"} \cup Inside \cup Ended]
        /\ step \in [Jobs -> Nat \ {0}]
        /\ holds \in [Jobs -> LaneIds \cup {NoLane}]
    BY DEF Init
  <2>7. /\ failed \subseteq Jobs /\ signalled \subseteq Jobs
        /\ stopped \in BOOLEAN /\ drain \in {"none", "waiting", "resolved"}
    BY DEF Init
  <2> QED BY <2>3, <2>4, <2>5, <2>6, <2>7 DEF TypeOK
<1>2. QueuesMatch
  BY EmptyQueue DEF Init, QueuesMatch, Waiting, Queued
<1>3. Placed
  BY DEF Init, Placed, AtGeneration
<1>4. OneRunner
  BY DEF Init, OneRunner, Runs, InLifecycle, Inside
<1>5. Mapped /\ Drained
  BY DEF Init, Mapped, Drained
<1> QED BY <1>1, <1>2, <1>3, <1>4, <1>5 DEF IInv

\* Everything but failed and signalled as before.
LEMMA FrameIInv ==
  ASSUME IInv, failed' \subseteq Jobs, signalled' \subseteq Jobs,
         UNCHANGED <<lanes, generations, at, step, holds, stopped, drain>>
  PROVE  IInv'
<1>1. TypeOK'
  BY DEF IInv, TypeOK
<1>2. QueuesMatch'
  BY DEF IInv, QueuesMatch, Waiting, LaneOf
<1>3. Placed'
  BY DEF IInv, Placed, MoreAccounts, Account
<1>4. OneRunner'
  BY DEF IInv, OneRunner, Runs, InLifecycle
<1>5. Mapped'
  BY DEF IInv, Mapped, Account
<1>6. Drained'
  BY DEF IInv, Drained, IsIdle, Empty
<1> QED BY <1>1, <1>2, <1>3, <1>4, <1>5, <1>6 DEF IInv

\* A job that was refused has been nowhere.
LEMMA RefuseIInv ==
  ASSUME IInv, NEW j \in Jobs, Refuse(j)
  PROVE  IInv'
<1>1. TypeOK'
  BY DEF IInv, TypeOK, Refuse, Ended
<1>2. QueuesMatch'
  BY DEF IInv, TypeOK, QueuesMatch, Waiting, LaneOf, Refuse, Queued
<1>3. Placed'
  BY DEF IInv, TypeOK, Placed, MoreAccounts, Account, Refuse, AtGeneration
<1>4. OneRunner'
  BY DEF IInv, TypeOK, OneRunner, Runs, InLifecycle, Refuse, Inside
<1>5. Mapped'
  BY DEF IInv, TypeOK, Mapped, Account, Refuse, AtGeneration
<1>6. Drained'
  BY DEF IInv, Drained, IsIdle, Empty, Refuse
<1> QED BY <1>1, <1>2, <1>3, <1>4, <1>5, <1>6 DEF IInv

\* close() changes no lane.
LEMMA CloseIInv ==
  ASSUME IInv, Close
  PROVE  IInv'
<1>1. TypeOK'
  BY DEF IInv, TypeOK, Close
<1>2. QueuesMatch'
  BY DEF IInv, QueuesMatch, Waiting, LaneOf, Close
<1>3. Placed'
  BY DEF IInv, Placed, MoreAccounts, Account, Close
<1>4. OneRunner'
  BY DEF IInv, OneRunner, Runs, InLifecycle, Close
<1>5. Mapped'
  BY DEF IInv, Mapped, Account, Close
<1>6. Drained'
  BY DEF IInv, Drained, IsIdle, Empty, Close
<1> QED BY <1>1, <1>2, <1>3, <1>4, <1>5, <1>6 DEF IInv

\* What Changed and a step that somebody inside or unrefused takes do to the drain.
LEMMA DrainedByChange ==
  ASSUME IInv, Changed, UNCHANGED stopped, drain # "resolved"
  PROVE  Drained' /\ drain' \in {"none", "waiting", "resolved"}
BY DEF IInv, TypeOK, Drained, Changed

\* The coordinator has resolved its drain: nobody is inside or comes in.
LEMMA NotResolved ==
  ASSUME IInv, NEW j \in Jobs,
         \/ at[j] \in Inside \cup {"queued_life"}
         \/ at[j] = "idle" /\ ~Refused(j)
  PROVE  drain # "resolved"
<1> SUFFICES ASSUME drain = "resolved" PROVE FALSE
  OBVIOUS
<1>1. stopped /\ at[j] \in {"idle"} \cup Ended
  BY IdleIsQuiet DEF IInv, Drained
<1> QED BY <1>1 DEF Refused, Inside, Ended

\* withLifecycle(): the job waits for the active lane, or enters the idle one.
LEMMA AskLifecycleStep ==
  ASSUME IInv, NEW j \in Jobs, AskLifecycle(j)
  PROVE  IInv' /\ PoolsMove
<1> DEFINE L == Lifecycle
           to == IF lanes[L].active THEN "queued_life" ELSE "life"
<1>0. /\ at[j] = "idle" /\ Plan[j].lifecycle /\ ~Refused(j) /\ Join(L, j)
      /\ at' = [at EXCEPT ![j] = to]
      /\ UNCHANGED <<generations, step, holds, failed, signalled, stopped>>
      /\ Changed
  BY DEF AskLifecycle
<1>L. L \in AllLanes /\ lanes[L].queue \in Seq(Jobs) /\ L # NoLane
  BY LanesAssumption DEF AllLanes, IInv, TypeOK
<1>J. /\ lanes' \in [AllLanes -> Lane]
      /\ \A m \in AllLanes : m # L => lanes'[m] = lanes[m]
      /\ lanes'[L].active
      /\ lanes[L].active => lanes'[L].queue = Append(lanes[L].queue, j)
      /\ ~lanes[L].active => lanes'[L].queue = lanes[L].queue
  BY <1>0, <1>L, JoinLane DEF IInv
<1>T. at \in [Jobs -> {"idle", "queued_life"} \cup Inside \cup Ended]
  BY DEF IInv, TypeOK
<1>a. \A k \in Jobs : at'[k] = IF k = j THEN to ELSE at[k]
  BY <1>0, <1>T
<1>d. Drained' /\ drain' \in {"none", "waiting", "resolved"}
  BY <1>0, NotResolved, DrainedByChange
<1>h. holds[j] = NoLane
  BY <1>0 DEF IInv, TypeOK
<1>1. TypeOK'
  <2>1. lanes' \in [AllLanes -> [active : BOOLEAN, queue : Seq(Jobs)]]
    BY <1>J DEF Lane
  <2>2. at' \in [Jobs -> {"idle", "queued_life"} \cup Inside \cup Ended]
    BY <1>0, <1>T DEF Inside
  <2>3. \A k \in Jobs : holds'[k] # NoLane <=> at'[k] \in {"queued_gen", "gen"}
    BY <1>0, <1>a, <1>h DEF IInv, TypeOK
  <2> QED BY <1>0, <1>d, <2>1, <2>2, <2>3 DEF IInv, TypeOK
<1>2. QueuesMatch'
  <2> SUFFICES ASSUME NEW l \in AllLanes
               PROVE  IsInjective(lanes'[l].queue) /\ ToSet(lanes'[l].queue) = Waiting(l)'
    BY DEF QueuesMatch
  <2>1. IsInjective(lanes[l].queue) /\ ToSet(lanes[l].queue) = Waiting(l) /\ j \notin Waiting(l)
    BY <1>0 DEF IInv, QueuesMatch, Waiting, Queued
  <2>2. Waiting(l)' = IF l = L /\ lanes[L].active THEN Waiting(l) \cup {j} ELSE Waiting(l)
    BY <1>0, <1>a, <1>L, <1>h DEF Waiting, LaneOf, Queued
  <2>3. CASE l = L /\ lanes[L].active
    <3>1. /\ IsInjective(Append(lanes[L].queue, j))
          /\ ToSet(Append(lanes[L].queue, j)) = ToSet(lanes[L].queue) \cup {j}
      BY <2>1, <2>3, <1>L, AppendQueue
    <3> QED BY <2>1, <2>2, <2>3, <3>1, <1>J
  <2>4. CASE ~(l = L /\ lanes[L].active)
    BY <2>1, <2>2, <2>4, <1>J
  <2> QED BY <2>3, <2>4
<1>3. Placed'
  BY <1>0, <1>a DEF IInv, Placed, MoreAccounts, Account, AtGeneration
<1>4. OneRunner'
  <2> SUFFICES ASSUME NEW l \in AllLanes
               PROVE  /\ \A i, k \in Jobs : Runs(i, l)' /\ Runs(k, l)' => i = k
                      /\ lanes'[l].active <=> \E i \in Jobs : Runs(i, l)'
                      /\ ~lanes'[l].active => lanes'[l].queue = <<>>
    BY DEF OneRunner
  <2>1. /\ \A i, k \in Jobs : Runs(i, l) /\ Runs(k, l) => i = k
        /\ lanes[l].active <=> \E i \in Jobs : Runs(i, l)
        /\ ~lanes[l].active => lanes[l].queue = <<>>
    BY DEF IInv, OneRunner
  <2>2. \A i \in Jobs : Runs(i, l)' <=> Runs(i, l) \/ (i = j /\ l = L /\ ~lanes[L].active)
    BY <1>0, <1>a, <1>L, <1>h DEF Runs, InLifecycle, Inside
  <2> HIDE DEF to
  <2> QED BY <2>1, <2>2, <1>J, <1>L
<1>5. Mapped'
  BY <1>0, <1>a DEF IInv, Mapped, Account, AtGeneration
<1>6. [LifecyclePool!Next]_(LifecyclePool!vars)
  <2>1. \A k \in Jobs : InLifecycle(k)' <=> InLifecycle(k) \/ (k = j /\ ~lanes[L].active)
    BY <1>0, <1>a DEF InLifecycle, Inside
  <2>2. j \notin LifecycleInside /\ j \notin ToSet(lanes[L].queue) /\ IsInjective(lanes[L].queue)
    BY <1>0, <1>L DEF LifecycleInside, InLifecycle, Inside, IInv, QueuesMatch, Waiting, Queued
  <2>3. CASE lanes[L].active
    <3>1. UNCHANGED LifecycleInside
      BY <2>1, <2>3 DEF LifecycleInside
    <3>2. Len(lanes[L].queue) < Cardinality(Jobs) /\ Cardinality(LifecycleInside) = 1
      BY <2>2, <2>3, <1>L, ShortQueue, JobsAssumption, LifecycleLane
    <3> QED BY <2>2, <2>3, <3>1, <3>2, <1>J, SameOperators
            DEF LifecyclePool!Next, LifecyclePool!Wait
  <2>4. CASE ~lanes[L].active
    <3>1. LifecycleInside' = LifecycleInside \cup {j}
      BY <2>1, <2>4 DEF LifecycleInside
    <3>2. lanes[L].queue = <<>> /\ Cardinality(LifecycleInside) < 1
      BY <2>4, LifecycleLane
    <3> QED BY <2>2, <2>4, <3>1, <3>2, <1>J, SameOperators
            DEF LifecyclePool!Next, LifecyclePool!Enter
  <2> QED BY <2>3, <2>4
<1>7. UNCHANGED <<GenerationInside, GenerationQueue>>
  <2>1. \A k \in Jobs : InGeneration(k, Pooled)' <=> InGeneration(k, Pooled)
    BY <1>0, <1>a DEF InGeneration, Account
  <2>2. UNCHANGED GenerationInside
    BY <2>1 DEF GenerationInside
  <2>3. PICK l : l = generations[Pooled]
    OBVIOUS
  <2>4. l # NoLane => l # L /\ l \in AllLanes
    BY <2>3, GenerationLane
  <2>5. UNCHANGED GenerationQueue
    BY <2>3, <2>4, <1>0, <1>J DEF GenerationQueue
  <2> QED BY <2>2, <2>5
<1> QED BY <1>1, <1>2, <1>3, <1>4, <1>5, <1>6, <1>7, <1>d
       DEF IInv, PoolsMove, GenerationPool!vars

\* withCredentialGeneration(): the account's lane, or one nobody refers to.
LEMMA AskGenerationStep ==
  ASSUME IInv, NEW j \in Jobs, AskGeneration(j)
  PROVE  IInv' /\ PoolsMove
<1> DEFINE b == Account(j)
<1>0. PICK l : /\ WantsGeneration(j) /\ ~Refused(j) /\ EntersGeneration(j, l)
               /\ generations[b] # NoLane => l = generations[b]
               /\ UNCHANGED <<step, failed, signalled, stopped>>
               /\ Changed
  BY DEF AskGeneration
<1> DEFINE to == IF lanes[l].active THEN "queued_gen" ELSE "gen"
<1>e. /\ l \in LaneIds /\ (generations[b] = l \/ Unused(l))
      /\ generations' = [generations EXCEPT ![b] = l]
      /\ holds' = [holds EXCEPT ![j] = l]
      /\ Join(l, j)
      /\ at' = [at EXCEPT ![j] = to]
  BY <1>0 DEF EntersGeneration
<1>w. /\ at[j] \in {"idle", "life"} /\ MoreAccounts(j)
      /\ at[j] = "idle" <=> ~Plan[j].lifecycle
  <2>1. CASE at[j] = "idle" /\ ~Plan[j].lifecycle
    <3>1. step[j] = 1 /\ Len(Plan[j].accounts) = 1
      BY <2>1, PlanAssumption DEF IInv, Placed
    <3> QED BY <2>1, <3>1 DEF MoreAccounts
  <2>2. CASE at[j] = "life" /\ MoreAccounts(j)
    BY <2>2 DEF IInv, Placed
  <2> QED BY <1>0, <2>1, <2>2 DEF WantsGeneration
<1>b. b \in Accounts
  BY <1>w, AccountOfPlan DEF IInv
<1>L. l \in AllLanes /\ lanes[l].queue \in Seq(Jobs) /\ l # NoLane /\ l # Lifecycle
  BY <1>e, LanesAssumption DEF AllLanes, IInv, TypeOK
<1>J. /\ lanes' \in [AllLanes -> Lane]
      /\ \A m \in AllLanes : m # l => lanes'[m] = lanes[m]
      /\ lanes'[l].active
      /\ lanes[l].active => lanes'[l].queue = Append(lanes[l].queue, j)
      /\ ~lanes[l].active => lanes'[l].queue = lanes[l].queue
  BY <1>e, <1>L, JoinLane DEF IInv
<1>T. /\ at \in [Jobs -> {"idle", "queued_life"} \cup Inside \cup Ended]
      /\ holds \in [Jobs -> LaneIds \cup {NoLane}]
      /\ generations \in [Accounts -> LaneIds \cup {NoLane}]
      /\ holds[j] = NoLane
  BY <1>w DEF IInv, TypeOK
<1>a. /\ \A k \in Jobs : at'[k] = IF k = j THEN to ELSE at[k]
      /\ \A k \in Jobs : holds'[k] = IF k = j THEN l ELSE holds[k]
      /\ \A a \in Accounts : generations'[a] = IF a = b THEN l ELSE generations[a]
      /\ \A k \in Jobs : Account(k)' = Account(k) /\ MoreAccounts(k)' = MoreAccounts(k)
  BY <1>0, <1>e, <1>T, <1>b DEF Account, MoreAccounts
<1>g. \A a \in Accounts : generations[a] = l => a = b
  BY <1>e, <1>b, <1>L DEF Unused, IInv, Mapped
<1>d. Drained' /\ drain' \in {"none", "waiting", "resolved"}
  BY <1>0, <1>w, NotResolved, DrainedByChange DEF Inside
<1> HIDE DEF b
<1>1. TypeOK'
  <2>1. lanes' \in [AllLanes -> [active : BOOLEAN, queue : Seq(Jobs)]]
    BY <1>J DEF Lane
  <2>2. /\ at' \in [Jobs -> {"idle", "queued_life"} \cup Inside \cup Ended]
        /\ holds' \in [Jobs -> LaneIds \cup {NoLane}]
        /\ generations' \in [Accounts -> LaneIds \cup {NoLane}]
    BY <1>e, <1>T, <1>b DEF Inside
  <2>3. \A k \in Jobs : holds'[k] # NoLane <=> at'[k] \in {"queued_gen", "gen"}
    BY <1>a, <1>L DEF IInv, TypeOK
  <2> QED BY <1>0, <1>d, <2>1, <2>2, <2>3 DEF IInv, TypeOK
<1>2. QueuesMatch'
  <2> SUFFICES ASSUME NEW m \in AllLanes
               PROVE  IsInjective(lanes'[m].queue) /\ ToSet(lanes'[m].queue) = Waiting(m)'
    BY DEF QueuesMatch
  <2>1. IsInjective(lanes[m].queue) /\ ToSet(lanes[m].queue) = Waiting(m) /\ j \notin Waiting(m)
    BY <1>w DEF IInv, QueuesMatch, Waiting, Queued
  <2>2. Waiting(m)' = IF m = l /\ lanes[l].active THEN Waiting(m) \cup {j} ELSE Waiting(m)
    BY <1>w, <1>a, <1>L DEF Waiting, LaneOf, Queued
  <2>3. CASE m = l /\ lanes[l].active
    <3>1. /\ IsInjective(Append(lanes[l].queue, j))
          /\ ToSet(Append(lanes[l].queue, j)) = ToSet(lanes[l].queue) \cup {j}
      BY <2>1, <2>3, <1>L, AppendQueue
    <3> QED BY <2>1, <2>2, <2>3, <3>1, <1>J
  <2>4. CASE ~(m = l /\ lanes[l].active)
    BY <2>1, <2>2, <2>4, <1>J
  <2> QED BY <2>3, <2>4
<1>3. Placed'
  <2> SUFFICES ASSUME NEW k \in Jobs
               PROVE  /\ at'[k] \in {"queued_life", "life"} => Plan[k].lifecycle
                      /\ at'[k] = "idle" /\ ~Plan[k].lifecycle => step'[k] = 1
                      /\ at'[k] \in AtGeneration =>
                           MoreAccounts(k)' /\ generations'[Account(k)'] = holds'[k]
    BY DEF Placed
  <2>1. CASE k = j
    BY <2>1, <1>a, <1>w, <1>b DEF b, AtGeneration
  <2>2. CASE k # j
    <3>1. at'[k] = at[k] /\ step'[k] = step[k] /\ holds'[k] = holds[k]
      BY <2>2, <1>a, <1>0
    <3>2. ASSUME at[k] \in AtGeneration
          PROVE  generations'[Account(k)] = holds[k] /\ MoreAccounts(k)
      <4>1. MoreAccounts(k) /\ generations[Account(k)] = holds[k]
        BY <3>2 DEF IInv, Placed
      <4>2. Account(k) \in Accounts /\ holds[k] # NoLane
        BY <4>1, <3>2, AccountOfPlan DEF IInv, TypeOK, AtGeneration
      <4>3. Account(k) = b => holds[k] = l
        BY <4>1, <4>2, <1>0 DEF b
      <4> QED BY <4>1, <4>2, <4>3, <1>a
    <3> QED BY <3>1, <3>2, <1>a DEF IInv, Placed
  <2> QED BY <2>1, <2>2
<1>4. OneRunner'
  <2> SUFFICES ASSUME NEW m \in AllLanes
               PROVE  /\ \A i, k \in Jobs : Runs(i, m)' /\ Runs(k, m)' => i = k
                      /\ lanes'[m].active <=> \E i \in Jobs : Runs(i, m)'
                      /\ ~lanes'[m].active => lanes'[m].queue = <<>>
    BY DEF OneRunner
  <2>1. /\ \A i, k \in Jobs : Runs(i, m) /\ Runs(k, m) => i = k
        /\ lanes[m].active <=> \E i \in Jobs : Runs(i, m)
        /\ ~lanes[m].active => lanes[m].queue = <<>>
    BY DEF IInv, OneRunner
  <2>2. \A i \in Jobs : Runs(i, m)' <=> Runs(i, m) \/ (i = j /\ m = l /\ ~lanes[l].active)
    BY <1>a, <1>L, <1>w DEF Runs, InLifecycle, Inside
  <2> HIDE DEF to
  <2> QED BY <2>1, <2>2, <1>J, <1>L
<1>5. Mapped'
  <2>1. \A a, c \in Accounts :
          generations'[a] = generations'[c] /\ generations'[a] # NoLane => a = c
    BY <1>a, <1>g DEF IInv, Mapped
  <2>2. ASSUME NEW a \in Accounts, generations'[a] # NoLane
        PROVE  \E k \in Jobs : at'[k] \in AtGeneration /\ Account(k)' = a
    <3>1. CASE a = b
      BY <3>1, <1>a DEF b, AtGeneration
    <3>2. CASE a # b
      <4>1. PICK k \in Jobs : at[k] \in AtGeneration /\ Account(k) = a
        BY <2>2, <3>2, <1>a DEF IInv, Mapped
      <4>2. k # j
        BY <4>1, <1>w DEF AtGeneration
      <4> QED BY <4>1, <4>2, <1>a
    <3> QED BY <3>1, <3>2
  <2> QED BY <2>1, <2>2 DEF Mapped
<1>6. UNCHANGED <<LifecycleInside, lanes[Lifecycle].queue>>
  <2>1. \A k \in Jobs : InLifecycle(k)' <=> InLifecycle(k)
    BY <1>a, <1>w DEF InLifecycle, Inside
  <2>2. UNCHANGED LifecycleInside
    BY <2>1 DEF LifecycleInside
  <2> QED BY <2>2, <1>J, <1>L DEF AllLanes
<1>7. [GenerationPool!Next]_(GenerationPool!vars)
  <2>0. PICK g : g = generations[Pooled]
    OBVIOUS
  <2>1. /\ g # NoLane => /\ g \in AllLanes /\ lanes[g].active /\ GenerationQueue = lanes[g].queue
                         /\ Cardinality(GenerationInside) = 1
        /\ g = NoLane => GenerationQueue = <<>> /\ Cardinality(GenerationInside) = 0
    BY <2>0, GenerationLane
  <2>2. \A k \in Jobs : InGeneration(k, Pooled)' <=>
                          InGeneration(k, Pooled) \/ (k = j /\ b = Pooled /\ ~lanes[l].active)
    BY <1>a, <1>w DEF InGeneration, b
  <2>3. j \notin GenerationInside
    BY <1>w DEF GenerationInside, InGeneration
  <2>4. CASE b # Pooled
    <3>1. UNCHANGED GenerationInside
      BY <2>2, <2>4 DEF GenerationInside
    <3>2. g # l /\ generations'[Pooled] = g
      BY <2>0, <2>4, <1>a, <1>g, PooledAssumption
    <3>3. UNCHANGED GenerationQueue
      BY <2>0, <2>1, <3>2, <1>J DEF GenerationQueue
    <3> QED BY <3>1, <3>3 DEF GenerationPool!vars
  <2>5. CASE b = Pooled /\ g # NoLane
    <3>1. g = l /\ generations'[Pooled] = l
      BY <2>0, <2>5, <1>0, <1>a, <1>b DEF b
    <3>2. UNCHANGED GenerationInside
      BY <2>1, <2>2, <2>5, <3>1 DEF GenerationInside
    <3>3. GenerationQueue' = Append(GenerationQueue, j)
      BY <2>1, <2>5, <3>1, <1>J, <1>L DEF GenerationQueue
    <3>4. IsInjective(lanes[l].queue) /\ j \notin ToSet(lanes[l].queue)
      BY <1>w, <1>L DEF IInv, QueuesMatch, Waiting, Queued
    <3>5. Len(GenerationQueue) < Cardinality(Jobs) /\ j \notin ToSet(GenerationQueue)
      BY <2>1, <2>5, <3>1, <3>4, <1>L, ShortQueue, JobsAssumption
    <3> QED BY <2>1, <2>3, <2>5, <3>2, <3>3, <3>5, SameOperators
            DEF GenerationPool!Next, GenerationPool!Wait
  <2>6. CASE b = Pooled /\ g = NoLane
    <3>1. Unused(l) /\ generations'[Pooled] = l
      BY <2>0, <2>6, <1>e, <1>a, <1>b, <1>L
    <3>2. ~lanes[l].active /\ lanes[l].queue = <<>>
      BY <3>1, <1>L DEF Unused, IInv, OneRunner, Runs
    <3>3. GenerationInside' = GenerationInside \cup {j}
      BY <2>2, <2>6, <3>2 DEF GenerationInside
    <3>4. GenerationQueue' = <<>>
      BY <3>1, <3>2, <1>J, <1>L DEF GenerationQueue
    <3> QED BY <2>1, <2>3, <2>6, <3>3, <3>4, SameOperators
            DEF GenerationPool!Next, GenerationPool!Enter
  <2> QED BY <2>4, <2>5, <2>6
<1> QED BY <1>1, <1>2, <1>3, <1>4, <1>5, <1>6, <1>7, <1>d
       DEF IInv, PoolsMove, LifecyclePool!vars

\* Work in a generation lane returns or throws: the lane goes to the head of its
\* queue, or it leaves the map with the last job.
LEMMA LeaveGenerationStep ==
  ASSUME IInv, NEW j \in Jobs, NEW ok \in BOOLEAN, LeaveGeneration(j, ok)
  PROVE  IInv' /\ PoolsMove
<1> DEFINE b == Account(j)
           l == holds[j]
           to == AfterGeneration(j, ok)
           next == Head(lanes[l].queue)
           empty == lanes[l].queue = <<>>
<1>0. /\ at[j] = "gen" /\ HandOn(l) /\ Moves(l, j, to, "gen") /\ GenerationChanged(b, l)
      /\ holds' = [holds EXCEPT ![j] = NoLane]
      /\ step' = [step EXCEPT ![j] = @ + 1]
      /\ failed' \subseteq Jobs
      /\ UNCHANGED <<signalled, stopped>>
      /\ Changed
  BY DEF LeaveGeneration, IInv, TypeOK
<1>T. /\ at \in [Jobs -> {"idle", "queued_life"} \cup Inside \cup Ended]
      /\ holds \in [Jobs -> LaneIds \cup {NoLane}]
      /\ generations \in [Accounts -> LaneIds \cup {NoLane}]
      /\ step \in [Jobs -> Nat \ {0}]
  BY DEF IInv, TypeOK
<1>b. MoreAccounts(j) /\ b \in Accounts /\ generations[b] = l
  BY <1>0, AccountOfPlan DEF IInv, Placed, AtGeneration
<1>L. /\ l \in LaneIds /\ l \in AllLanes /\ lanes[l].queue \in Seq(Jobs)
      /\ l # NoLane /\ l # Lifecycle
  <2>1. l # NoLane
    BY <1>0 DEF IInv, TypeOK
  <2> QED BY <1>T, <2>1, LanesAssumption DEF AllLanes, IInv, TypeOK
<1>r. Runs(j, l) /\ lanes[l].active /\ \A k \in Jobs : Runs(k, l) => k = j
  <2>1. Runs(j, l)
    BY <1>0, <1>L DEF Runs
  <2> QED BY <2>1, <1>L DEF IInv, OneRunner
<1>H. /\ lanes' \in [AllLanes -> Lane]
      /\ \A m \in AllLanes : m # l => lanes'[m] = lanes[m]
      /\ empty => ~lanes'[l].active /\ lanes'[l].queue = <<>>
      /\ ~empty => lanes'[l].active /\ lanes'[l].queue = Tail(lanes[l].queue)
  BY <1>0, <1>L, <1>r, HandOnLane DEF IInv
<1>q. IsInjective(lanes[l].queue) /\ ToSet(lanes[l].queue) = Waiting(l)
  BY <1>L DEF IInv, QueuesMatch
<1>n. ~empty => /\ next \in Jobs /\ next \in Waiting(l)
                /\ ToSet(Tail(lanes[l].queue)) = Waiting(l) \ {next}
                /\ IsInjective(Tail(lanes[l].queue))
  BY <1>L, <1>q, TailQueue
<1>m. ~empty => /\ next \in Jobs /\ at[next] = "queued_gen" /\ holds[next] = l /\ next # j
                /\ Account(next) = b /\ MoreAccounts(next)
  <2> SUFFICES ASSUME ~empty
               PROVE  /\ next \in Jobs /\ at[next] = "queued_gen" /\ holds[next] = l /\ next # j
                      /\ Account(next) = b /\ MoreAccounts(next)
    OBVIOUS
  <2> HIDE DEF next, empty
  <2>1. next \in Jobs /\ at[next] = "queued_gen" /\ holds[next] = l
    BY <1>n, <1>L DEF Waiting, Queued, LaneOf
  <2>2. MoreAccounts(next) /\ generations[Account(next)] = l
    BY <2>1 DEF IInv, Placed, AtGeneration
  <2>3. Account(next) \in Accounts
    BY <2>1, <2>2, AccountOfPlan DEF IInv
  <2>4. Account(next) = b
    BY <2>2, <2>3, <1>b, <1>L DEF IInv, Mapped
  <2> QED BY <2>1, <2>2, <2>4, <1>0
<1>t. to \in {"life"} \cup Ended /\ (to = "life" => Plan[j].lifecycle)
                               /\ (Plan[j].lifecycle => to = "life")
  BY DEF AfterGeneration, Ended
<1>v. at' = IF empty THEN [at EXCEPT ![j] = to] ELSE [at EXCEPT ![j] = to, ![next] = "gen"]
  BY <1>0 DEF Moves
<1> HIDE DEF next, empty, to, l
<1>a. /\ \A k \in Jobs : at'[k] = IF ~empty /\ k = next THEN "gen"
                                  ELSE IF k = j THEN to ELSE at[k]
      /\ \A k \in Jobs : holds'[k] = IF k = j THEN NoLane ELSE holds[k]
      /\ \A k \in Jobs : step'[k] = IF k = j THEN step[k] + 1 ELSE step[k]
      /\ \A k \in Jobs : k # j => Account(k)' = Account(k) /\ MoreAccounts(k)' = MoreAccounts(k)
  <2>1. \A k \in Jobs : at'[k] = IF ~empty /\ k = next THEN "gen"
                                 ELSE IF k = j THEN to ELSE at[k]
    BY <1>v, <1>T, <1>m
  <2>2. \A k \in Jobs : step'[k] = IF k = j THEN step[k] + 1 ELSE step[k]
    BY <1>0, <1>T
  <2>3. \A k \in Jobs : k # j => step'[k] = step[k]
    BY <2>2
  <2> QED BY <2>1, <2>2, <2>3, <1>0, <1>T DEF Account, MoreAccounts
<1>g. \A a \in Accounts : generations'[a] = IF empty /\ a = b THEN NoLane ELSE generations[a]
  <2>1. Empty(lanes'[l]) <=> empty
    BY <1>H DEF Empty
  <2> QED BY <1>0, <1>T, <1>b, <2>1 DEF GenerationChanged
<1>d. Drained' /\ drain' \in {"none", "waiting", "resolved"}
  BY <1>0, NotResolved, DrainedByChange DEF Inside
<1> HIDE DEF b
<1>1. TypeOK'
  <2>1. lanes' \in [AllLanes -> [active : BOOLEAN, queue : Seq(Jobs)]]
    BY <1>H DEF Lane
  <2>2. at' \in [Jobs -> {"idle", "queued_life"} \cup Inside \cup Ended]
    BY <1>v, <1>t, <1>T, <1>m DEF Inside
  <2>3. holds' \in [Jobs -> LaneIds \cup {NoLane}] /\ step' \in [Jobs -> Nat \ {0}]
    BY <1>0, <1>T
  <2>4. generations' \in [Accounts -> LaneIds \cup {NoLane}]
    BY <1>0, <1>T DEF GenerationChanged
  <2>5. \A k \in Jobs : holds'[k] # NoLane <=> at'[k] \in {"queued_gen", "gen"}
    BY <1>a, <1>t, <1>m, <1>L DEF IInv, TypeOK, Ended
  <2>6. \A k \in Jobs : step'[k] <= Len(Plan[k].accounts) + 1
    <3>1. \A k \in Jobs : Len(Plan[k].accounts) \in Nat /\ step[k] <= Len(Plan[k].accounts) + 1
      BY PlanAssumption DEF IInv, TypeOK
    <3>2. step[j] <= Len(Plan[j].accounts)
      BY <1>b DEF MoreAccounts
    <3> QED BY <1>a, <1>T, <3>1, <3>2
  <2> QED BY <1>0, <1>d, <2>1, <2>2, <2>3, <2>4, <2>5, <2>6 DEF IInv, TypeOK
<1>2. QueuesMatch'
  <2> SUFFICES ASSUME NEW m \in AllLanes
               PROVE  IsInjective(lanes'[m].queue) /\ ToSet(lanes'[m].queue) = Waiting(m)'
    BY DEF QueuesMatch
  <2>1. IsInjective(lanes[m].queue) /\ ToSet(lanes[m].queue) = Waiting(m)
    BY DEF IInv, QueuesMatch
  <2>2. Waiting(m)' = IF m = l /\ ~empty THEN Waiting(m) \ {next} ELSE Waiting(m)
    BY <1>0, <1>a, <1>m, <1>t, <1>L DEF Waiting, LaneOf, Queued, Ended
  <2>3. CASE m = l /\ ~empty
    BY <2>2, <2>3, <1>n, <1>H
  <2>4. CASE m = l /\ empty
    BY <2>1, <2>2, <2>4, <1>H DEF empty
  <2>5. CASE m # l
    BY <2>1, <2>2, <2>5, <1>H
  <2> QED BY <2>3, <2>4, <2>5
<1>3. Placed'
  <2> SUFFICES ASSUME NEW k \in Jobs
               PROVE  /\ at'[k] \in {"queued_life", "life"} => Plan[k].lifecycle
                      /\ at'[k] = "idle" /\ ~Plan[k].lifecycle => step'[k] = 1
                      /\ at'[k] \in AtGeneration =>
                           MoreAccounts(k)' /\ generations'[Account(k)'] = holds'[k]
    BY DEF Placed
  <2>1. CASE k = j
    BY <2>1, <1>a, <1>t, <1>m DEF Ended, AtGeneration
  <2>2. CASE k # j
    <3>1. step'[k] = step[k] /\ holds'[k] = holds[k]
      BY <2>2, <1>a
    <3>2. at'[k] = at[k] \/ (~empty /\ k = next /\ at'[k] = "gen" /\ at[k] = "queued_gen")
      BY <2>2, <1>a, <1>m
    <3>3. ASSUME at[k] \in AtGeneration
          PROVE  generations'[Account(k)] = holds[k] /\ MoreAccounts(k)
      <4>1. MoreAccounts(k) /\ generations[Account(k)] = holds[k]
        BY <3>3 DEF IInv, Placed
      <4>2. Account(k) \in Accounts
        BY <4>1, AccountOfPlan DEF IInv
      <4>3. ~(empty /\ Account(k) = b)
        <5> SUFFICES ASSUME empty, Account(k) = b PROVE FALSE
          OBVIOUS
        <5>1. holds[k] = l
          BY <4>1, <1>b
        <5>2. at[k] # "queued_gen"
          BY <5>1, <1>q, EmptyQueue DEF empty, Waiting, Queued, LaneOf
        <5>3. Runs(k, l)
          BY <5>1, <5>2, <3>3, <1>L DEF Runs, AtGeneration
        <5> QED BY <5>3, <2>2, <1>r
      <4> QED BY <4>1, <4>2, <4>3, <1>g
    <3>4. Account(k)' = Account(k) /\ MoreAccounts(k)' = MoreAccounts(k)
      BY <2>2, <1>a
    <3>5. /\ at[k] \in {"queued_life", "life"} => Plan[k].lifecycle
          /\ at[k] = "idle" /\ ~Plan[k].lifecycle => step[k] = 1
      BY DEF IInv, Placed
    <3> QED BY <3>1, <3>2, <3>3, <3>4, <3>5 DEF AtGeneration
  <2> QED BY <2>1, <2>2
<1>4. OneRunner'
  <2> SUFFICES ASSUME NEW m \in AllLanes
               PROVE  /\ \A i, k \in Jobs : Runs(i, m)' /\ Runs(k, m)' => i = k
                      /\ lanes'[m].active <=> \E i \in Jobs : Runs(i, m)'
                      /\ ~lanes'[m].active => lanes'[m].queue = <<>>
    BY DEF OneRunner
  <2>1. /\ \A i, k \in Jobs : Runs(i, m) /\ Runs(k, m) => i = k
        /\ lanes[m].active <=> \E i \in Jobs : Runs(i, m)
        /\ ~lanes[m].active => lanes[m].queue = <<>>
    BY DEF IInv, OneRunner
  <2>2. m # l => \A i \in Jobs : Runs(i, m)' <=> Runs(i, m)
    BY <1>0, <1>a, <1>m, <1>t, <1>L DEF Runs, InLifecycle, Inside, l, Ended
  <2>3. m = l => \A i \in Jobs : Runs(i, m)' <=> (~empty /\ i = next)
    BY <1>0, <1>a, <1>m, <1>r, <1>L DEF Runs
  <2>4. CASE m = l
    BY <2>3, <2>4, <1>H, <1>m
  <2>5. CASE m # l
    BY <2>1, <2>2, <2>5, <1>H
  <2> QED BY <2>4, <2>5
<1>5. Mapped'
  <2>1. \A a, c \in Accounts :
          generations'[a] = generations'[c] /\ generations'[a] # NoLane => a = c
    BY <1>g DEF IInv, Mapped
  <2>2. ASSUME NEW a \in Accounts, generations'[a] # NoLane
        PROVE  \E k \in Jobs : at'[k] \in AtGeneration /\ Account(k)' = a
    <3>1. CASE a = b
      BY <2>2, <3>1, <1>g, <1>m, <1>a DEF AtGeneration
    <3>2. CASE a # b
      <4>1. PICK k \in Jobs : at[k] \in AtGeneration /\ Account(k) = a
        BY <2>2, <3>2, <1>g DEF IInv, Mapped
      <4>2. k # j
        BY <4>1, <3>2 DEF b
      <4> QED BY <4>1, <4>2, <1>a DEF AtGeneration
    <3> QED BY <3>1, <3>2
  <2> QED BY <2>1, <2>2 DEF Mapped
<1>6. UNCHANGED <<LifecycleInside, lanes[Lifecycle].queue>>
  <2>1. \A k \in Jobs : InLifecycle(k)' <=> InLifecycle(k)
    BY <1>0, <1>a, <1>m, <1>t DEF InLifecycle, Inside, Ended
  <2>2. UNCHANGED LifecycleInside
    BY <2>1 DEF LifecycleInside
  <2> QED BY <2>2, <1>H, <1>L DEF AllLanes
<1>7. [GenerationPool!Next]_(GenerationPool!vars)
  <2>0. PICK g : g = generations[Pooled]
    OBVIOUS
  <2>1. g # NoLane => g \in AllLanes /\ GenerationQueue = lanes[g].queue
    BY <2>0, GenerationLane
  <2>2. \A k \in Jobs : InGeneration(k, Pooled)' <=>
                          \/ InGeneration(k, Pooled) /\ k # j
                          \/ ~empty /\ k = next /\ b = Pooled
    BY <1>a, <1>m, <1>t DEF InGeneration, Ended
  <2>3. j \in GenerationInside <=> b = Pooled
    BY <1>0 DEF GenerationInside, InGeneration, b
  <2>4. CASE b # Pooled
    <3>1. UNCHANGED GenerationInside
      BY <2>2, <2>3, <2>4 DEF GenerationInside
    <3>2. generations'[Pooled] = g /\ (g # NoLane => g # l)
      BY <2>0, <2>4, <1>g, <1>b, PooledAssumption DEF IInv, Mapped
    <3>3. UNCHANGED GenerationQueue
      BY <2>0, <2>1, <3>2, <1>H DEF GenerationQueue
    <3> QED BY <3>1, <3>3 DEF GenerationPool!vars
  <2>5. CASE b = Pooled /\ empty
    <3>1. g = l /\ GenerationQueue = <<>>
      BY <2>0, <2>1, <2>5, <1>b, <1>L DEF empty
    <3>2. GenerationInside' = GenerationInside \ {j}
      BY <2>2, <2>5 DEF GenerationInside
    <3>3. GenerationQueue' = <<>>
      BY <2>5, <1>g, PooledAssumption DEF GenerationQueue
    <3> QED BY <2>3, <2>5, <3>1, <3>2, <3>3 DEF GenerationPool!Next, GenerationPool!Leave
  <2>6. CASE b = Pooled /\ ~empty
    <3>1. g = l /\ GenerationQueue = lanes[l].queue /\ generations'[Pooled] = l
      BY <2>0, <2>1, <2>6, <1>b, <1>g, <1>L
    <3>2. GenerationInside' = (GenerationInside \ {j}) \cup {next}
      BY <2>2, <2>6, <1>m DEF GenerationInside
    <3>3. GenerationQueue # <<>> /\ next = Head(GenerationQueue)
      BY <2>6, <3>1 DEF empty, next
    <3>4. GenerationQueue' = Tail(GenerationQueue)
      BY <2>6, <3>1, <1>H, <1>L DEF GenerationQueue
    <3> QED BY <2>3, <2>6, <3>2, <3>3, <3>4 DEF GenerationPool!Next, GenerationPool!Leave
  <2> QED BY <2>4, <2>5, <2>6
<1> QED BY <1>1, <1>2, <1>3, <1>4, <1>5, <1>6, <1>7, <1>d
       DEF IInv, PoolsMove, LifecyclePool!vars

\* Work in the lifecycle lane returns or throws: the head of the queue is next.
LEMMA LeaveLifecycleStep ==
  ASSUME IInv, NEW j \in Jobs, LeaveLifecycle(j)
  PROVE  IInv' /\ PoolsMove
<1> DEFINE L == Lifecycle
           to == IF j \in failed THEN "failed" ELSE "done"
           next == Head(lanes[L].queue)
           empty == lanes[L].queue = <<>>
<1>0. /\ at[j] = "life" /\ HandOn(L) /\ Moves(L, j, to, "life")
      /\ UNCHANGED <<generations, step, holds, failed, signalled, stopped>>
      /\ Changed
  BY DEF LeaveLifecycle
<1>T. /\ at \in [Jobs -> {"idle", "queued_life"} \cup Inside \cup Ended]
      /\ holds \in [Jobs -> LaneIds \cup {NoLane}]
      /\ holds[j] = NoLane
  BY <1>0 DEF IInv, TypeOK
<1>L. L \in AllLanes /\ lanes[L].queue \in Seq(Jobs) /\ L # NoLane /\ L \notin LaneIds
  BY LanesAssumption DEF AllLanes, IInv, TypeOK
<1>r. Runs(j, L) /\ lanes[L].active /\ \A k \in Jobs : Runs(k, L) => k = j
  <2>1. Runs(j, L)
    BY <1>0 DEF Runs, InLifecycle, Inside, IInv, Placed
  <2> QED BY <2>1, <1>L DEF IInv, OneRunner
<1>H. /\ lanes' \in [AllLanes -> Lane]
      /\ \A m \in AllLanes : m # L => lanes'[m] = lanes[m]
      /\ empty => ~lanes'[L].active /\ lanes'[L].queue = <<>>
      /\ ~empty => lanes'[L].active /\ lanes'[L].queue = Tail(lanes[L].queue)
  BY <1>0, <1>L, <1>r, HandOnLane DEF IInv
<1>q. IsInjective(lanes[L].queue) /\ ToSet(lanes[L].queue) = Waiting(L)
  BY <1>L DEF IInv, QueuesMatch
<1>n. ~empty => /\ next \in Jobs /\ next \in Waiting(L)
                /\ ToSet(Tail(lanes[L].queue)) = Waiting(L) \ {next}
                /\ IsInjective(Tail(lanes[L].queue))
  BY <1>L, <1>q, TailQueue
<1>v. at' = IF empty THEN [at EXCEPT ![j] = to] ELSE [at EXCEPT ![j] = to, ![next] = "life"]
  BY <1>0 DEF Moves
<1>t. to \in Ended
  BY DEF Ended
<1> HIDE DEF next, empty, to
<1>m. ~empty => next \in Jobs /\ at[next] = "queued_life" /\ next # j /\ Plan[next].lifecycle
  <2>1. ~empty => next \in Jobs /\ at[next] = "queued_life"
    BY <1>n, <1>L, <1>T DEF Waiting, Queued, LaneOf
  <2> QED BY <2>1, <1>0 DEF IInv, Placed
<1>a. \A k \in Jobs : at'[k] = IF ~empty /\ k = next THEN "life"
                               ELSE IF k = j THEN to ELSE at[k]
  BY <1>v, <1>T, <1>m
<1>d. Drained' /\ drain' \in {"none", "waiting", "resolved"}
  BY <1>0, NotResolved, DrainedByChange DEF Inside
<1>1. TypeOK'
  <2>1. lanes' \in [AllLanes -> [active : BOOLEAN, queue : Seq(Jobs)]]
    BY <1>H DEF Lane
  <2>2. at' \in [Jobs -> {"idle", "queued_life"} \cup Inside \cup Ended]
    BY <1>v, <1>t, <1>T, <1>m DEF Inside
  <2>3. \A k \in Jobs : holds'[k] # NoLane <=> at'[k] \in {"queued_gen", "gen"}
    BY <1>0, <1>a, <1>t, <1>m DEF IInv, TypeOK, Ended
  <2> QED BY <1>0, <1>d, <2>1, <2>2, <2>3 DEF IInv, TypeOK
<1>2. QueuesMatch'
  <2> SUFFICES ASSUME NEW m \in AllLanes
               PROVE  IsInjective(lanes'[m].queue) /\ ToSet(lanes'[m].queue) = Waiting(m)'
    BY DEF QueuesMatch
  <2>1. IsInjective(lanes[m].queue) /\ ToSet(lanes[m].queue) = Waiting(m)
    BY DEF IInv, QueuesMatch
  <2>2. Waiting(m)' = IF m = L /\ ~empty THEN Waiting(m) \ {next} ELSE Waiting(m)
    BY <1>0, <1>a, <1>m, <1>t, <1>L DEF Waiting, LaneOf, Queued, Ended
  <2>3. CASE m = L /\ ~empty
    BY <2>2, <2>3, <1>n, <1>H
  <2>4. CASE m = L /\ empty
    BY <2>1, <2>2, <2>4, <1>H DEF empty
  <2>5. CASE m # L
    BY <2>1, <2>2, <2>5, <1>H
  <2> QED BY <2>3, <2>4, <2>5
<1>3. Placed'
  BY <1>0, <1>a, <1>m, <1>t DEF IInv, Placed, MoreAccounts, Account, AtGeneration, Ended
<1>4. OneRunner'
  <2> SUFFICES ASSUME NEW m \in AllLanes
               PROVE  /\ \A i, k \in Jobs : Runs(i, m)' /\ Runs(k, m)' => i = k
                      /\ lanes'[m].active <=> \E i \in Jobs : Runs(i, m)'
                      /\ ~lanes'[m].active => lanes'[m].queue = <<>>
    BY DEF OneRunner
  <2>1. /\ \A i, k \in Jobs : Runs(i, m) /\ Runs(k, m) => i = k
        /\ lanes[m].active <=> \E i \in Jobs : Runs(i, m)
        /\ ~lanes[m].active => lanes[m].queue = <<>>
    BY DEF IInv, OneRunner
  <2>2. m # L => \A i \in Jobs : Runs(i, m)' <=> Runs(i, m)
    BY <1>0, <1>a, <1>m, <1>t DEF Runs, Ended
  <2>3. m = L => \A i \in Jobs : Runs(i, m)' <=> (~empty /\ i = next)
    BY <1>0, <1>a, <1>m, <1>r, <1>t DEF Runs, InLifecycle, Inside, Ended
  <2>4. CASE m = L
    BY <2>3, <2>4, <1>H, <1>m
  <2>5. CASE m # L
    BY <2>1, <2>2, <2>5, <1>H
  <2> QED BY <2>4, <2>5
<1>5. Mapped'
  BY <1>0, <1>a, <1>m DEF IInv, Mapped, Account, AtGeneration
<1>6. [LifecyclePool!Next]_(LifecyclePool!vars)
  <2>1. \A k \in Jobs : InLifecycle(k)' <=>
                          \/ InLifecycle(k) /\ k # j
                          \/ ~empty /\ k = next
    BY <1>0, <1>a, <1>m, <1>t DEF InLifecycle, Inside, Ended
  <2>2. j \in LifecycleInside
    BY <1>r DEF LifecycleInside, Runs
  <2>3. CASE empty
    <3>1. LifecycleInside' = LifecycleInside \ {j}
      BY <2>1, <2>3 DEF LifecycleInside
    <3> QED BY <2>2, <2>3, <3>1, <1>H DEF empty, LifecyclePool!Next, LifecyclePool!Leave
  <2>4. CASE ~empty
    <3>1. LifecycleInside' = (LifecycleInside \ {j}) \cup {next}
      BY <2>1, <2>4, <1>m DEF LifecycleInside
    <3> QED BY <2>2, <2>4, <3>1, <1>H DEF empty, next, LifecyclePool!Next, LifecyclePool!Leave
  <2> QED BY <2>3, <2>4
<1>7. UNCHANGED <<GenerationInside, GenerationQueue>>
  <2>1. \A k \in Jobs : InGeneration(k, Pooled)' <=> InGeneration(k, Pooled)
    BY <1>0, <1>a, <1>m, <1>t DEF InGeneration, Account, Ended
  <2>2. UNCHANGED GenerationInside
    BY <2>1 DEF GenerationInside
  <2>3. PICK l : l = generations[Pooled]
    OBVIOUS
  <2>4. l # NoLane => l # L /\ l \in AllLanes
    BY <2>3, GenerationLane
  <2>5. UNCHANGED GenerationQueue
    BY <2>3, <2>4, <1>0, <1>H DEF GenerationQueue
  <2> QED BY <2>2, <2>5
<1> QED BY <1>1, <1>2, <1>3, <1>4, <1>5, <1>6, <1>7, <1>d
       DEF IInv, PoolsMove, GenerationPool!vars

\* A queued job's signal aborts: its entry leaves the queue, and the job that is
\* inside keeps the lane and its place in the map.
LEMMA AbortQueuedStep ==
  ASSUME IInv, NEW j \in Jobs, AbortQueued(j)
  PROVE  IInv' /\ PoolsMove
<1> DEFINE l == LaneOf(j)
           to == IF at[j] = "queued_gen" /\ Plan[j].lifecycle THEN "life" ELSE "failed"
           q == lanes[l].queue
<1>0. /\ at[j] \in Queued
      /\ signalled' \subseteq Jobs /\ failed' \subseteq Jobs
      /\ at' = [at EXCEPT ![j] = to]
      /\ holds' = [holds EXCEPT ![j] = NoLane]
      /\ UNCHANGED <<generations, step, stopped>>
      /\ Changed
  BY DEF AbortQueued, Queued, IInv, TypeOK
<1>i. PICK i \in 1..Len(q) :
        /\ q[i] = j
        /\ lanes' = [lanes EXCEPT ![l] = [active |-> lanes[l].active, queue |-> RemoveAt(q, i)]]
  BY DEF AbortQueued
<1>T. /\ at \in [Jobs -> {"idle", "queued_life"} \cup Inside \cup Ended]
      /\ holds \in [Jobs -> LaneIds \cup {NoLane}]
      /\ lanes \in [AllLanes -> [active : BOOLEAN, queue : Seq(Jobs)]]
      /\ \A k \in Jobs : holds[k] # NoLane <=> at[k] \in {"queued_gen", "gen"}
  BY DEF IInv, TypeOK
<1>L. /\ l \in AllLanes /\ q \in Seq(Jobs)
      /\ at[j] = "queued_gen" => l = holds[j] /\ l \in LaneIds /\ l # Lifecycle
      /\ at[j] = "queued_life" => l = Lifecycle
  BY <1>0, <1>T, LanesAssumption DEF AllLanes, LaneOf, Queued
<1>q. IsInjective(q) /\ ToSet(q) = Waiting(l)
  BY <1>L DEF IInv, QueuesMatch
<1>R. /\ RemoveAt(q, i) \in Seq(Jobs)
      /\ ToSet(RemoveAt(q, i)) = ToSet(q) \ {q[i]}
      /\ IsInjective(RemoveAt(q, i))
  <2> HIDE DEF q
  <2> QED BY <1>L, <1>q, <1>i, RemoveAtQueue
<1>H. /\ lanes' \in [AllLanes -> Lane]
      /\ \A m \in AllLanes : m # l => lanes'[m] = lanes[m]
      /\ lanes'[l].active = lanes[l].active /\ lanes'[l].queue = RemoveAt(q, i)
  <2> HIDE DEF l
  <2> QED BY <1>i, <1>L, <1>R, <1>T DEF Lane
<1>W. lanes[l].active /\ j \in Waiting(l)
  <2>1. j \in Waiting(l)
    BY <1>0 DEF Waiting
  <2>2. q # <<>>
    BY <2>1, <1>q, EmptyQueue
  <2> QED BY <2>1, <2>2, <1>L DEF IInv, OneRunner
<1>t. /\ to \in {"life", "failed"}
      /\ to = "life" <=> at[j] = "queued_gen" /\ Plan[j].lifecycle
  OBVIOUS
<1> HIDE DEF to, q
<1>a. /\ \A k \in Jobs : at'[k] = IF k = j THEN to ELSE at[k]
      /\ \A k \in Jobs : holds'[k] = IF k = j THEN NoLane ELSE holds[k]
      /\ \A k \in Jobs : Account(k)' = Account(k) /\ MoreAccounts(k)' = MoreAccounts(k)
  BY <1>0, <1>T DEF Account, MoreAccounts
<1>d. Drained' /\ drain' \in {"none", "waiting", "resolved"}
  BY <1>0, NotResolved, DrainedByChange DEF Inside, Queued
<1>1. TypeOK'
  <2>1. lanes' \in [AllLanes -> [active : BOOLEAN, queue : Seq(Jobs)]]
    BY <1>H DEF Lane
  <2>2. /\ at' \in [Jobs -> {"idle", "queued_life"} \cup Inside \cup Ended]
        /\ holds' \in [Jobs -> LaneIds \cup {NoLane}]
    BY <1>0, <1>T, <1>t DEF Inside, Ended
  <2>3. \A k \in Jobs : holds'[k] # NoLane <=> at'[k] \in {"queued_gen", "gen"}
    BY <1>a, <1>t, <1>T
  <2> QED BY <1>0, <1>d, <2>1, <2>2, <2>3 DEF IInv, TypeOK
<1>2. QueuesMatch'
  <2> SUFFICES ASSUME NEW m \in AllLanes
               PROVE  IsInjective(lanes'[m].queue) /\ ToSet(lanes'[m].queue) = Waiting(m)'
    BY DEF QueuesMatch
  <2>1. IsInjective(lanes[m].queue) /\ ToSet(lanes[m].queue) = Waiting(m)
    BY DEF IInv, QueuesMatch
  <2>2. Waiting(m)' = Waiting(m) \ {j}
    BY <1>a, <1>t DEF Waiting, LaneOf, Queued
  <2>3. CASE m = l
    BY <2>1, <2>2, <2>3, <1>R, <1>H, <1>i DEF q
  <2>4. CASE m # l
    BY <2>1, <2>2, <2>4, <1>H DEF Waiting
  <2> QED BY <2>3, <2>4
<1>3. Placed'
  BY <1>0, <1>a, <1>t DEF IInv, Placed, AtGeneration
<1>4. OneRunner'
  <2> SUFFICES ASSUME NEW m \in AllLanes
               PROVE  /\ \A h, k \in Jobs : Runs(h, m)' /\ Runs(k, m)' => h = k
                      /\ lanes'[m].active <=> \E k \in Jobs : Runs(k, m)'
                      /\ ~lanes'[m].active => lanes'[m].queue = <<>>
    BY DEF OneRunner
  <2>1. /\ \A h, k \in Jobs : Runs(h, m) /\ Runs(k, m) => h = k
        /\ lanes[m].active <=> \E k \in Jobs : Runs(k, m)
        /\ ~lanes[m].active => lanes[m].queue = <<>>
    BY DEF IInv, OneRunner
  <2>2. \A k \in Jobs : Runs(k, m)' <=> Runs(k, m)
    BY <1>0, <1>a, <1>t DEF Runs, InLifecycle, Inside, Queued
  <2>3. CASE m = l
    BY <2>1, <2>2, <2>3, <1>H, <1>W
  <2>4. CASE m # l
    BY <2>1, <2>2, <2>4, <1>H
  <2> QED BY <2>3, <2>4
<1>5. Mapped'
  <2>1. \A a, c \in Accounts :
          generations'[a] = generations'[c] /\ generations'[a] # NoLane => a = c
    BY <1>0 DEF IInv, Mapped
  <2>2. ASSUME NEW a \in Accounts, generations'[a] # NoLane
        PROVE  \E k \in Jobs : at'[k] \in AtGeneration /\ Account(k)' = a
    <3>1. PICK k \in Jobs : at[k] \in AtGeneration /\ Account(k) = a
      BY <2>2, <1>0 DEF IInv, Mapped
    <3>2. CASE k # j
      BY <3>1, <3>2, <1>a
    <3>3. CASE k = j
      <4>1. at[j] = "queued_gen" /\ l = holds[j] /\ l # Lifecycle
        BY <3>1, <3>3, <1>0, <1>L DEF AtGeneration, Queued
      <4>2. PICK h \in Jobs : Runs(h, l)
        BY <1>W, <1>L DEF IInv, OneRunner
      <4>3. at[h] = "gen" /\ holds[h] = l /\ h # j
        BY <4>1, <4>2 DEF Runs
      <4>4. /\ MoreAccounts(h) /\ generations[Account(h)] = l
            /\ MoreAccounts(j) /\ generations[Account(j)] = l
        BY <4>1, <4>3 DEF IInv, Placed, AtGeneration
      <4>5. Account(h) \in Accounts /\ Account(j) \in Accounts /\ l # NoLane
        BY <4>1, <4>4, <1>T, AccountOfPlan DEF IInv
      <4>6. Account(h) = Account(j)
        BY <4>4, <4>5 DEF IInv, Mapped
      <4> QED BY <3>1, <3>3, <4>3, <4>6, <1>a DEF AtGeneration
    <3> QED BY <3>2, <3>3
  <2> QED BY <2>1, <2>2 DEF Mapped
<1>r. q[i] = j /\ RemoveFirst(q, j) = RemoveAt(q, i) /\ j \in ToSet(q)
  <2> HIDE DEF q
  <2> QED BY <1>i, <1>L, <1>q, <1>W, RemoveFirstIsRemoveAt
<1>6. [LifecyclePool!Next]_(LifecyclePool!vars)
  <2>1. \A k \in Jobs : InLifecycle(k)' <=> InLifecycle(k)
    BY <1>0, <1>a, <1>t DEF InLifecycle, Inside, Queued, IInv, Placed
  <2>2. UNCHANGED LifecycleInside
    BY <2>1 DEF LifecycleInside
  <2>3. CASE at[j] = "queued_life"
    <3>1. /\ j \in ToSet(lanes[Lifecycle].queue)
          /\ lanes'[Lifecycle].queue = RemoveFirst(lanes[Lifecycle].queue, j)
      BY <2>3, <1>L, <1>H, <1>r DEF q
    <3> QED BY <2>2, <3>1, SameOperators DEF LifecyclePool!Next, LifecyclePool!GiveUp
  <2>4. CASE at[j] = "queued_gen"
    <3>1. UNCHANGED lanes[Lifecycle].queue
      BY <2>4, <1>L, <1>H DEF AllLanes
    <3> QED BY <2>2, <3>1 DEF LifecyclePool!vars
  <2> QED BY <2>3, <2>4, <1>0 DEF Queued
<1>7. [GenerationPool!Next]_(GenerationPool!vars)
  <2>0. PICK g : g = generations[Pooled]
    OBVIOUS
  <2>1. /\ g # NoLane => g \in AllLanes /\ g # Lifecycle /\ GenerationQueue = lanes[g].queue
        /\ g = NoLane => GenerationQueue = <<>>
    BY <2>0, GenerationLane
  <2>2. \A k \in Jobs : InGeneration(k, Pooled)' <=> InGeneration(k, Pooled)
    BY <1>0, <1>a, <1>t DEF InGeneration, Queued
  <2>3. UNCHANGED GenerationInside
    BY <2>2 DEF GenerationInside
  <2>4. CASE g # NoLane /\ l = g
    <3>1. j \in ToSet(GenerationQueue) /\ GenerationQueue' = RemoveFirst(GenerationQueue, j)
      BY <2>0, <2>1, <2>4, <1>0, <1>H, <1>r DEF GenerationQueue, q
    <3> QED BY <2>3, <3>1, SameOperators DEF GenerationPool!Next, GenerationPool!GiveUp
  <2>5. CASE g = NoLane \/ l # g
    <3>1. UNCHANGED GenerationQueue
      BY <2>0, <2>1, <2>5, <1>0, <1>H DEF GenerationQueue
    <3> QED BY <2>3, <3>1 DEF GenerationPool!vars
  <2> QED BY <2>4, <2>5
<1> QED BY <1>1, <1>2, <1>3, <1>4, <1>5, <1>6, <1>7, <1>d DEF IInv, PoolsMove

------------------------------------------------------------------------------
(* The theorems. *)

\* Steps that change only who has failed or is signalled, or close the door.
LEMMA PoolsStand ==
  ASSUME UNCHANGED <<lanes, generations, step>>,
         \A k \in Jobs : InLifecycle(k)' = InLifecycle(k) /\ (at'[k] = "gen") = (at[k] = "gen")
  PROVE  PoolsMove
<1>1. UNCHANGED LifecycleInside
  BY DEF LifecycleInside
<1>2. UNCHANGED GenerationInside
  BY DEF GenerationInside, InGeneration, Account
<1>3. UNCHANGED GenerationQueue
  BY DEF GenerationQueue
<1> QED BY <1>1, <1>2, <1>3 DEF PoolsMove, LifecyclePool!vars, GenerationPool!vars

\* Every step of the coordinator keeps the invariant and is one of the pools'.
LEMMA NextStep == IInv /\ [Next]_vars => IInv' /\ PoolsMove
<1> SUFFICES ASSUME IInv, [Next]_vars PROVE IInv' /\ PoolsMove
  OBVIOUS
<1>f. ASSUME failed' \subseteq Jobs, signalled' \subseteq Jobs,
             UNCHANGED <<lanes, generations, at, step, holds, stopped, drain>>
      PROVE  IInv' /\ PoolsMove
  BY <1>f, FrameIInv, PoolsStand DEF InLifecycle
<1>1. ASSUME NEW j \in Jobs, JobStep(j) PROVE IInv' /\ PoolsMove
  <2>1. CASE AskGeneration(j)
    BY <2>1, AskGenerationStep
  <2>2. CASE RefuseGeneration(j)
    BY <2>2, <1>f DEF RefuseGeneration, IInv, TypeOK
  <2>3. CASE \E ok \in BOOLEAN : LeaveGeneration(j, ok)
    BY <2>3, LeaveGenerationStep
  <2>4. CASE LeaveLifecycle(j)
    BY <2>4, LeaveLifecycleStep
  <2> QED BY <1>1, <2>1, <2>2, <2>3, <2>4 DEF JobStep
<1>2. ASSUME NEW j \in Jobs, Refuse(j) PROVE IInv' /\ PoolsMove
  <2>1. \A k \in Jobs : InLifecycle(k)' = InLifecycle(k) /\ (at'[k] = "gen") = (at[k] = "gen")
    BY <1>2 DEF Refuse, IInv, TypeOK, InLifecycle, Inside
  <2>2. PoolsMove
    BY <1>2, <2>1, PoolsStand DEF Refuse
  <2> QED BY <1>2, <2>2, RefuseIInv
<1>3. ASSUME NEW j \in Jobs, AskLifecycle(j) PROVE IInv' /\ PoolsMove
  BY <1>3, AskLifecycleStep
<1>4. ASSUME NEW j \in Jobs, AbortQueued(j) PROVE IInv' /\ PoolsMove
  BY <1>4, AbortQueuedStep
<1>5. ASSUME NEW j \in Jobs, AbortElsewhere(j) PROVE IInv' /\ PoolsMove
  BY <1>5, <1>f DEF AbortElsewhere, IInv, TypeOK
<1>6. CASE Close
  <2>1. PoolsMove
    BY <1>6, PoolsStand DEF Close, InLifecycle
  <2> QED BY <1>6, <2>1, CloseIInv
<1>7. CASE UNCHANGED vars
  BY <1>7, <1>f DEF vars, IInv, TypeOK
<1> QED BY <1>1, <1>2, <1>3, <1>4, <1>5, <1>6, <1>7 DEF Next

\* The inductive invariant, the type invariant with it.
THEOREM CoordinatorCorrect == Spec => []IInv
BY InitIInv, NextStep, PTL DEF Spec

\* One job at a time is inside the lifecycle lane, and one at a time works on an
\* account's credential: AccountCoordinator never admits a second job to a lane,
\* and never has two lanes for one account.
THEOREM Excludes == Spec => []MutualExclusion
<1>1. IInv => MutualExclusion
  <2> SUFFICES ASSUME IInv, NEW j \in Jobs, NEW k \in Jobs, j # k
               PROVE  /\ ~(InLifecycle(j) /\ InLifecycle(k))
                      /\ \A a \in Accounts : ~(InGeneration(j, a) /\ InGeneration(k, a))
    BY DEF MutualExclusion
  <2>1. ~(InLifecycle(j) /\ InLifecycle(k))
    BY DEF IInv, OneRunner, Runs, AllLanes
  <2>2. ASSUME NEW a \in Accounts, InGeneration(j, a), InGeneration(k, a) PROVE FALSE
    <3>1. holds[j] = generations[a] /\ holds[k] = generations[a]
      BY <2>2 DEF InGeneration, IInv, Placed, AtGeneration
    <3>2. holds[j] # NoLane /\ holds[j] \in LaneIds \cup {NoLane}
      BY <2>2 DEF InGeneration, IInv, TypeOK
    <3>3. holds[j] \in AllLanes /\ holds[j] # Lifecycle
      BY <3>2, LanesAssumption DEF AllLanes
    <3>4. Runs(j, holds[j]) /\ Runs(k, holds[j])
      BY <2>2, <3>1, <3>3 DEF InGeneration, Runs
    <3> QED BY <3>3, <3>4 DEF IInv, OneRunner
  <2> QED BY <2>1, <2>2
<1> QED BY <1>1, CoordinatorCorrect, PTL

\* The queues hold exactly those who wait and the map exactly the lanes somebody
\* is in, whatever is aborted, refused or thrown.
THEOREM NoLaneForgotten == Spec => []LanesMatchJobs
<1>1. IInv => LanesMatchJobs
  <2> SUFFICES ASSUME IInv PROVE LanesMatchJobs
    OBVIOUS
  <2>1. \A l \in AllLanes :
          /\ IsInjective(lanes[l].queue)
          /\ ToSet(lanes[l].queue) =
               {j \in Jobs : at[j] \in {"queued_life", "queued_gen"} /\ LaneOf(j) = l}
    BY DEF IInv, QueuesMatch, Waiting, Queued
  <2>2. ASSUME NEW a \in Accounts, NEW j \in Jobs,
               at[j] \in {"queued_gen", "gen"}, Account(j) = a
        PROVE  generations[a] # NoLane
    BY <2>2 DEF IInv, Placed, TypeOK, AtGeneration
  <2>3. ASSUME NEW a \in Accounts, generations[a] # NoLane
        PROVE  \E j \in Jobs : at[j] \in {"queued_gen", "gen"} /\ Account(j) = a
    BY <2>3 DEF IInv, Mapped, AtGeneration
  <2> QED BY <2>1, <2>2, <2>3 DEF LanesMatchJobs
<1> QED BY <1>1, CoordinatorCorrect, PTL

\* When close() has returned, no account operation runs or waits.
THEOREM DrainIsFinal == Spec => []DrainedIsQuiet
<1>1. IInv => DrainedIsQuiet
  BY IdleIsQuiet DEF DrainedIsQuiet, IInv, Drained
<1> QED BY <1>1, CoordinatorCorrect, PTL

\* The lifecycle lane is a FIFO pool with one permit, and so are the lane objects
\* that an account has one after the other: whoever asks waits its turn, and no
\* lane that is dropped or created lets anybody overtake.
THEOREM LanesArePools == Spec => LanesAreFair
<1>1. Init => LifecyclePool!Init /\ GenerationPool!Init
  BY PooledAssumption DEF Init, LifecyclePool!Init, GenerationPool!Init, AllLanes, GenerationQueue,
     LifecycleInside, InLifecycle, Inside, GenerationInside, InGeneration
<1> QED BY <1>1, NextStep, CoordinatorCorrect, PTL
        DEF Spec, LanesAreFair, PoolsMove, LifecyclePool!Spec, GenerationPool!Spec

================================================================================
