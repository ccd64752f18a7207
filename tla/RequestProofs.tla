---------------------------- MODULE RequestProofs ----------------------------
(***************************************************************************)
(* Proofs about the way of a request: the gate that admits it and the      *)
(* pipeline that answers it, for every set of requests, configurations,    *)
(* accounts, models and upstreams.                                         *)
(*                                                                         *)
(* The gate.  The inductive invariant IInv joins the type invariant, the   *)
(* agreement of the queue with the requests that wait, the accounting of   *)
(* permits and the bound that makes lost wakeups impossible.  Each part    *)
(* needs another: release() keeps NoIdleWaiting because the head of the    *)
(* queue is a request that waits, and because active is not zero while one *)
(* holds.                                                                  *)
(*                                                                         *)
(* The pipeline.  The inductive invariant PipelineInv says of the stored   *)
(* history that it tells of responses that were made, and of a request in  *)
(* preparation how much of what it builds on has been compared with what   *)
(* it is bound to: a step later in the preparation compares one thing      *)
(* more, so that nothing is left to compare when the request is sent.      *)
(***************************************************************************)
EXTENDS Admission, RequestPipeline, QueueLemmas, FiniteSetTheorems, TLAPS

IInv == TypeOK /\ QueueMatchesWaiting /\ PermitAccounting /\ NoIdleWaiting

\* The sets of requests that the cardinalities count are finite.
LEMMA FiniteSets ==
  /\ IsFiniteSet(Woken) /\ IsFiniteSet(Holding)
  /\ Cardinality(Woken) \in Nat /\ Cardinality(Holding) \in Nat
<1>1. Woken \in SUBSET Requests /\ Holding \in SUBSET Requests
  BY DEF Woken, Holding
<1> QED BY <1>1, RequestsAssumption, FS_Subset, FS_CardinalityType

\* Limits are numbers.
LEMMA LimitsAreNaturals ==
  ASSUME NEW l \in Limits
  PROVE  l.activeMax \in Nat /\ l.queueMax \in Nat
BY LimitsAssumption

\* The gate starts with no permit out.
LEMMA InitIInv == Init => IInv
<1> SUFFICES ASSUME Init PROVE IInv
  OBVIOUS
<1>1. Waiting = {} /\ Woken = {} /\ Holding = {}
  BY DEF Init, Waiting, Woken, Holding
<1>2. TypeOK
  BY EmptyQueue DEF Init, TypeOK, Phases
<1>3. QueueMatchesWaiting
  BY <1>1, EmptyQueue DEF Init, QueueMatchesWaiting
<1>4. PermitAccounting
  BY <1>1, FS_EmptySet DEF Init, PermitAccounting
<1>5. NoIdleWaiting
  BY <1>1 DEF NoIdleWaiting
<1> QED BY <1>2, <1>3, <1>4, <1>5 DEF IInv

\* A step that leaves active, the queue and the three sets of requests alone
\* keeps the accounting.
LEMMA QuietStep ==
  ASSUME IInv, TypeOK', UNCHANGED <<active, waiters>>,
         Waiting' = Waiting, Woken' = Woken, Holding' = Holding,
         \A r \in Waiting : snapshot'[r] = snapshot[r]
  PROVE  IInv'
<1>1. Waiting \subseteq Requests
  BY DEF Waiting
<1>2. QueueMatchesWaiting'
  BY DEF IInv, QueueMatchesWaiting
<1>3. PermitAccounting'
  BY DEF IInv, PermitAccounting
<1>4. NoIdleWaiting'
  BY DEF IInv, NoIdleWaiting
<1> QED BY <1>2, <1>3, <1>4 DEF IInv

\* A request that leaves the queue without a permit.
LEMMA LeaveQueue ==
  ASSUME IInv, NEW r \in Requests, NEW outcome \in {"aborted", "queue_timeout"},
         \E i \in 1..Len(waiters) :
            waiters[i] = r /\ waiters' = RemoveAt(waiters, i),
         phase' = [phase EXCEPT ![r] = outcome],
         signalled' \subseteq Requests,
         UNCHANGED <<limits, active, closed, snapshot>>
  PROVE  IInv'
<1>1. PICK i \in 1..Len(waiters) :
        waiters[i] = r /\ waiters' = RemoveAt(waiters, i)
  OBVIOUS
<1>2. /\ waiters' \in Seq(Requests)
      /\ ToSet(waiters') = ToSet(waiters) \ {r}
      /\ IsInjective(waiters')
  BY <1>1, RemoveAtQueue DEF IInv, TypeOK, QueueMatchesWaiting
<1>3. r \in Waiting
  <2>1. r \in ToSet(waiters)
    BY <1>1, LenProperties DEF IInv, TypeOK, ToSet
  <2> QED BY <2>1 DEF IInv, QueueMatchesWaiting
<1>4. TypeOK'
  BY <1>2 DEF IInv, TypeOK, Phases
<1>5. Waiting' = Waiting \ {r} /\ Woken' = Woken /\ Holding' = Holding
  BY <1>3 DEF IInv, TypeOK, Waiting, Woken, Holding
<1>6. QueueMatchesWaiting'
  BY <1>2, <1>5 DEF IInv, QueueMatchesWaiting
<1>7. PermitAccounting'
  BY <1>5 DEF IInv, PermitAccounting
<1>8. NoIdleWaiting'
  BY <1>5 DEF IInv, NoIdleWaiting
<1> QED BY <1>4, <1>6, <1>7, <1>8 DEF IInv

\* A request is counted: it takes a free permit, or claims the one it was
\* woken for.
LEMMA CountOne ==
  ASSUME IInv, NEW r \in Requests, phase[r] \in {"idle", "woken"},
         phase[r] = "idle" => snapshot' = [snapshot EXCEPT ![r] = limits],
         phase[r] = "woken" => UNCHANGED snapshot,
         active' = active + 1,
         phase' = [phase EXCEPT ![r] = "holding"],
         UNCHANGED <<limits, closed, waiters, signalled>>
  PROVE  /\ IInv'
         /\ Woken' = Woken \ {r}
<1>1. TypeOK'
  BY DEF IInv, TypeOK, Phases
<1>2. /\ Waiting' = Waiting /\ r \notin Waiting
      /\ Woken' = Woken \ {r}
      /\ Holding' = Holding \cup {r} /\ r \notin Holding
  BY DEF IInv, TypeOK, Waiting, Woken, Holding
<1>3. QueueMatchesWaiting'
  BY <1>2 DEF IInv, QueueMatchesWaiting
<1>4. PermitAccounting'
  BY <1>2, FiniteSets, FS_AddElement DEF IInv, PermitAccounting
<1>5. active + Cardinality(Woken) <= active' + Cardinality(Woken')
  <2>1. Cardinality(Woken \ {r}) = IF r \in Woken THEN Cardinality(Woken) - 1
                                   ELSE Cardinality(Woken)
    BY FiniteSets, FS_RemoveElement
  <2>2. CASE r \in Woken
    BY <2>1, <2>2, <1>2, FiniteSets DEF IInv, TypeOK
  <2>3. CASE r \notin Woken
    BY <2>1, <2>3, <1>2, FiniteSets DEF IInv, TypeOK
  <2> QED BY <2>2, <2>3
<1>6. NoIdleWaiting'
  <2> SUFFICES ASSUME NEW q \in Waiting'
               PROVE  snapshot'[q].activeMax <= active' + Cardinality(Woken')
    BY DEF NoIdleWaiting
  <2>1. q \in Waiting /\ q # r /\ q \in Requests
    BY <1>2 DEF Waiting
  <2>2. snapshot'[q] = snapshot[q] /\ snapshot[q] \in Limits
    BY <2>1 DEF IInv, TypeOK
  <2>3. snapshot[q].activeMax <= active + Cardinality(Woken)
    BY <2>1 DEF IInv, NoIdleWaiting
  <2>4. Cardinality(Woken') \in Nat
    BY <1>2, FiniteSets, FS_RemoveElement, FS_CardinalityType
  <2> QED BY <2>2, <2>3, <2>4, <1>5, LimitsAreNaturals, FiniteSets
          DEF IInv, TypeOK
<1> QED BY <1>1, <1>2, <1>3, <1>4, <1>6 DEF IInv

\* release(): a permit goes back or to the head of the queue.
LEMMA ReleaseStep ==
  ASSUME IInv, NEW r \in Requests, Release(r)
  PROVE  IInv'
<1>1. r \in Holding /\ active = Cardinality(Holding) /\ active \in Nat
  BY DEF IInv, TypeOK, PermitAccounting, Release, Holding
<1>2. Cardinality(Holding \ {r}) = active - 1
  BY <1>1, FiniteSets, FS_RemoveElement
<1>3. active' = active - 1 /\ active' \in Nat
  <2>1. Cardinality(Holding \ {r}) \in Nat
    BY FiniteSets, FS_RemoveElement, FS_CardinalityType
  <2> QED BY <1>1, <1>2, <2>1 DEF Release
<1>4. CASE waiters = <<>>
  <2>1. phase' = [phase EXCEPT ![r] = "done"] /\ waiters' = waiters
    BY <1>4 DEF Release
  <2>2. TypeOK'
    BY <1>3, <2>1 DEF IInv, TypeOK, Phases, Release
  <2>3. Waiting' = Waiting /\ Woken' = Woken /\ Holding' = Holding \ {r}
    BY <1>1, <2>1 DEF IInv, TypeOK, Waiting, Woken, Holding
  <2>4. Waiting = {}
    BY <1>4, EmptyQueue DEF IInv, QueueMatchesWaiting
  <2>5. QueueMatchesWaiting'
    BY <2>1, <2>3 DEF IInv, QueueMatchesWaiting
  <2>6. PermitAccounting'
    BY <1>2, <1>3, <2>3 DEF PermitAccounting
  <2>7. NoIdleWaiting'
    BY <2>3, <2>4 DEF NoIdleWaiting
  <2> QED BY <2>2, <2>5, <2>6, <2>7 DEF IInv
<1>5. CASE waiters # <<>>
  <2> DEFINE h == Head(waiters)
  <2>1. /\ h \in ToSet(waiters) /\ h \in Requests
        /\ waiters' = Tail(waiters) /\ waiters' \in Seq(Requests)
        /\ ToSet(waiters') = ToSet(waiters) \ {h} /\ IsInjective(waiters')
    <3>1. waiters \in Seq(Requests) /\ IsInjective(waiters)
      BY DEF IInv, TypeOK, QueueMatchesWaiting
    <3>2. waiters' = Tail(waiters)
      BY <1>5 DEF Release
    <3> QED BY <1>5, <3>1, <3>2, TailQueue
  <2>2. h \in Waiting /\ h # r
    BY <2>1, <1>1 DEF IInv, QueueMatchesWaiting, Waiting, Holding
  <2>3. phase' = [phase EXCEPT ![r] = "done", ![h] = "woken"]
    BY <1>5 DEF Release
  <2> HIDE DEF h
  <2>4. TypeOK'
    BY <1>3, <2>1, <2>3 DEF IInv, TypeOK, Phases, Release
  <2>5. /\ Waiting' = Waiting \ {h}
        /\ Woken' = Woken \cup {h} /\ h \notin Woken
        /\ Holding' = Holding \ {r}
    BY <1>1, <2>1, <2>2, <2>3 DEF IInv, TypeOK, Waiting, Woken, Holding
  <2>6. Cardinality(Woken') = Cardinality(Woken) + 1
    BY <2>5, FiniteSets, FS_AddElement
  <2>7. QueueMatchesWaiting'
    BY <2>1, <2>5 DEF IInv, QueueMatchesWaiting
  <2>8. PermitAccounting'
    BY <1>2, <1>3, <2>5 DEF PermitAccounting
  <2>9. active' + Cardinality(Woken') = active + Cardinality(Woken)
    BY <1>1, <1>3, <2>6, FiniteSets
  <2>10. NoIdleWaiting'
    BY <2>5, <2>9 DEF IInv, NoIdleWaiting, Release
  <2> QED BY <2>4, <2>7, <2>8, <2>10 DEF IInv
<1> QED BY <1>4, <1>5

\* Every step keeps IInv.
LEMMA NextIInv == IInv /\ [Next]_vars => IInv'
<1> SUFFICES ASSUME IInv, [Next]_vars PROVE IInv'
  OBVIOUS
<1>1. ASSUME NEW r \in Requests, AcquireRefused(r) PROVE IInv'
  <2>1. TypeOK'
    BY <1>1 DEF IInv, TypeOK, Phases, AcquireRefused, Arrives
  <2>2. Waiting' = Waiting /\ Woken' = Woken /\ Holding' = Holding /\ r \notin Waiting
    BY <1>1 DEF IInv, TypeOK, AcquireRefused, Arrives, Waiting, Woken, Holding
  <2> QED BY <1>1, <2>1, <2>2, QuietStep
          DEF AcquireRefused, Arrives, IInv, TypeOK, Waiting
<1>2. ASSUME NEW r \in Requests, AcquireNow(r) PROVE IInv'
  BY <1>2, CountOne DEF AcquireNow, Arrives
<1>3. ASSUME NEW r \in Requests, AcquireQueueFull(r) PROVE IInv'
  <2>1. TypeOK'
    BY <1>3 DEF IInv, TypeOK, Phases, AcquireQueueFull, Arrives
  <2>2. Waiting' = Waiting /\ Woken' = Woken /\ Holding' = Holding /\ r \notin Waiting
    BY <1>3 DEF IInv, TypeOK, AcquireQueueFull, Arrives, Waiting, Woken, Holding
  <2> QED BY <1>3, <2>1, <2>2, QuietStep
          DEF AcquireQueueFull, Arrives, IInv, TypeOK, Waiting
<1>4. ASSUME NEW r \in Requests, AcquireWait(r) PROVE IInv'
  <2>1. r \notin Waiting /\ r \notin ToSet(waiters)
    BY <1>4 DEF AcquireWait, Arrives, Waiting, IInv, QueueMatchesWaiting
  <2>2. /\ waiters' \in Seq(Requests)
        /\ ToSet(waiters') = ToSet(waiters) \cup {r}
        /\ IsInjective(waiters')
    BY <1>4, <2>1, AppendQueue DEF AcquireWait, IInv, TypeOK, QueueMatchesWaiting
  <2>3. TypeOK'
    BY <1>4, <2>2 DEF AcquireWait, Arrives, IInv, TypeOK, Phases
  <2>4. Waiting' = Waiting \cup {r} /\ Woken' = Woken /\ Holding' = Holding
    BY <1>4 DEF AcquireWait, Arrives, IInv, TypeOK, Waiting, Woken, Holding
  <2>5. QueueMatchesWaiting'
    BY <2>2, <2>4 DEF IInv, QueueMatchesWaiting
  <2>6. PermitAccounting'
    BY <1>4, <2>4 DEF AcquireWait, IInv, PermitAccounting
  <2>7. snapshot'[r].activeMax <= active + Cardinality(Woken)
    <3>1. snapshot'[r] = limits /\ active >= limits.activeMax
      BY <1>4 DEF AcquireWait, Arrives, IInv, TypeOK
    <3>2. limits \in Limits /\ active \in Nat
      BY DEF IInv, TypeOK
    <3> QED BY <3>1, <3>2, LimitsAreNaturals, FiniteSets
  <2>8. NoIdleWaiting'
    BY <1>4, <2>4, <2>7 DEF AcquireWait, Arrives, IInv, TypeOK, NoIdleWaiting, Waiting
  <2> QED BY <2>3, <2>5, <2>6, <2>8 DEF IInv
<1>5. ASSUME NEW r \in Requests, Resume(r) PROVE IInv'
  BY <1>5, CountOne DEF Resume
<1>6. ASSUME NEW r \in Requests, Release(r) PROVE IInv'
  BY <1>6, ReleaseStep
<1>7. ASSUME NEW r \in Requests, QueueTimeout(r) PROVE IInv'
  BY <1>7, LeaveQueue DEF QueueTimeout, IInv, TypeOK
<1>8. ASSUME NEW r \in Requests, AbortQueued(r) PROVE IInv'
  BY <1>8, LeaveQueue DEF AbortQueued, IInv, TypeOK
<1>9. ASSUME NEW r \in Requests, AbortElsewhere(r) PROVE IInv'
  <2>1. TypeOK'
    BY <1>9 DEF AbortElsewhere, IInv, TypeOK
  <2> QED BY <1>9, <2>1, QuietStep DEF AbortElsewhere, Waiting, Woken, Holding
<1>10. CASE Close
  <2>1. TypeOK'
    BY <1>10, EmptyQueue DEF Close, IInv, TypeOK, Phases
  <2>2. Waiting' = {} /\ Woken' = Woken /\ Holding' = Holding
    BY <1>10 DEF Close, IInv, TypeOK, Waiting, Woken, Holding
  <2>3. QueueMatchesWaiting'
    BY <1>10, <2>2, EmptyQueue DEF Close, QueueMatchesWaiting
  <2>4. PermitAccounting' /\ NoIdleWaiting'
    BY <1>10, <2>2 DEF Close, IInv, PermitAccounting, NoIdleWaiting
  <2> QED BY <2>1, <2>3, <2>4 DEF IInv
<1>11. ASSUME NEW l \in Limits, Reconfigure(l) PROVE IInv'
  <2>1. TypeOK'
    BY <1>11 DEF Reconfigure, IInv, TypeOK
  <2> QED BY <1>11, <2>1, QuietStep DEF Reconfigure, Waiting, Woken, Holding
<1>12. CASE UNCHANGED vars
  <2>1. TypeOK'
    BY <1>12 DEF vars, IInv, TypeOK
  <2> QED BY <1>12, <2>1, QuietStep DEF vars, Waiting, Woken, Holding
<1> QED BY <1>1, <1>2, <1>3, <1>4, <1>5, <1>6, <1>7, <1>8, <1>9, <1>10, <1>11,
           <1>12 DEF Next, RequestStep

\* IInv holds in every behaviour.
THEOREM Correct == Spec => []IInv
BY InitIInv, NextIInv, PTL DEF Spec

\* The variables keep their types, and active its accounting: for every set of
\* requests, active counts exactly the requests that hold a permit.
THEOREM PermitsAccounted == Spec => [](TypeOK /\ PermitAccounting)
<1>1. IInv => TypeOK /\ PermitAccounting
  BY DEF IInv
<1> QED BY <1>1, Correct, PTL

\* No wakeup is lost: whatever the operator does to the limits and wherever
\* acquire() is called from, a request waits only while the permits of the
\* limit it read are out or promised.
THEOREM NoLostWakeup == Spec => []NoIdleWaiting
<1>1. IInv => NoIdleWaiting
  BY DEF IInv
<1> QED BY <1>1, Correct, PTL

------------------------------------------------------------------------------
\* The permits out and promised grow only when a request is let in at the door.
LEMMA PromisedStep ==
  ASSUME IInv, IInv', [Next]_vars,
         ~ \E r \in Requests : AcquireNow(r)
  PROVE  active' + Cardinality(Woken') <= active + Cardinality(Woken)
<1> DEFINE Bound == active' + Cardinality(Woken') <= active + Cardinality(Woken)
<1>t. active \in Nat /\ active' \in Nat /\ Cardinality(Woken) \in Nat
  BY FiniteSets DEF IInv, TypeOK
<1>1. ASSUME active' = active, Woken' = Woken PROVE Bound
  BY <1>1, <1>t
<1>2. ASSUME NEW r \in Requests, Resume(r) PROVE Bound
  <2>1. Woken' = Woken \ {r} /\ r \in Woken
    BY <1>2 DEF Resume, IInv, TypeOK, Woken
  <2>2. Cardinality(Woken') = Cardinality(Woken) - 1
    BY <2>1, FiniteSets, FS_RemoveElement
  <2> QED BY <1>2, <2>2, <1>t DEF Resume
<1>3. ASSUME NEW r \in Requests, Release(r) PROVE Bound
  <2>1. r \in Holding /\ active = Cardinality(Holding)
    BY <1>3 DEF IInv, PermitAccounting, Release, Holding
  <2>2. active # 0
    BY <2>1, FiniteSets, FS_EmptySet
  <2>3. active' = active - 1
    BY <1>3, <2>2 DEF Release
  <2>4. CASE waiters = <<>>
    <3>1. Woken' = Woken
      BY <1>3, <2>4 DEF Release, IInv, TypeOK, Woken
    <3> QED BY <3>1, <2>3, <1>t
  <2>5. CASE waiters # <<>>
    <3> DEFINE h == Head(waiters)
    <3>1. h \in Requests
      BY <2>5, HeadTailProperties DEF IInv, TypeOK
    <3>2. phase' = [phase EXCEPT ![r] = "done", ![h] = "woken"]
      BY <1>3, <2>5 DEF Release
    <3> HIDE DEF h
    <3>3. Woken' \subseteq Woken \cup {h}
      BY <3>1, <3>2 DEF IInv, TypeOK, Woken
    <3>4. /\ IsFiniteSet(Woken \cup {h})
          /\ Cardinality(Woken \cup {h}) <= Cardinality(Woken) + 1
          /\ Cardinality(Woken \cup {h}) \in Nat
      <4>1. /\ IsFiniteSet(Woken \cup {h})
            /\ Cardinality(Woken \cup {h}) = IF h \in Woken THEN Cardinality(Woken)
                                              ELSE Cardinality(Woken) + 1
        BY FiniteSets, FS_AddElement
      <4>2. Cardinality(Woken \cup {h}) \in Nat
        BY <4>1, FS_CardinalityType
      <4> QED BY <4>1, <4>2, FiniteSets
    <3>5. Cardinality(Woken') <= Cardinality(Woken \cup {h}) /\ Cardinality(Woken') \in Nat
      BY <3>3, <3>4, FS_Subset, FS_CardinalityType
    <3> QED BY <2>3, <3>4, <3>5, <1>t
  <2> QED BY <2>4, <2>5
<1> HIDE DEF Bound
<1>4. ASSUME NEW r \in Requests, AcquireRefused(r) PROVE Bound
  BY <1>1, <1>4 DEF AcquireRefused, Arrives, IInv, TypeOK, Woken
<1>5. ASSUME NEW r \in Requests, AcquireQueueFull(r) PROVE Bound
  BY <1>1, <1>5 DEF AcquireQueueFull, Arrives, IInv, TypeOK, Woken
<1>6. ASSUME NEW r \in Requests, AcquireWait(r) PROVE Bound
  BY <1>1, <1>6 DEF AcquireWait, Arrives, IInv, TypeOK, Woken
<1>7. ASSUME NEW r \in Requests, QueueTimeout(r) \/ AbortQueued(r) PROVE Bound
  <2>1. r \in Waiting
    <3>1. r \in ToSet(waiters)
      BY <1>7, LenProperties DEF QueueTimeout, AbortQueued, IInv, TypeOK, ToSet
    <3> QED BY <3>1 DEF IInv, QueueMatchesWaiting
  <2> QED BY <1>1, <1>7, <2>1 DEF QueueTimeout, AbortQueued, IInv, TypeOK, Woken, Waiting
<1>8. ASSUME NEW r \in Requests, AbortElsewhere(r) PROVE Bound
  BY <1>1, <1>8 DEF AbortElsewhere, Woken
<1>9. ASSUME Close PROVE Bound
  BY <1>1, <1>9 DEF Close, IInv, TypeOK, Woken
<1>10. ASSUME NEW l \in Limits, Reconfigure(l) PROVE Bound
  BY <1>1, <1>10 DEF Reconfigure, Woken
<1>11. ASSUME UNCHANGED vars PROVE Bound
  BY <1>1, <1>11 DEF vars, Woken
<1>12. Bound
  BY <1>2, <1>3, <1>4, <1>5, <1>6, <1>7, <1>8, <1>9, <1>10, <1>11
     DEF Next, RequestStep
<1> QED BY <1>12 DEF Bound

\* Under one configuration, with arrivals from the listener, the requests in
\* the inference path never exceed activeMax.
THEOREM CapacityHolds ==
  ASSUME NEW l, Limits = {l}, MicrotaskArrivals = FALSE
  PROVE  Spec => []Capacity
<1>1. Init => Capacity
  <2> SUFFICES ASSUME Init PROVE 0 + Cardinality(Woken) <= l.activeMax
    BY DEF Init, Capacity
  <2>1. Woken = {}
    BY DEF Init, Woken
  <2> QED BY <2>1, FS_EmptySet, LimitsAreNaturals
<1>2. IInv /\ IInv' /\ Capacity /\ [Next]_vars => Capacity'
  <2> SUFFICES ASSUME IInv, IInv', Capacity, [Next]_vars
               PROVE  active' + Cardinality(Woken') <= l.activeMax
    BY DEF Capacity
  <2>t. active \in Nat /\ active' \in Nat /\ Cardinality(Woken) \in Nat
        /\ l.activeMax \in Nat
    BY FiniteSets, LimitsAreNaturals DEF IInv, TypeOK
  <2>1. CASE \E r \in Requests : AcquireNow(r)
    <3>1. PICK r \in Requests : AcquireNow(r)
      BY <2>1
    <3>2. Woken = {} /\ Woken' = {}
      BY <3>1 DEF AcquireNow, Arrives, IInv, TypeOK, Woken
    <3>3. active' = active + 1 /\ active < l.activeMax
      BY <3>1 DEF AcquireNow, IInv, TypeOK
    <3> QED BY <3>2, <3>3, <2>t, FS_EmptySet
  <2>2. CASE ~ \E r \in Requests : AcquireNow(r)
    <3>1. Cardinality(Woken') \in Nat
      <4>1. Woken' \subseteq Requests
        BY DEF Woken
      <4> QED BY <4>1, RequestsAssumption, FS_Subset, FS_CardinalityType
    <3> QED BY <2>2, <2>t, <3>1, PromisedStep DEF Capacity
  <2> QED BY <2>1, <2>2
<1> QED BY <1>1, <1>2, Correct, PTL DEF Spec

\* A request is let in at the door only when nobody waits: if somebody did, the
\* permits it waits for would all be out.
LEMMA DoorMeansEmpty ==
  ASSUME NEW l, Limits = {l}, MicrotaskArrivals = FALSE, IInv,
         NEW r \in Requests, AcquireNow(r)
  PROVE  waiters = <<>> /\ Woken = {} /\ active < l.activeMax
<1>1. Woken = {} /\ active < l.activeMax
  BY DEF AcquireNow, Arrives, IInv, TypeOK
<1>2. Cardinality(Woken) = 0 /\ active \in Nat /\ l.activeMax \in Nat
  BY <1>1, FS_EmptySet, LimitsAreNaturals DEF IInv, TypeOK
<1>3. \A q \in Waiting : l.activeMax <= active
  <2>1. \A q \in Waiting : snapshot[q] = l
    BY DEF IInv, TypeOK, Waiting
  <2> QED BY <2>1, <1>2 DEF IInv, NoIdleWaiting
<1>4. Waiting = {}
  BY <1>1, <1>2, <1>3
<1> QED BY <1>1, <1>4, NonEmptyQueue DEF IInv, TypeOK, QueueMatchesWaiting

\* Under the same conditions nobody is let in at the door past a queue.
THEOREM NobodyOvertakes ==
  ASSUME NEW l, Limits = {l}, MicrotaskArrivals = FALSE
  PROVE  Spec => NoOvertaking
<1>1. IInv /\ [Next]_vars =>
        [\A r \in Requests :
           phase[r] = "idle" /\ phase'[r] = "holding" => waiters = <<>>]_vars
  <2> SUFFICES ASSUME IInv, [Next]_vars, NEW r \in Requests,
                      phase[r] = "idle", phase'[r] = "holding"
               PROVE  waiters = <<>>
    OBVIOUS
  <2>1. AcquireNow(r)
    <3>1. ASSUME NEW q \in Requests, RequestStep(q), ~AcquireNow(q) PROVE FALSE
      <4>1. CASE Release(q)
        <5>1. CASE waiters = <<>>
          BY <4>1, <5>1 DEF Release, IInv, TypeOK
        <5>2. CASE waiters # <<>>
          BY <4>1, <5>2, HeadTailProperties DEF Release, IInv, TypeOK
        <5> QED BY <5>1, <5>2
      <4>2. CASE ~Release(q)
        BY <3>1, <4>2 DEF RequestStep, AcquireRefused, AcquireQueueFull, AcquireWait,
             Arrives, Resume, QueueTimeout, AbortQueued, AbortElsewhere, IInv, TypeOK
      <4> QED BY <4>1, <4>2
    <3>2. ASSUME NEW q \in Requests, AcquireNow(q), q # r PROVE FALSE
      BY <3>2 DEF AcquireNow, Arrives, IInv, TypeOK
    <3>3. ~Close
      BY DEF Close, IInv, TypeOK
    <3>4. ~(\E m \in Limits : Reconfigure(m)) /\ ~(UNCHANGED vars)
      BY DEF Reconfigure, vars
    <3> QED BY <3>1, <3>2, <3>3, <3>4 DEF Next
  <2> QED BY <2>1, DoorMeansEmpty
<1> QED BY <1>1, Correct, PTL DEF Spec, NoOvertaking

------------------------------------------------------------------------------
(* The gate is the abstract pool. *)

\* The operators on sets and sequences that PermitPool uses are the ones used here.
LEMMA SameOperators ==
  /\ \A S : Pool!Cardinality(S) = Cardinality(S)
  /\ \A q : Pool!ToSet(q) = ToSet(q)
  /\ \A q, x : Pool!RemoveFirst(q, x) = RemoveFirst(q, x)
<1>1. \A S : Pool!Cardinality(S) = Cardinality(S)
  BY DEF Pool!Cardinality, Cardinality
<1>2. \A q : Pool!ToSet(q) = ToSet(q)
  BY DEF Pool!ToSet, ToSet
<1>3. \A q, x : Pool!RemoveFirst(q, x) = RemoveFirst(q, x)
  BY DEF Pool!RemoveFirst, RemoveFirst, Pool!RemoveAt, RemoveAt,
     Pool!SelectInSeq, SelectInSeq, Pool!Min, Min
<1> QED BY <1>1, <1>2, <1>3

PoolMoves == [Pool!Next]_(Pool!vars)

\* A request that leaves the queue gives up.
LEMMA GiveUpMaps ==
  ASSUME IInv, NEW r \in Requests, QueueTimeout(r) \/ AbortQueued(r)
  PROVE  PoolMoves
<1>1. PICK i \in 1..Len(waiters) : waiters[i] = r /\ waiters' = RemoveAt(waiters, i)
  BY DEF QueueTimeout, AbortQueued
<1>2. waiters' = RemoveFirst(waiters, r)
  BY <1>1, RemoveFirstIsRemoveAt DEF IInv, TypeOK, QueueMatchesWaiting
<1>3. r \in ToSet(waiters)
  BY <1>1, LenProperties DEF IInv, TypeOK, ToSet
<1>4. r \in Waiting
  BY <1>3 DEF IInv, QueueMatchesWaiting
<1>5. UNCHANGED (Woken \cup Holding)
  BY <1>4 DEF QueueTimeout, AbortQueued, IInv, TypeOK, Waiting, Woken, Holding
<1> QED BY <1>2, <1>3, <1>5, SameOperators DEF PoolMoves, Pool!Next, Pool!GiveUp

\* release() hands the permit to the head of the queue.
LEMMA ReleaseMaps ==
  ASSUME IInv, NEW r \in Requests, Release(r)
  PROVE  PoolMoves
<1>1. r \in Holding
  BY DEF Release, Holding
<1>2. CASE waiters = <<>>
  <2>1. (Woken \cup Holding)' = (Woken \cup Holding) \ {r} /\ UNCHANGED waiters
    BY <1>2 DEF Release, IInv, TypeOK, Woken, Holding
  <2> QED BY <1>1, <1>2, <2>1 DEF PoolMoves, Pool!Next, Pool!Leave
<1>3. CASE waiters # <<>>
  <2> DEFINE h == Head(waiters)
  <2>1. h \in Waiting /\ h \in Requests
    BY <1>3, TailQueue DEF IInv, TypeOK, QueueMatchesWaiting
  <2>2. phase' = [phase EXCEPT ![r] = "done", ![h] = "woken"] /\ waiters' = Tail(waiters)
    BY <1>3 DEF Release
  <2> HIDE DEF h
  <2>3. (Woken \cup Holding)' = ((Woken \cup Holding) \ {r}) \cup {h}
    BY <1>1, <2>1, <2>2 DEF IInv, TypeOK, Waiting, Woken, Holding
  <2> QED BY <1>1, <1>3, <2>2, <2>3 DEF PoolMoves, Pool!Next, Pool!Leave, h
<1> QED BY <1>2, <1>3

\* A request lets itself in, or queues, at a gate where nobody is on the way.
LEMMA AcquireMaps ==
  ASSUME NEW l, Limits = {l}, MicrotaskArrivals = FALSE, IInv, Capacity,
         NEW r \in Requests, AcquireNow(r) \/ AcquireWait(r)
  PROVE  PoolMoves
<1>1. Woken = {} /\ r \notin Holding /\ r \notin ToSet(waiters) /\ limits = l
  BY DEF AcquireNow, AcquireWait, Arrives, IInv, TypeOK, QueueMatchesWaiting, Waiting, Holding
<1>2. Cardinality(Woken \cup Holding) = active /\ Woken \cup Holding = Holding
  BY <1>1 DEF IInv, PermitAccounting
<1>3. (CHOOSE x \in Limits : TRUE) = l
  OBVIOUS
<1>4. CASE AcquireNow(r)
  <2>1. waiters = <<>> /\ active < l.activeMax
    BY <1>4, DoorMeansEmpty
  <2>2. (Woken \cup Holding)' = (Woken \cup Holding) \cup {r} /\ UNCHANGED waiters
    BY <1>4 DEF AcquireNow, IInv, TypeOK, Woken, Holding
  <2> QED BY <1>1, <1>2, <1>3, <2>1, <2>2, SameOperators DEF PoolMoves, Pool!Next, Pool!Enter
<1>5. CASE AcquireWait(r)
  <2>1. active = l.activeMax
    <3>1. Cardinality(Woken) = 0 /\ active \in Nat /\ l.activeMax \in Nat
      BY <1>1, FS_EmptySet, LimitsAreNaturals DEF IInv, TypeOK
    <3> QED BY <1>1, <1>5, <3>1 DEF AcquireWait, Capacity
  <2>2. UNCHANGED (Woken \cup Holding) /\ waiters' = Append(waiters, r) /\ Len(waiters) < l.queueMax
    BY <1>1, <1>5 DEF AcquireWait, Arrives, IInv, TypeOK, Woken, Holding
  <2> QED BY <1>1, <1>2, <1>3, <2>1, <2>2, SameOperators DEF PoolMoves, Pool!Next, Pool!Wait
<1> QED BY <1>4, <1>5

\* Under one configuration and with arrivals from the listener, the gate
\* implements the pool of PermitPool (admission.ts:32-97): first come, first
\* served, for every number of requests and every limit.
THEOREM GateIsPool ==
  ASSUME NEW l, Limits = {l}, MicrotaskArrivals = FALSE
  PROVE  Spec => ImplementsPool
<1>1. Init => Pool!Init
  BY DEF Init, Pool!Init, Woken, Holding
<1>2. IInv /\ Capacity /\ [Next]_vars => PoolMoves
  <2> SUFFICES ASSUME IInv, Capacity, [Next]_vars PROVE PoolMoves
    OBVIOUS
  <2>s. UNCHANGED <<Woken \cup Holding, waiters>> => PoolMoves
    BY DEF PoolMoves, Pool!vars
  <2>1. ASSUME NEW r \in Requests, RequestStep(r) PROVE PoolMoves
    <3>1. CASE AcquireRefused(r) \/ AcquireQueueFull(r) \/ Resume(r) \/ AbortElsewhere(r)
      BY <3>1, <2>s DEF AcquireRefused, AcquireQueueFull, Arrives, Resume, AbortElsewhere,
                        IInv, TypeOK, Woken, Holding
    <3> QED BY <2>1, <3>1, AcquireMaps, ReleaseMaps, GiveUpMaps DEF RequestStep
  <2>2. CASE Close
    <3>1. UNCHANGED (Woken \cup Holding) /\ waiters' = <<>>
      BY <2>2 DEF Close, IInv, TypeOK, Woken, Holding
    <3> QED BY <3>1, <2>s DEF PoolMoves, Pool!Next, Pool!TurnAway
  <2>3. CASE UNCHANGED vars \/ \E m \in Limits : Reconfigure(m)
    BY <2>3, <2>s DEF vars, Reconfigure, Woken, Holding
  <2> QED BY <2>1, <2>2, <2>3 DEF Next
<1>3. Spec => []Capacity
  BY CapacityHolds
<1> QED BY <1>1, <1>2, <1>3, Correct, PTL DEF Spec, ImplementsPool, Pool!Spec, PoolMoves

------------------------------------------------------------------------------
\* The pipeline.

Places == {"done", "admission", "body", "account", "continuation", "catalogue", "copilot",
           "history", "plan", "upstream", "checkpoint", "answering"}

\* Where the request builds on what is stored, up to the call of the upstream.
Bound == {"continuation", "catalogue", "copilot", "history", "plan", "upstream", "checkpoint"}
Sending == {"upstream", "checkpoint"}
Over == {"done", "answering"}

Spoken == Protocols \cup {"unknown"}
Works == {"live", "timeout", "aborted"}
MaybeAccount == Accounts \cup {Absent}
MaybeModel == Models \cup {Absent}

Carrier == [token : Nat, account : Accounts, model : Models, origin : Origins,
            source : Protocols, wire : Protocols, state : {"partial", "complete"}]
Response == [id : Ids, number : Nat, account : Accounts, model : Models, origin : Origins,
             protocol : Protocols]
Request ==
  [at : Places, wire : Protocols \cup {Absent}, stream : BOOLEAN, asked : MaybeModel,
   previous : Ids \cup {Absent}, tokens : SUBSET Nat,
   work : Works, gone : BOOLEAN, permit : BOOLEAN, timer : BOOLEAN,
   account : MaybeAccount, claim : CarrierBinding \cup {Absent}, receipt : Receipt \cup {Absent},
   requested : MaybeModel, preferred : MaybeModel,
   protocols : SUBSET Spoken, model : MaybeModel,
   origin : Origins \cup {Absent}, restored : BOOLEAN,
   sent : Call \cup {Absent}, created : SUBSET Nat,
   terminal : {"completed", "incomplete", Absent},
   recorded : Outcomes \cup {Absent}, answer : Answers \cup {Absent}]

Stored == store \in [receipts : SUBSET Receipt, carriers : SUBSET Carrier] /\ IsFiniteSet(store.carriers)

PipelineTypeOK ==
  /\ world \in [default : MaybeAccount, origin : [Accounts -> Origins],
                catalogue : [Accounts -> Catalogues], preferred : [Accounts -> Models]]
  /\ Stored
  /\ issued \subseteq Response
  /\ req \in Request
  /\ served \in Nat

\* A request that is cut off is recorded so at once, and a request has no answer
\* before it is over.
Recorded ==
  /\ req.gone => req.work # "live"
  /\ req.at \notin Over =>
       /\ req.answer = Absent
       /\ req.recorded = CASE req.work = "live" -> Absent
                           [] req.work = "timeout" -> "timeout"
                           [] req.work = "aborted" -> "aborted"

\* Carriers wait for their promotion only while their response is being stored.
Created ==
  /\ req.created # {} => req.at = "checkpoint"
  /\ \A c \in store.carriers : c.state = "complete" \/ c.token \in req.created
  /\ req.at = "done" => ~req.permit /\ ~req.timer

\* Each response has a number of its own, that of its request.
Unique ==
  /\ \A i \in issued : i.number = i.id.number /\ i.number <= served
  /\ \A i, j \in issued : i.number = j.number => i = j
Numbered ==
  /\ Unique
  /\ req.at \notin Over \cup {"checkpoint"} => \A i \in issued : i.number < served

\* The stored history tells of responses that were made.
SameResponse(i, r) ==
  i.account = r.account /\ i.model = r.model /\ i.origin = r.origin /\ i.protocol = r.protocol
Known(n, account, model, origin, protocol) ==
  \E i \in issued : /\ i.number = n /\ i.account = account /\ i.model = model
                    /\ i.origin = origin /\ i.protocol = protocol
IsTrue(c) == Known(c.token, c.account, c.model, c.origin, c.source)
IsKept(r) == /\ \E i \in issued : i.id = r.id /\ SameResponse(i, r)
             /\ r.protocol = "responses" => r.id.kind = "native"
HistoryIsTrue ==
  /\ \A c \in store.carriers : IsTrue(c)
  /\ \A r \in store.receipts : IsKept(r)

\* All the carriers of a body are bound to the claim.
Claims(claim, tokens) ==
  \/ claim = Absent /\ tokens = {}
  \/ claim # Absent /\ \A n \in tokens : Known(n, claim.account, claim.model, claim.origin, claim.source)

Prepared ==
  /\ req.previous # Absent => req.wire = "responses"
  /\ \A n \in req.tokens : \E i \in issued : i.number = n
  /\ req.at \in Bound => req.account \in Accounts
  /\ req.at \in {"plan", "upstream", "checkpoint", "history"} => req.model \in Models /\ req.origin \in Origins
  /\ req.at \notin Over => req.wire # Absent
  /\ req.at = "copilot" => req.model \in Models
  /\ req.restored => req.receipt # Absent /\ req.at \notin Over
  /\ req.at \in {"continuation", "history", "checkpoint"} => req.wire = "responses"
  /\ req.receipt # Absent =>
       /\ req.wire = "responses" /\ req.at \in Bound \ {"continuation"}
       /\ IsKept(req.receipt)
       /\ req.receipt.id = req.previous /\ req.receipt.account = req.account
       /\ req.requested = req.receipt.model
       /\ req.at \notin {"catalogue"} => req.model = req.receipt.model
       /\ req.at \notin {"catalogue", "copilot"} => req.origin = req.receipt.origin
  /\ req.at \in {"catalogue", "copilot", "plan"} /\ req.wire # "responses" => Claims(req.claim, req.tokens)

\* What is sent is sent where all that it builds on comes from.
Sent ==
  /\ req.sent # Absent <=> req.at \in Sending
  /\ req.at \in Sending =>
       /\ \A n \in req.tokens : Known(n, req.sent.account, req.sent.model, req.sent.origin, req.sent.protocol)
       /\ req.restored => \E i \in issued : i.id = req.previous /\ SameResponse(i, req.sent)
       /\ req.sent.previous # Absent => req.sent.previous.kind = "native" /\ req.sent.protocol = "responses"
  /\ req.at = "checkpoint" => Identified \in issued

PipelineInv ==
  PipelineTypeOK /\ Recorded /\ AnswerMatchesRecord /\ Created /\ Numbered /\ HistoryIsTrue /\ Prepared /\ Sent

------------------------------------------------------------------------------

\* What Recorded says of a request that is not over, and AnswerMatchesRecord of any.
Untold(r) ==
  /\ r.gone => r.work # "live"
  /\ r.answer = Absent
  /\ r.recorded = CASE r.work = "live" -> Absent
                    [] r.work = "timeout" -> "timeout"
                    [] r.work = "aborted" -> "aborted"

Tells(r, answer) ==
  /\ r.gone => r.work # "live"
  /\ answer = "body" => r.recorded \in {"success", "upstream_error"}
  /\ r.recorded = "success" => answer = "body"
  /\ answer \in FailureKinds => r.recorded \in {FAILURE_POLICY[answer], "aborted"}

Told(r) == Tells(r, r.answer)

\* A request that is over builds on nothing and waits for nothing.
Closed(r) ==
  /\ r \in Request
  /\ r.at \in Over
  /\ r.wire = Absent /\ r.previous = Absent /\ r.tokens = {} /\ r.receipt = Absent
  /\ ~r.restored /\ r.sent = Absent /\ r.created = {}
  /\ r.at = "done" => ~r.permit /\ ~r.timer
  /\ Told(r)

\* No failure counts as a success, and no answer is the answer that is missing.
LEMMA FailuresFail ==
  /\ \A kind \in FailureKinds : FAILURE_POLICY[kind] \in Outcomes /\ FAILURE_POLICY[kind] # "success"
  /\ FAILURE_POLICY.upstream_timeout = "timeout" /\ FAILURE_POLICY.aborted = "aborted"
  /\ "upstream_timeout" \in FailureKinds /\ "aborted" \in FailureKinds
  /\ "body" \notin FailureKinds /\ "stream" \notin FailureKinds /\ "empty" \notin FailureKinds
  /\ "success" \in Outcomes /\ "timeout" \in Outcomes /\ "aborted" \in Outcomes /\ "upstream_error" \in Outcomes
  /\ Absent \notin Outcomes /\ Absent \notin Answers /\ Absent \notin FailureKinds
PROOF
<1>1. \A kind \in FailureKinds : FAILURE_POLICY[kind] \in Outcomes /\ FAILURE_POLICY[kind] # "success"
  BY DEF FailureKinds, FAILURE_POLICY, Outcomes
<1>2. FAILURE_POLICY.upstream_timeout = "timeout" /\ FAILURE_POLICY.aborted = "aborted"
  BY DEF FAILURE_POLICY
<1>3. "upstream_timeout" \in FailureKinds /\ "aborted" \in FailureKinds /\ "upstream_network" \in FailureKinds
  BY DEF FailureKinds, FAILURE_POLICY
<1>4. "body" \notin FailureKinds /\ "stream" \notin FailureKinds /\ "empty" \notin FailureKinds
  BY DEF FailureKinds, FAILURE_POLICY
<1>5. FAILURE_POLICY["upstream_network"] = "upstream_error" /\ FAILURE_POLICY["upstream_timeout"] = "timeout"
      /\ FAILURE_POLICY["aborted"] = "aborted"
  BY DEF FAILURE_POLICY
<1>6. "success" \in Outcomes /\ "timeout" \in Outcomes /\ "aborted" \in Outcomes /\ "upstream_error" \in Outcomes
  BY <1>3, <1>5, <1>1 DEF Outcomes
<1> QED BY <1>1, <1>2, <1>3, <1>4, <1>6, NoAnswerAssumption DEF Answers

LEMMA RecordKeepsFirst ==
  ASSUME NEW r \in Request, NEW outcome \in Outcomes
  PROVE  \E s \in Request :
            /\ s = Record(r, outcome)
            /\ s.recorded = IF r.recorded = Absent THEN outcome ELSE r.recorded
            /\ s.at = r.at /\ s.answer = r.answer
            /\ s.work = r.work /\ s.gone = r.gone /\ s.permit = r.permit /\ s.timer = r.timer
            /\ s = [r EXCEPT !.recorded = s.recorded]
PROOF
<1> PICK s : s = Record(r, outcome)
  OBVIOUS
<1> SUFFICES /\ s \in Request
             /\ s.recorded = IF r.recorded = Absent THEN outcome ELSE r.recorded
             /\ s.at = r.at /\ s.answer = r.answer
             /\ s.work = r.work /\ s.gone = r.gone /\ s.permit = r.permit /\ s.timer = r.timer
             /\ s = [r EXCEPT !.recorded = s.recorded]
  OBVIOUS
<1>1. CASE r.recorded = Absent
  <2>1. s = [r EXCEPT !.recorded = outcome]
    BY <1>1 DEF Record
  <2> QED BY <1>1, <2>1 DEF Request, Places
<1>2. CASE r.recorded # Absent
  <2>1. s = r
    BY <1>2 DEF Record
  <2>2. r = [r EXCEPT !.recorded = r.recorded]
    BY DEF Request
  <2> QED BY <1>2, <2>1, <2>2
<1> QED BY <1>1, <1>2

LEMMA FinishedIsClosed ==
  /\ Closed(FinishedRequest)
  /\ FinishedRequest.at = "done" /\ FinishedRequest.answer = Absent /\ FinishedRequest.recorded = Absent
  /\ FinishedRequest.work = "live" /\ ~FinishedRequest.gone
PROOF
<1>1. FinishedRequest \in Request
  BY DEF FinishedRequest, Request, Places, MaybeAccount, MaybeModel, Works
<1>2. /\ FinishedRequest.at = "done" /\ FinishedRequest.wire = Absent /\ FinishedRequest.previous = Absent
      /\ FinishedRequest.tokens = {} /\ FinishedRequest.receipt = Absent /\ ~FinishedRequest.restored
      /\ FinishedRequest.sent = Absent /\ FinishedRequest.created = {}
      /\ ~FinishedRequest.permit /\ ~FinishedRequest.timer
      /\ FinishedRequest.answer = Absent /\ FinishedRequest.recorded = Absent
      /\ FinishedRequest.work = "live" /\ ~FinishedRequest.gone
  BY DEF FinishedRequest
<1>3. Absent # "body" /\ Absent # "success"
  BY FailuresFail DEF Answers
<1>4. Told(FinishedRequest)
  BY <1>2, <1>3, FailuresFail DEF Told, Tells
<1> QED BY <1>1, <1>2, <1>4 DEF Closed, Over

\* An answer closes the request.
LEMMA AnswerCloses ==
  ASSUME NEW r \in Request, NEW answer \in Answers, Tells(r, answer)
  PROVE  Closed(Answered(r, answer))
PROOF
<1>1. PICK s : s = Answered(r, answer)
  OBVIOUS
<1> DEFINE Empty(f) == /\ f.wire = Absent /\ f.previous = Absent /\ f.tokens = {} /\ f.receipt = Absent
                       /\ ~f.restored /\ f.sent = Absent /\ f.created = {}
<1>0. PICK f \in Request : f = FinishedRequest /\ Empty(f) /\ f.at = "done" /\ ~f.permit /\ ~f.timer
                           /\ ~f.gone
  BY FinishedIsClosed DEF Closed, FinishedRequest
<1>2. r.recorded \in Outcomes \cup {Absent} /\ r.work \in Works
      /\ r.gone \in BOOLEAN /\ r.permit \in BOOLEAN /\ r.timer \in BOOLEAN
  BY DEF Request
<1>3. CASE answer = "empty"
  <2>1. s = [FinishedRequest EXCEPT !.recorded = r.recorded, !.answer = answer]
    BY <1>1, <1>3 DEF Answered, Cleaned
  <2>2. /\ s \in Request /\ s.at = "done" /\ Empty(s) /\ ~s.permit /\ ~s.timer
        /\ s.recorded = r.recorded /\ s.answer = answer /\ ~s.gone
    BY <2>1, <1>2, <1>0, ZenonT(60) DEF Request
  <2>3. Told(s)
    BY <2>2 DEF Told, Tells
  <2> QED BY <1>1, <2>2, <2>3 DEF Closed, Over
<1>4. CASE answer # "empty"
  <2>1. s = [FinishedRequest EXCEPT !.at = "answering", !.answer = answer, !.recorded = r.recorded,
                       !.work = r.work, !.gone = r.gone, !.permit = r.permit, !.timer = r.timer]
    BY <1>1, <1>4 DEF Answered
  <2>2. /\ s \in Request /\ s.at = "answering" /\ Empty(s)
        /\ s.recorded = r.recorded /\ s.answer = answer /\ s.gone = r.gone /\ s.work = r.work
    <3>1. PICK recorded \in Outcomes \cup {Absent}, work \in Works,
               gone \in BOOLEAN, permit \in BOOLEAN, timer \in BOOLEAN, at \in Places :
            /\ recorded = r.recorded /\ work = r.work /\ gone = r.gone /\ permit = r.permit /\ timer = r.timer
            /\ at = "answering"
      BY <1>2 DEF Places
    <3>2. s = [f EXCEPT !.at = at, !.answer = answer, !.recorded = recorded,
                        !.work = work, !.gone = gone, !.permit = permit, !.timer = timer]
      BY <2>1, <3>1, <1>0
    <3>3. s \in Request
      <4>1. PICK g : g = [f EXCEPT !.at = at, !.answer = answer, !.recorded = recorded]
        OBVIOUS
      <4>2. g \in Request
        BY <4>1, ZenonT(60) DEF Request
      <4>3. PICK h : h = [g EXCEPT !.work = work]
        OBVIOUS
      <4>4. h \in Request
        BY <4>2, <4>3 DEF Request, Works
      <4>5. PICK k : k = [h EXCEPT !.gone = gone]
        OBVIOUS
      <4>6. k \in Request
        BY <4>4, <4>5 DEF Request
      <4>7. PICK l : l = [k EXCEPT !.permit = permit]
        OBVIOUS
      <4>8. l \in Request
        BY <4>6, <4>7 DEF Request
      <4>9. s = [l EXCEPT !.timer = timer]
        BY <3>2, <4>1, <4>3, <4>5, <4>7 DEF Request
      <4> QED BY <4>8, <4>9 DEF Request
    <3>4. /\ s.at = at /\ Empty(s)
          /\ s.recorded = recorded /\ s.answer = answer /\ s.gone = gone /\ s.work = work
      BY <3>2, <1>0 DEF Request
    <3> QED BY <3>1, <3>3, <3>4
  <2>3. Told(s)
    BY <2>2 DEF Told, Tells
  <2> QED BY <1>1, <2>2, <2>3 DEF Closed, Over
<1> QED BY <1>3, <1>4

\* A failure is answered as it is recorded, unless the request has been cut off.
LEMMA FailureCloses ==
  ASSUME NEW r \in Request, Untold(r), NEW kind \in FailureKinds
  PROVE  Closed(Caught(r, kind))
PROOF
<1>1. CASE r.work = "timeout" /\ ~r.gone
  <2>1. PICK o \in Outcomes : o = FAILURE_POLICY.upstream_timeout
    BY FailuresFail
  <2>2. r.recorded = "timeout" /\ "timeout" # Absent
    BY <1>1, FailuresFail DEF Untold
  <2>3. PICK t \in Request :
          t = Record(r, o) /\ t.recorded = "timeout" /\ t.work = r.work /\ t.gone = r.gone
    BY <2>1, <2>2, RecordKeepsFirst
  <2>4. Tells(t, "upstream_timeout")
    <3>1. FAILURE_POLICY["upstream_timeout"] = "timeout"
      BY DEF FAILURE_POLICY
    <3> QED BY <3>1, <2>3, <1>1, FailuresFail DEF Tells
  <2>5. Caught(r, kind) = Answered(t, "upstream_timeout")
    BY <1>1, <2>1, <2>3 DEF Caught
  <2> QED BY <2>3, <2>4, <2>5, AnswerCloses, FailuresFail DEF Answers
<1>2. CASE ~(r.work = "timeout" /\ ~r.gone)
  <2>1. PICK o \in Outcomes : o = FAILURE_POLICY[kind]
    BY FailuresFail
  <2>2. PICK a : a = IF r.gone \/ (kind = "aborted" /\ r.work # "live") THEN "empty" ELSE kind
    OBVIOUS
  <2>3. PICK t \in Request :
          /\ t = Record(r, o) /\ t.work = r.work /\ t.gone = r.gone
          /\ t.recorded = IF r.recorded = Absent THEN o ELSE r.recorded
    BY RecordKeepsFirst
  <2>4. a \in Answers
    BY <2>2 DEF Answers
  <2>5. /\ r.work \in {"live", "timeout", "aborted"} /\ FAILURE_POLICY[kind] # "success"
        /\ "timeout" # Absent /\ "aborted" # Absent
    BY FailuresFail DEF Request, Works
  <2>6. Tells(t, a)
    <3>1. t.recorded # "success" /\ a # "body"
      BY <2>1, <2>2, <2>3, <2>5, FailuresFail DEF Untold
    <3>2. a \in FailureKinds => a = kind /\ ~r.gone
      BY <2>2, FailuresFail
    <3>3. a \in FailureKinds => t.recorded \in {FAILURE_POLICY[kind], "aborted"}
      BY <3>2, <2>1, <2>3, <2>5, <1>2 DEF Untold
    <3> QED BY <3>1, <3>2, <3>3, <2>3 DEF Tells, Untold
  <2>7. Caught(r, kind) = Answered(t, a)
    BY <1>2, <2>1, <2>2, <2>3 DEF Caught
  <2> QED BY <2>3, <2>4, <2>6, <2>7, AnswerCloses
<1> QED BY <1>1, <1>2

\* A body is recorded under its outcome and a stream is left to its owner, unless the request has
\* been cut off meanwhile.
LEMMA ReturnCloses ==
  ASSUME NEW r \in Request, Untold(r), NEW outcome, NEW answer,
         \/ outcome = Absent /\ answer = "stream"
         \/ outcome \in {"success", "upstream_error"} /\ answer = "body"
  PROVE  Closed(Returned(r, outcome, answer))
PROOF
<1>1. PICK t : t = IF outcome = Absent THEN r ELSE Record(r, outcome)
  OBVIOUS
<1>2. /\ t \in Request /\ t.work = r.work /\ t.gone = r.gone
      /\ t.recorded = IF r.recorded = Absent THEN outcome ELSE r.recorded
  <2>1. CASE outcome = Absent
    BY <1>1, <2>1
  <2>2. CASE outcome # Absent
    <3>1. PICK o \in Outcomes : o = outcome
      BY <2>2, FailuresFail
    <3> QED BY <1>1, <2>2, <3>1, RecordKeepsFirst
  <2> QED BY <2>1, <2>2
<1>3. /\ r.work \in Works /\ "timeout" # Absent /\ "aborted" # Absent /\ "success" # Absent
      /\ "upstream_error" # Absent
      /\ "body" \in Answers /\ "stream" \in Answers /\ "empty" \in Answers /\ "upstream_timeout" \in Answers
  BY FailuresFail DEF Request, Answers
<1>4. CASE r.work = "live"
  <2>1. Tells(t, answer)
    BY <1>2, <1>3, <1>4, FailuresFail DEF Tells, Untold
  <2> QED BY <1>1, <1>2, <1>3, <1>4, <2>1, AnswerCloses DEF Returned
<1>5. CASE r.work = "timeout" /\ ~r.gone
  <2>1. PICK o \in Outcomes : o = FAILURE_POLICY.upstream_timeout
    BY FailuresFail
  <2>2. t.recorded = "timeout"
    BY <1>2, <1>3, <1>5 DEF Untold
  <2>3. PICK u \in Request :
          u = Record(t, o) /\ u.recorded = "timeout" /\ u.work = t.work /\ u.gone = t.gone
    BY <1>2, <1>3, <2>2, RecordKeepsFirst
  <2>4. FAILURE_POLICY["upstream_timeout"] = "timeout"
    BY DEF FAILURE_POLICY
  <2>5. Tells(u, "upstream_timeout")
    BY <1>2, <1>5, <2>3, <2>4, FailuresFail DEF Tells
  <2>6. Returned(r, outcome, answer) = Answered(u, "upstream_timeout")
    BY <1>1, <1>5, <2>1, <2>3 DEF Returned
  <2> QED BY <1>3, <2>5, <2>6, AnswerCloses
<1>6. CASE r.work # "live" /\ ~(r.work = "timeout" /\ ~r.gone)
  <2>1. t.recorded \in {"timeout", "aborted"}
    BY <1>2, <1>3, <1>6 DEF Untold, Works
  <2>2. Tells(t, "empty")
    BY <1>2, <1>3, <1>6, <2>1, FailuresFail DEF Tells
  <2>3. Returned(r, outcome, answer) = Answered(t, "empty")
    BY <1>1, <1>6 DEF Returned
  <2> QED BY <1>2, <1>3, <2>2, <2>3, AnswerCloses
<1> QED BY <1>4, <1>5, <1>6

------------------------------------------------------------------------------
\* What is stored.

\* Promoting or discarding carriers changes nothing but their state.
SameCarrier(c, d) == /\ c.token = d.token /\ c.account = d.account /\ c.model = d.model
                     /\ c.origin = d.origin /\ c.source = d.source /\ c.wire = d.wire

Settled(after, carriers, tokens) ==
  /\ after \in SUBSET Carrier
  /\ IsFiniteSet(after)
  /\ \A c \in after : \E d \in carriers : SameCarrier(c, d)
  /\ \A c \in after : c.state = "complete" \/ (c \in carriers /\ c.token \notin tokens)

LEMMA CarriersSettle ==
  ASSUME NEW carriers \in SUBSET Carrier, IsFiniteSet(carriers), NEW tokens, NEW completed \in BOOLEAN
  PROVE  Settled(CarriersAfter(carriers, tokens, completed), carriers, tokens)
PROOF
<1> DEFINE Kept == {c \in carriers : c.token \notin tokens \/ c.state = "complete"}
           Named == {d \in carriers : d.token \in tokens}
           Promote(c) == [c EXCEPT !.state = "complete"]
           Promoted == {Promote(c) : c \in Named}
<1>1. \A c \in carriers : /\ Promote(c) \in Carrier /\ Promote(c).state = "complete"
                          /\ Promote(c).token = c.token /\ Promote(c).account = c.account
                          /\ Promote(c).model = c.model /\ Promote(c).origin = c.origin
                          /\ Promote(c).source = c.source /\ Promote(c).wire = c.wire
  BY DEF Carrier
<1>2. IsFiniteSet(Kept) /\ IsFiniteSet(Named)
  BY FS_Subset
<1>3. IsFiniteSet(Promoted)
  <2>1. PICK f : f = [c \in Named |-> Promote(c)]
    OBVIOUS
  <2>2. f \in Surjection(Named, Promoted)
    <3> HIDE DEF Named
    <3> QED BY <2>1, <1>1 DEF Surjection
  <2> HIDE DEF Named, Promoted
  <2> QED BY <1>2, <2>2, FS_Surjection
<1>4. CarriersAfter(carriers, tokens, completed) = Kept \cup (IF completed THEN Promoted ELSE {})
  BY DEF CarriersAfter
<1>5. IsFiniteSet(Kept \cup Promoted)
  BY <1>2, <1>3, FS_Union
<1>6. \A c \in Promoted : \E d \in carriers : c = Promote(d)
  OBVIOUS
<1>7. CarriersAfter(carriers, tokens, completed) \in SUBSET Carrier
  BY <1>1, <1>4, <1>6
<1>8. IsFiniteSet(CarriersAfter(carriers, tokens, completed))
  BY <1>2, <1>4, <1>5
<1>9. ASSUME NEW c \in CarriersAfter(carriers, tokens, completed)
      PROVE  /\ \E d \in carriers : SameCarrier(c, d)
             /\ c.state = "complete" \/ (c \in carriers /\ c.token \notin tokens)
  <2>1. CASE c \in Kept
    BY <2>1 DEF SameCarrier
  <2>2. CASE c \in Promoted
    <3>1. PICK d \in carriers : c = Promote(d)
      BY <2>2
    <3> HIDE DEF Promote
    <3> QED BY <3>1, <1>1 DEF SameCarrier
  <2> QED BY <1>4, <2>1, <2>2
<1> QED BY <1>7, <1>8, <1>9 DEF Settled

\* The carriers of a body that is not refused are all bound to the claim.
LEMMA ClaimIsBound ==
  ASSUME Stored, HistoryIsTrue, NEW tokens \in SUBSET Nat, NEW account \in Accounts, NEW wire,
         Claim(tokens, account, wire).failure = Absent
  PROVE  \E b \in CarrierBinding \cup {Absent} :
            b = Claim(tokens, account, wire).binding /\ Claims(b, tokens)
PROOF
<1>1. CASE tokens = {}
  <2>1. Claim(tokens, account, wire).binding = Absent
    BY <1>1 DEF Claim
  <2> QED BY <1>1, <2>1 DEF Claims
<1>2. CASE tokens # {}
  <2>1. "invalid_request" # Absent
    BY FailuresFail DEF FailureKinds, FAILURE_POLICY
  <2>2. Available(tokens, account, wire) /\ Cardinality(Bindings(tokens)) = 1
        /\ Claim(tokens, account, wire).binding = CHOOSE b \in Bindings(tokens) : TRUE
    BY <1>2, <2>1 DEF Claim
  <2> DEFINE Named == {d \in store.carriers : d.token \in tokens}
  <2>3. IsFiniteSet(Bindings(tokens))
    <3>1. IsFiniteSet(Named)
      BY FS_Subset DEF Stored
    <3>2. PICK f : f = [c \in Named |-> BindingOf(c)]
      OBVIOUS
    <3>3. Bindings(tokens) = {BindingOf(c) : c \in Named}
      BY DEF Bindings
    <3>4. f \in Surjection(Named, Bindings(tokens))
      <4> HIDE DEF Named
      <4> QED BY <3>2, <3>3 DEF Surjection
    <3> HIDE DEF Named
    <3> QED BY <3>1, <3>4, FS_Surjection
  <2>4. PICK b : Bindings(tokens) = {b}
    BY <2>2, <2>3, FS_Singleton
  <2>5. Claim(tokens, account, wire).binding = b
    BY <2>2, <2>4
  <2>6. ASSUME NEW n \in tokens
        PROVE  /\ b \in CarrierBinding
               /\ Known(n, b.account, b.model, b.origin, b.source)
    <3>1. PICK c \in store.carriers : c.token = n
      BY <2>2 DEF Available
    <3>2. BindingOf(c) = b
      BY <2>4, <3>1 DEF Bindings
    <3>3. b = [account |-> c.account, model |-> c.model, origin |-> c.origin, source |-> c.source, wire |-> c.wire]
      BY <3>2 DEF BindingOf, Binding
    <3>4. c \in Carrier /\ IsTrue(c)
      BY <3>1 DEF Stored, HistoryIsTrue
    <3>5. b \in CarrierBinding
      BY <3>3, <3>4 DEF Carrier, CarrierBinding
    <3> QED BY <3>1, <3>3, <3>4, <3>5 DEF IsTrue
  <2>7. b \in CarrierBinding /\ b # Absent
    BY <1>2, <2>6, AbsentAssumption
  <2> QED BY <2>5, <2>6, <2>7 DEF Claims
<1> QED BY <1>1, <1>2

\* What is known stays known: responses are only ever added.
LEMMA KnownStays ==
  ASSUME issued \subseteq issued'
  PROVE  /\ \A n, a, m, o, p : Known(n, a, m, o, p) => Known(n, a, m, o, p)'
         /\ \A r : IsKept(r) => IsKept(r)'
         /\ \A claim, tokens : Claims(claim, tokens) => Claims(claim, tokens)'
PROOF
<1>1. \A n, a, m, o, p : Known(n, a, m, o, p) => Known(n, a, m, o, p)'
  BY DEF Known
<1>2. \A r : IsKept(r) => IsKept(r)'
  BY DEF IsKept, SameResponse
<1>3. \A claim, tokens : Claims(claim, tokens) => Claims(claim, tokens)'
  BY <1>1 DEF Claims
<1> QED BY <1>1, <1>2, <1>3

------------------------------------------------------------------------------
\* Steps that only move the request on, and steps that end it.

LEMMA OpenIsUntold ==
  ASSUME PipelineInv, req.at \notin Over
  PROVE  Untold(req)
BY DEF PipelineInv, Recorded, Untold

\* A step that closes the request keeps the invariant if the store stays in order.
LEMMA ClosingStep ==
  ASSUME PipelineInv, Closed(req'), world' = world, served' = served,
         Stored', issued' \subseteq Response, Unique', HistoryIsTrue',
         \A c \in store'.carriers : c.state = "complete"
  PROVE  PipelineInv'
PROOF
<1>1. PipelineTypeOK'
  BY DEF PipelineInv, PipelineTypeOK, Closed
<1>2. Recorded'
  BY DEF Recorded, Closed, Told, Tells
<1>3. AnswerMatchesRecord'
  BY DEF AnswerMatchesRecord, Closed, Told, Tells, FailureKinds
<1>4. Created'
  BY DEF Created, Closed
<1>5. Numbered'
  BY DEF Numbered, Closed
<1>6. Prepared'
  BY DEF Prepared, Closed, Bound, Over
<1>7. Sent'
  BY DEF Sent, Closed, Over, Sending
<1> QED BY <1>1, <1>2, <1>3, <1>4, <1>5, <1>6, <1>7 DEF PipelineInv

\* A step that changes only the request, and neither what is recorded of it nor how it works.
LEMMA MovingStep ==
  ASSUME PipelineInv, UNCHANGED <<world, store, issued, served>>,
         req' \in Request, req.at \notin Over \cup {"checkpoint"}, req'.at \notin Over \cup {"checkpoint"},
         req'.work = req.work, req'.gone = req.gone, req'.recorded = req.recorded, req'.answer = req.answer,
         req'.created = req.created, Prepared', Sent'
  PROVE  PipelineInv'
PROOF
<1>0. /\ PipelineTypeOK /\ Recorded /\ AnswerMatchesRecord /\ Created /\ Numbered /\ HistoryIsTrue
  BY DEF PipelineInv
<1>1. PipelineTypeOK'
  BY <1>0 DEF PipelineTypeOK, Stored
<1>2. Recorded'
  BY <1>0 DEF Recorded
<1>3. AnswerMatchesRecord'
  BY <1>0 DEF AnswerMatchesRecord
<1>4. Created'
  BY <1>0 DEF Created, Over
<1>5. Numbered'
  BY <1>0 DEF Numbered, Unique
<1>6. HistoryIsTrue'
  BY <1>0, KnownStays DEF HistoryIsTrue, IsTrue
<1> QED BY <1>1, <1>2, <1>3, <1>4, <1>5, <1>6 DEF PipelineInv

\* A failure ends the request and discards the carriers it has made.
LEMMA FailingStep ==
  ASSUME PipelineInv, req.at \notin Over, NEW kind \in FailureKinds, FailWith(kind)
  PROVE  PipelineInv'
PROOF
<1>0. PipelineTypeOK /\ Created /\ Numbered /\ HistoryIsTrue
  BY DEF PipelineInv
<1>1. /\ req' = Caught(req, kind)
      /\ store' = [store EXCEPT !.carriers = CarriersAfter(@, req.created, FALSE)]
      /\ world' = world /\ issued' = issued /\ served' = served
  BY DEF FailWith, Thrown
<1>2. Closed(req')
  BY <1>0, <1>1, OpenIsUntold, FailureCloses DEF PipelineTypeOK
<1>3. store.carriers \in SUBSET Carrier /\ IsFiniteSet(store.carriers) /\ store.receipts \in SUBSET Receipt
  BY <1>0 DEF PipelineTypeOK, Stored
<1>4. PICK after : after = CarriersAfter(store.carriers, req.created, FALSE)
  OBVIOUS
<1>5. Settled(after, store.carriers, req.created)
  BY <1>3, <1>4, CarriersSettle, FALSE \in BOOLEAN
<1>6. /\ store' \in [receipts : SUBSET Receipt, carriers : SUBSET Carrier]
      /\ store'.carriers = after /\ store'.receipts = store.receipts
  BY <1>0, <1>1, <1>4, <1>5 DEF PipelineTypeOK, Stored, Settled
<1>7. Stored'
  BY <1>5, <1>6 DEF Stored, Settled
<1>8. issued' \subseteq Response /\ Unique'
  BY <1>0, <1>1 DEF PipelineTypeOK, Numbered, Unique
<1>9. HistoryIsTrue'
  <2>1. \A c \in after : IsTrue(c)'
    BY <1>0, <1>1, <1>5, KnownStays DEF HistoryIsTrue, IsTrue, Settled, SameCarrier
  <2>2. \A r \in store'.receipts : IsKept(r)'
    BY <1>0, <1>1, <1>6, KnownStays DEF HistoryIsTrue
  <2> QED BY <1>6, <2>1, <2>2 DEF HistoryIsTrue
<1>10. \A c \in store'.carriers : c.state = "complete"
  BY <1>0, <1>5, <1>6 DEF Created, Settled
<1> QED BY <1>1, <1>2, <1>7, <1>8, <1>9, <1>10, ClosingStep

LEMMA AwaitFailingStep ==
  ASSUME PipelineInv, NEW at, at \notin Over, NEW kinds \in SUBSET FailureKinds, AwaitFails(at, kinds)
  PROVE  PipelineInv'
PROOF
<1>1. SignalFailure(req) \in FailureKinds
  BY FailuresFail DEF SignalFailure
<1>2. PICK kind \in FailureKinds : Thrown(kind)
  BY <1>1 DEF AwaitFails
<1>3. FailWith(kind) /\ req.at \notin Over
  BY <1>2 DEF AwaitFails, FailWith
<1> QED BY <1>3, FailingStep

\* A body passed on, or a stream handed over, ends the request's own part.
LEMMA ReturningStep ==
  ASSUME PipelineInv, req.at \notin Over \cup {"checkpoint"}, NEW outcome, NEW answer,
         \/ outcome = Absent /\ answer = "stream"
         \/ outcome \in {"success", "upstream_error"} /\ answer = "body",
         Proceed(Returned(req, outcome, answer))
  PROVE  PipelineInv'
PROOF
<1>0. PipelineTypeOK /\ Created /\ Numbered /\ HistoryIsTrue
  BY DEF PipelineInv
<1>1. req' = Returned(req, outcome, answer) /\ UNCHANGED <<world, store, issued, served>>
  BY DEF Proceed
<1>2. Closed(req')
  BY <1>0, <1>1, OpenIsUntold, ReturnCloses DEF PipelineTypeOK
<1>3. Stored' /\ issued' \subseteq Response /\ Unique'
  BY <1>0, <1>1 DEF PipelineTypeOK, Stored, Numbered, Unique
<1>4. HistoryIsTrue'
  BY <1>0, <1>1, KnownStays DEF HistoryIsTrue, IsTrue
<1>5. \A c \in store'.carriers : c.state = "complete"
  BY <1>0, <1>1 DEF Created
<1> QED BY <1>1, <1>2, <1>3, <1>4, <1>5, ClosingStep

\* What a step that moves on leaves alone.
Same(s, r) ==
  /\ s.wire = r.wire /\ s.stream = r.stream /\ s.previous = r.previous
  /\ s.work = r.work /\ s.gone = r.gone /\ s.recorded = r.recorded /\ s.answer = r.answer
  /\ s.created = r.created

SameSources(s, r) ==
  /\ s.tokens = r.tokens /\ s.account = r.account /\ s.claim = r.claim /\ s.receipt = r.receipt
  /\ s.requested = r.requested /\ s.model = r.model /\ s.origin = r.origin
  /\ s.restored = r.restored /\ s.sent = r.sent

LEMMA PlaceChanges ==
  ASSUME NEW r \in Request, NEW at \in Places, NEW s, s = [r EXCEPT !.at = at]
  PROVE  s \in Request /\ s.at = at /\ Same(s, r) /\ SameSources(s, r) /\ s.permit = r.permit /\ s.timer = r.timer
BY DEF Request, Same, SameSources

LEMMA EarlyStep ==
  ASSUME PipelineInv, UNCHANGED <<world, store, issued, served>>, req' \in Request,
         Same(req', req), SameSources(req', req),
         \/ req.at = "admission" /\ req'.at = "body"
         \/ req.at = "body" /\ req'.at = "account"
  PROVE  PipelineInv'
PROOF
<1>0. Prepared /\ Sent
  BY DEF PipelineInv
<1>1. PICK r, s : r = req /\ s = req'
  OBVIOUS
<1>2. /\ s.wire = r.wire /\ s.previous = r.previous /\ s.tokens = r.tokens /\ s.receipt = r.receipt
      /\ s.restored = r.restored /\ s.sent = r.sent /\ s.at \in {"body", "account"}
  BY <1>1 DEF Same, SameSources
<1>3. /\ r.previous # Absent => r.wire = "responses"
      /\ \A n \in r.tokens : \E i \in issued : i.number = n
      /\ r.wire # Absent
      /\ r.receipt = Absent /\ ~r.restored /\ r.sent = Absent
  BY <1>0, <1>1, <1>2 DEF Prepared, Sent, Sending, Bound, Over
<1>4. Prepared'
  BY <1>1, <1>2, <1>3 DEF Prepared, Bound, Over
<1>5. Sent'
  BY <1>1, <1>2, <1>3 DEF Sent, Sending
<1> QED BY <1>4, <1>5, MovingStep DEF Same, Over

LEMMA AdmittedStep ==
  ASSUME PipelineInv, Admitted
  PROVE  PipelineInv'
PROOF
<1>1. PICK r \in Request : r = req
  BY DEF PipelineInv, PipelineTypeOK
<1>2. PICK at \in Places : at = "body"
  BY DEF Places
<1>3. PICK b \in BOOLEAN : b = TRUE
  OBVIOUS
<1>4. PICK g : g = [r EXCEPT !.at = at]
  OBVIOUS
<1>5. g \in Request /\ g.at = at /\ Same(g, r) /\ SameSources(g, r)
  BY <1>4, PlaceChanges
<1>6. PICK h : h = [g EXCEPT !.permit = b]
  OBVIOUS
<1>7. PICK s : s = [h EXCEPT !.timer = b]
  OBVIOUS
<1>10. h \in Request /\ h.at = at /\ Same(h, g) /\ SameSources(h, g)
  BY <1>5, <1>6 DEF Request, Same, SameSources
<1>11. s \in Request /\ s.at = at /\ Same(s, h) /\ SameSources(s, h)
  BY <1>10, <1>7 DEF Request, Same, SameSources
<1>12. Same(s, r) /\ SameSources(s, r)
  BY <1>5, <1>10, <1>11 DEF Same, SameSources
<1>8. req' = s
  BY <1>1, <1>2, <1>3, <1>4, <1>6, <1>7 DEF Admitted, Proceed, Request
<1>9. req.at = "admission" /\ UNCHANGED <<world, store, issued, served>>
  BY DEF Admitted, Proceed
<1> QED BY <1>1, <1>2, <1>8, <1>9, <1>11, <1>12, EarlyStep

LEMMA BodyStep ==
  ASSUME PipelineInv, BodyRead
  PROVE  PipelineInv'
PROOF
<1>1. PICK r \in Request : r = req
  BY DEF PipelineInv, PipelineTypeOK
<1>2. PICK at \in Places : at = "account"
  BY DEF Places
<1>3. req' = [r EXCEPT !.at = at]
  BY <1>1, <1>2 DEF BodyRead, Proceed
<1>4. req' \in Request /\ req'.at = at /\ Same(req', r) /\ SameSources(req', r)
  BY <1>3, PlaceChanges
<1>5. req.at = "body" /\ UNCHANGED <<world, store, issued, served>>
  BY DEF BodyRead, Proceed
<1> QED BY <1>1, <1>2, <1>4, <1>5, EarlyStep

\* The account is bound, and the carriers of the body are claimed for it.
LEMMA BindStep ==
  ASSUME PipelineInv, NEW wire, NEW next, Bind(wire, next),
         \/ wire = "responses" /\ next = "continuation"
         \/ wire # "responses" /\ next = "catalogue"
  PROVE  PipelineInv'
PROOF
<1>0. PipelineTypeOK /\ HistoryIsTrue /\ Prepared /\ Sent
  BY DEF PipelineInv
<1>1. PICK r \in Request : r = req
  BY <1>0 DEF PipelineTypeOK
<1>2. r.at = "account" /\ r.wire = wire
  BY <1>1 DEF Bind
<1>3. PICK account \in MaybeAccount : account = world.default
  BY <1>0 DEF PipelineTypeOK
<1>4. PICK claim : claim = Claim(r.tokens, account, wire)
  OBVIOUS
<1>5. PICK requested : requested = IF claim.binding = Absent THEN r.asked ELSE claim.binding.model
  OBVIOUS
<1>6. "authentication" \in FailureKinds /\ "invalid_request" \in FailureKinds
  BY DEF FailureKinds, FAILURE_POLICY
<1>7. CASE account = Absent
  <2>1. FailWith("authentication")
    BY <1>3, <1>7 DEF Bind
  <2> QED BY <1>1, <1>2, <1>6, <2>1, FailingStep DEF Over
<1>8. CASE account # Absent /\ claim.failure # Absent
  <2>1. FailWith(claim.failure)
    BY <1>1, <1>3, <1>4, <1>8 DEF Bind
  <2>2. claim.failure \in FailureKinds
    BY <1>4, <1>6, <1>8 DEF Claim
  <2> QED BY <1>1, <1>2, <2>1, <2>2, FailingStep DEF Over
<1>9. CASE /\ account # Absent /\ claim.failure = Absent
           /\ claim.binding # Absent /\ r.asked \notin {Absent, claim.binding.model}
  <2>1. FailWith("invalid_request")
    BY <1>1, <1>3, <1>4, <1>9 DEF Bind
  <2> QED BY <1>1, <1>2, <1>6, <2>1, FailingStep DEF Over
<1>10. CASE /\ account # Absent /\ claim.failure = Absent
            /\ ~(claim.binding # Absent /\ r.asked \notin {Absent, claim.binding.model})
  <2>1. PICK preferred : preferred = IF requested = Absent THEN world.preferred[account] ELSE Absent
    OBVIOUS
  <2>2. Proceed([r EXCEPT !.account = account, !.claim = claim.binding, !.requested = requested,
                          !.preferred = preferred, !.at = next])
    BY <1>1, <1>3, <1>4, <1>5, <1>10, <2>1 DEF Bind
  <2>3. account \in Accounts /\ r.tokens \in SUBSET Nat /\ r.asked \in MaybeModel /\ next \in Places
    BY <1>1, <1>10 DEF MaybeAccount, Request, Places
  <2>4. PICK b \in CarrierBinding \cup {Absent} : b = claim.binding /\ Claims(b, r.tokens)
    BY <1>0, <1>4, <1>10, <2>3, ClaimIsBound DEF PipelineTypeOK
  <2>5. requested \in MaybeModel
    BY <1>5, <2>3, <2>4 DEF MaybeModel, CarrierBinding
  <2>6. preferred \in MaybeModel
    BY <1>0, <2>1, <2>3 DEF PipelineTypeOK, MaybeModel
  <2>7. PICK s : s = [r EXCEPT !.account = account, !.claim = b, !.requested = requested,
                          !.preferred = preferred, !.at = next]
    OBVIOUS
  <2>8. s \in Request
    BY <2>3, <2>5, <2>6, <2>7, ZenonT(60) DEF Request
  <2>9. /\ Same(s, r) /\ s.at = next /\ s.account = account /\ s.claim = b /\ s.tokens = r.tokens
        /\ s.receipt = r.receipt /\ s.restored = r.restored /\ s.sent = r.sent
    BY <2>7 DEF Request, Same
  <2>10. req' = s /\ UNCHANGED <<world, store, issued, served>>
    BY <2>2, <2>4, <2>7 DEF Proceed
  <2>11. /\ r.previous # Absent => r.wire = "responses"
         /\ \A n \in r.tokens : \E i \in issued : i.number = n
         /\ r.wire # Absent /\ r.receipt = Absent /\ ~r.restored /\ r.sent = Absent
    BY <1>0, <1>1, <1>2 DEF Prepared, Sent, Sending, Bound, Over
  <2>12. Claims(b, r.tokens)'
    BY <2>4, <2>10, KnownStays
  <2>13. Prepared'
    BY <1>2, <2>3, <2>9, <2>10, <2>11, <2>12 DEF Prepared, Same, Bound, Over, Claims
  <2>14. Sent'
    BY <2>9, <2>10, <2>11 DEF Sent, Same, Sending
  <2> QED BY <1>1, <1>2, <2>8, <2>9, <2>10, <2>13, <2>14, MovingStep DEF Same, Over
<1> QED BY <1>7, <1>8, <1>9, <1>10

\* The receipt of the continuation is read from the stored history.
LEMMA ContinuationStep ==
  ASSUME PipelineInv, ResolveContinuation
  PROVE  PipelineInv'
PROOF
<1>0. PipelineTypeOK /\ HistoryIsTrue /\ Prepared /\ Sent
  BY DEF PipelineInv
<1>1. PICK r \in Request : r = req
  BY <1>0 DEF PipelineTypeOK
<1>2. r.at = "continuation" /\ r.wire = "responses" /\ r.account \in Accounts
  BY <1>0, <1>1 DEF ResolveContinuation, Prepared, Bound
<1> DEFINE owned == {e \in store.receipts : e.account = r.account /\ e.id = r.previous}
<1>3. PICK receipt : receipt = IF owned = {} THEN Absent ELSE CHOOSE e \in owned : TRUE
  OBVIOUS
<1>4. PICK requested : requested = IF receipt = Absent THEN r.requested ELSE receipt.model
  OBVIOUS
<1>5. receipt \in Receipt \cup {Absent}
      /\ (receipt # Absent => receipt \in store.receipts /\ receipt.account = r.account /\ receipt.id = r.previous)
  BY <1>0, <1>3 DEF PipelineTypeOK, Stored
<1>6. CASE receipt # Absent /\ r.requested \notin {Absent, receipt.model}
  <2>1. FailWith("continuation_conflict")
    BY <1>1, <1>3, <1>6 DEF ResolveContinuation
  <2>2. "continuation_conflict" \in FailureKinds
    BY DEF FailureKinds, FAILURE_POLICY
  <2> QED BY <1>1, <1>2, <2>1, <2>2, FailingStep DEF Over
<1>7. CASE ~(receipt # Absent /\ r.requested \notin {Absent, receipt.model})
  <2>1. PICK preferred : preferred = world.preferred[r.account]
    OBVIOUS
  <2>2. PICK at \in Places : at = "catalogue"
    BY DEF Places
  <2>3. Proceed([r EXCEPT !.receipt = receipt, !.requested = requested, !.preferred = preferred, !.at = at])
    BY <1>1, <1>3, <1>4, <1>7, <2>1, <2>2 DEF ResolveContinuation
  <2>4. requested \in MaybeModel
    BY <1>4, <1>5 DEF MaybeModel, Receipt, Request
  <2>5. preferred \in MaybeModel
    BY <1>0, <1>2, <2>1 DEF PipelineTypeOK, MaybeModel
  <2>6. PICK s : s = [r EXCEPT !.receipt = receipt, !.requested = requested, !.preferred = preferred, !.at = at]
    OBVIOUS
  <2>7. s \in Request
    BY <1>5, <2>4, <2>5, <2>6, ZenonT(60) DEF Request
  <2>8. /\ Same(s, r) /\ s.at = "catalogue" /\ s.account = r.account /\ s.tokens = r.tokens
        /\ s.receipt = receipt /\ s.requested = requested /\ s.restored = r.restored /\ s.sent = r.sent
    BY <2>2, <2>6 DEF Request, Same
  <2>9. req' = s /\ UNCHANGED <<world, store, issued, served>>
    BY <2>3, <2>6 DEF Proceed
  <2>10. /\ \A n \in r.tokens : \E i \in issued : i.number = n
         /\ ~r.restored /\ r.sent = Absent /\ r.wire # Absent
    BY <1>0, <1>1, <1>2 DEF Prepared, Sent, Sending, Bound, Over
  <2>11. receipt # Absent => IsKept(receipt)'
    BY <1>0, <1>5, <2>9, KnownStays DEF HistoryIsTrue
  <2>12. Prepared'
    BY <1>2, <1>4, <1>5, <2>8, <2>9, <2>10, <2>11 DEF Prepared, Same, Bound, Over
  <2>13. Sent'
    BY <2>8, <2>9, <2>10 DEF Sent, Same, Sending
  <2> QED BY <1>1, <1>2, <2>7, <2>8, <2>9, <2>12, <2>13, MovingStep DEF Same, Over
<1> QED BY <1>6, <1>7

\* What the catalogue says of a model are protocols, or that they are unknown.
LEMMA ProtocolsAreKnown ==
  ASSUME NEW entry \in Listing
  PROVE  EffectiveProtocols(entry) \in SUBSET Spoken
PROOF
<1>1. entry.live \in Declaration /\ entry.builtin \in Declaration
  BY DEF Listing
<1>2. ASSUME NEW d \in Declaration, d.state = "value" PROVE d.value \in SUBSET Protocols
  <2>1. CASE d \in [state : {"missing", "malformed"}]
    BY <1>2, <2>1
  <2>2. CASE d \in [state : {"value"}, value : SUBSET Protocols]
    BY <2>2
  <2> QED BY <2>1, <2>2 DEF Declaration
<1> QED BY <1>1, <1>2 DEF EffectiveProtocols, Spoken

LEMMA ModelChanges ==
  ASSUME NEW r \in Request, NEW model \in Models, NEW protocols \in SUBSET Spoken, NEW at \in Places,
         NEW s, s = [r EXCEPT !.model = model, !.at = at, !.protocols = protocols]
  PROVE  s \in Request
PROOF
<1>1. model \in MaybeModel
  BY DEF MaybeModel
<1> QED BY <1>1, ZenonT(60) DEF Request

\* The model is resolved in the catalogue.
LEMMA ModelStep ==
  ASSUME PipelineInv, req.at = "catalogue", NEW resolved,
         resolved = ResolveModel(world.catalogue[req.account], req.requested, req.preferred),
         resolved.failure = Absent,
         Proceed([req EXCEPT !.model = resolved.model, !.at = "copilot",
                             !.protocols = EffectiveProtocols(world.catalogue[req.account][resolved.model])])
  PROVE  PipelineInv'
PROOF
<1>0. PipelineTypeOK /\ HistoryIsTrue /\ Prepared /\ Sent
  BY DEF PipelineInv
<1>1. PICK r \in Request : r = req
  BY <1>0 DEF PipelineTypeOK
<1>2. r.at = "catalogue" /\ r.account \in Accounts
  BY <1>0, <1>1 DEF Prepared, Bound
<1>3. PICK catalogue \in Catalogues : catalogue = world.catalogue[r.account]
  BY <1>0, <1>2 DEF PipelineTypeOK
<1>4. "model_not_found" # Absent /\ "invalid_request" # Absent
  BY FailuresFail DEF FailureKinds, FAILURE_POLICY
<1>5. PICK model : model = resolved.model
  OBVIOUS
<1>6. model \in Models /\ (r.requested # Absent => model = r.requested)
  BY <1>1, <1>3, <1>4, <1>5 DEF ResolveModel, ListedModels
<1>7. PICK protocols \in SUBSET Spoken : protocols = EffectiveProtocols(catalogue[model])
  <2>1. catalogue[model] \in Listing
    BY <1>3, <1>6, CataloguesAssumption
  <2> QED BY <2>1, ProtocolsAreKnown
<1>9. PICK at \in Places : at = "copilot"
  BY DEF Places
<1>10. PICK s : s = [r EXCEPT !.model = model, !.at = at, !.protocols = protocols]
  OBVIOUS
<1>11. s \in Request
  BY <1>6, <1>7, <1>9, <1>10, ModelChanges
<1>12. /\ Same(s, r) /\ s.at = "copilot" /\ s.account = r.account /\ s.tokens = r.tokens /\ s.claim = r.claim
       /\ s.receipt = r.receipt /\ s.requested = r.requested /\ s.restored = r.restored /\ s.sent = r.sent
       /\ s.model = model
  BY <1>9, <1>10 DEF Request, Same
<1>13. req' = s /\ UNCHANGED <<world, store, issued, served>>
  BY <1>1, <1>3, <1>5, <1>7, <1>9, <1>10 DEF Proceed
<1>14. /\ r.previous # Absent => r.wire = "responses"
       /\ \A n \in r.tokens : \E i \in issued : i.number = n
       /\ r.wire # Absent /\ r.sent = Absent
       /\ r.restored => r.receipt # Absent
       /\ r.wire # "responses" => Claims(r.claim, r.tokens)
       /\ r.receipt # Absent => /\ r.wire = "responses" /\ IsKept(r.receipt) /\ r.receipt.id = r.previous
                                /\ r.receipt.account = r.account /\ r.requested = r.receipt.model
  BY <1>0, <1>1, <1>2 DEF Prepared, Sent, Sending, Bound, Over
<1>15. /\ r.wire # "responses" => Claims(r.claim, r.tokens)'
       /\ r.receipt # Absent => IsKept(r.receipt)'
  BY <1>13, <1>14, KnownStays
<1>16. r.receipt # Absent => model = r.receipt.model
  <2>1. r.receipt # Absent => r.receipt.model \in Models
    BY DEF Request, Receipt
  <2> QED BY <1>6, <1>14, <2>1, AbsentAssumption
<1>17. Prepared'
  BY <1>2, <1>6, <1>12, <1>13, <1>14, <1>15, <1>16 DEF Prepared, Same, Bound, Over
<1>18. Sent'
  BY <1>12, <1>13, <1>14 DEF Sent, Same, Sending
<1> QED BY <1>1, <1>2, <1>11, <1>12, <1>13, <1>17, <1>18, MovingStep DEF Same, Over

\* The request is bound to the upstream of its account.
LEMMA CopilotStep ==
  ASSUME PipelineInv, BindCopilot
  PROVE  PipelineInv'
PROOF
<1>0. PipelineTypeOK /\ Prepared /\ Sent
  BY DEF PipelineInv
<1>1. PICK r \in Request : r = req
  BY <1>0 DEF PipelineTypeOK
<1>2. r.at = "copilot" /\ r.account \in Accounts
  BY <1>0, <1>1 DEF BindCopilot, Prepared, Bound
<1>3. PICK origin \in Origins : origin = world.origin[r.account]
  BY <1>0, <1>2 DEF PipelineTypeOK
<1>4. CASE ~ContinuationTarget(r.receipt, origin, r.protocols)
  <2>1. FailWith("continuation_conflict")
    BY <1>1, <1>3, <1>4 DEF BindCopilot
  <2>2. "continuation_conflict" \in FailureKinds
    BY DEF FailureKinds, FAILURE_POLICY
  <2> QED BY <1>1, <1>2, <2>1, <2>2, FailingStep DEF Over
<1>5. CASE ContinuationTarget(r.receipt, origin, r.protocols)
  <2>1. PICK at : at = IF r.receipt # Absent /\ r.receipt.protocol # "responses" THEN "history" ELSE "plan"
    OBVIOUS
  <2>2. at \in Places
    BY <2>1 DEF Places
  <2>3. PICK s : s = [r EXCEPT !.origin = origin, !.at = at]
    OBVIOUS
  <2>4. req' = s /\ UNCHANGED <<world, store, issued, served>>
    BY <1>1, <1>3, <1>5, <2>1, <2>3 DEF BindCopilot, Proceed
  <2>5. s \in Request
    BY <2>2, <2>3, ZenonT(60) DEF Request
  <2>6. /\ Same(s, r) /\ s.at = at /\ s.account = r.account /\ s.tokens = r.tokens /\ s.claim = r.claim
        /\ s.receipt = r.receipt /\ s.requested = r.requested /\ s.restored = r.restored /\ s.sent = r.sent
        /\ s.model = r.model /\ s.origin = origin
    BY <2>3 DEF Request, Same
  <2>7. /\ r.previous # Absent => r.wire = "responses"
        /\ \A n \in r.tokens : \E i \in issued : i.number = n
        /\ r.wire # Absent /\ r.sent = Absent /\ r.model \in Models
        /\ r.restored => r.receipt # Absent
        /\ r.wire # "responses" => Claims(r.claim, r.tokens)
        /\ r.receipt # Absent => /\ r.wire = "responses" /\ IsKept(r.receipt) /\ r.receipt.id = r.previous
                                 /\ r.receipt.account = r.account /\ r.requested = r.receipt.model
                                 /\ r.model = r.receipt.model
    BY <1>0, <1>1, <1>2 DEF Prepared, Sent, Sending, Bound, Over
  <2>8. /\ r.wire # "responses" => Claims(r.claim, r.tokens)'
        /\ r.receipt # Absent => IsKept(r.receipt)'
    BY <2>4, <2>7, KnownStays
  <2>9. r.receipt # Absent => origin = r.receipt.origin
    BY <1>5 DEF ContinuationTarget
  <2>10. at \in {"plan", "history"} /\ (at = "history" => r.wire = "responses")
    BY <2>1, <2>7
  <2>11. Prepared'
    BY <1>2, <2>4, <2>6, <2>7, <2>8, <2>9, <2>10 DEF Prepared, Same, Bound, Over
  <2>12. Sent'
    BY <2>4, <2>6, <2>7, <2>10 DEF Sent, Same, Sending
  <2> QED BY <1>1, <1>2, <2>4, <2>5, <2>6, <2>10, <2>11, <2>12, MovingStep DEF Same, Over
<1> QED BY <1>4, <1>5

LEMMA RestoringChanges ==
  ASSUME NEW r \in Request, NEW restored \in BOOLEAN, NEW tokens \in SUBSET Nat, NEW at \in Places,
         NEW s, s = [r EXCEPT !.restored = restored, !.tokens = tokens, !.at = at]
  PROVE  s \in Request
PROOF
<1>1. PICK g : g = [r EXCEPT !.at = at]
  OBVIOUS
<1>2. g \in Request
  BY <1>1 DEF Request
<1>3. PICK h : h = [g EXCEPT !.tokens = tokens]
  OBVIOUS
<1>4. h \in Request
  BY <1>2, <1>3 DEF Request
<1>5. s = [h EXCEPT !.restored = restored]
  BY <1>1, <1>3 DEF Request
<1> QED BY <1>4, <1>5 DEF Request

\* The items of the earlier response join the body, its carriers among them.
LEMMA RestoringStep ==
  ASSUME PipelineInv, RestoreHistory
  PROVE  PipelineInv'
PROOF
<1>0. PipelineTypeOK /\ HistoryIsTrue /\ Prepared /\ Sent
  BY DEF PipelineInv
<1>1. PICK r \in Request : r = req
  BY <1>0 DEF PipelineTypeOK
<1>2. /\ r.at = "history" /\ r.account \in Accounts /\ r.wire = "responses" /\ UNCHANGED <<world, store, issued, served>>
      /\ r.model \in Models /\ r.origin \in Origins
  BY <1>0, <1>1 DEF RestoreHistory, Prepared, Bound, Proceed
<1>3. PICK at \in Places : at = "plan"
  BY DEF Places
<1>4. PICK restored \in BOOLEAN, tokens \in SUBSET Nat :
        /\ req' = [r EXCEPT !.restored = restored, !.tokens = tokens, !.at = at]
        /\ \A n \in tokens : \E i \in issued : i.number = n
        /\ restored => r.restored \/ r.receipt # Absent
  <2>1. CASE /\ r.receipt \in store.receipts /\ r.receipt.complete
             /\ Proceed([r EXCEPT !.restored = TRUE, !.at = "plan",
                          !.tokens = @ \cup {c.token : c \in {d \in store.carriers : d.token = r.receipt.number}}])
    <3>1. PICK tokens \in SUBSET Nat :
            tokens = r.tokens \cup {c.token : c \in {d \in store.carriers : d.token = r.receipt.number}}
      <4>1. \A d \in store.carriers : d.token \in Nat
        BY <1>0 DEF PipelineTypeOK, Stored, Carrier
      <4>2. r.tokens \in SUBSET Nat
        BY DEF Request
      <4> QED BY <4>1, <4>2
    <3>2. \A n \in tokens : \E i \in issued : i.number = n
      BY <1>0, <1>1, <3>1 DEF Prepared, HistoryIsTrue, IsTrue, Known
    <3>3. r.receipt # Absent
      BY <1>0, <2>1, AbsentAssumption DEF PipelineTypeOK, Stored
    <3>4. req' = [r EXCEPT !.restored = TRUE, !.tokens = tokens, !.at = at]
      BY <1>3, <2>1, <3>1 DEF Proceed
    <3> QED BY <3>2, <3>3, <3>4
  <2>2. CASE Proceed([r EXCEPT !.at = "plan"])
    <3>1. r.restored \in BOOLEAN /\ r.tokens \in SUBSET Nat
      BY DEF Request
    <3>2. req' = [r EXCEPT !.restored = r.restored, !.tokens = r.tokens, !.at = at]
      BY <1>3, <2>2 DEF Proceed, Request
    <3>3. \A n \in r.tokens : \E i \in issued : i.number = n
      BY <1>0, <1>1 DEF Prepared
    <3> QED BY <3>1, <3>2, <3>3
  <2> QED BY <1>1, <2>1, <2>2 DEF RestoreHistory
<1>5. PICK s : s = req'
  OBVIOUS
<1>6. s \in Request
  BY <1>3, <1>4, <1>5, RestoringChanges
<1>7. /\ Same(s, r) /\ s.at = "plan" /\ s.account = r.account /\ s.tokens = tokens /\ s.claim = r.claim
      /\ s.receipt = r.receipt /\ s.requested = r.requested /\ s.restored = restored /\ s.sent = r.sent
      /\ s.model = r.model /\ s.origin = r.origin
  BY <1>3, <1>4, <1>5 DEF Request, Same
<1>8. /\ r.sent = Absent /\ r.wire # Absent
      /\ r.restored => r.receipt # Absent
      /\ r.receipt # Absent => /\ IsKept(r.receipt) /\ r.receipt.id = r.previous
                               /\ r.receipt.account = r.account /\ r.requested = r.receipt.model
                               /\ r.model = r.receipt.model /\ r.origin = r.receipt.origin
  BY <1>0, <1>1, <1>2 DEF Prepared, Sent, Sending, Bound, Over
<1>9. r.receipt # Absent => IsKept(r.receipt)'
  BY <1>2, <1>8, KnownStays
<1>10. Prepared'
  BY <1>2, <1>4, <1>5, <1>7, <1>8, <1>9 DEF Prepared, Same, Bound, Over
<1>11. Sent'
  BY <1>5, <1>7, <1>8 DEF Sent, Same, Sending
<1> QED BY <1>1, <1>2, <1>5, <1>6, <1>7, <1>10, <1>11, MovingStep DEF Same, Over

Posted(s, r, sent, at) ==
  /\ s \in Request /\ Same(s, r) /\ s.at = at /\ s.account = r.account /\ s.tokens = r.tokens
  /\ s.claim = r.claim /\ s.receipt = r.receipt /\ s.requested = r.requested
  /\ s.restored = r.restored /\ s.sent = sent /\ s.model = r.model /\ s.origin = r.origin

LEMMA SentChanges ==
  ASSUME NEW r \in Request, NEW sent \in Call, NEW at \in Places
  PROVE  Posted([r EXCEPT !.sent = sent, !.at = at], r, sent, at)
PROOF
<1>1. PICK s : s = [r EXCEPT !.sent = sent, !.at = at]
  OBVIOUS
<1>2. Posted(s, r, sent, at)
  BY <1>1, ZenonT(60) DEF Request, Same, Posted
<1> QED BY <1>1, <1>2

\* A planned request is sent where all that it builds on was made.
LEMMA PlanningStep ==
  ASSUME PipelineInv, req.at = "plan", NEW claim \in CarrierBinding \cup {Absent}, NEW previous,
         Planned(claim, previous), Claims(claim, req.tokens),
         claim # Absent /\ req.receipt # Absent => req.receipt.protocol = claim.source,
         previous \in {Absent, req.previous}
  PROVE  PipelineInv'
PROOF
<1>0. PipelineTypeOK /\ Prepared /\ Sent
  BY DEF PipelineInv
<1>1. PICK r \in Request : r = req
  BY <1>0 DEF PipelineTypeOK
<1>2. /\ r.at = "plan" /\ r.account \in Accounts /\ r.wire \in Protocols /\ r.model \in Models /\ r.origin \in Origins
      /\ r.protocols \in SUBSET Spoken /\ r.previous \in Ids \cup {Absent} /\ r.receipt \in Receipt \cup {Absent}
  BY <1>0, <1>1 DEF Prepared, Bound, Over, Request
<1>3. PICK forced : forced = ForcedTarget(r.receipt, claim)
  OBVIOUS
<1>4. PICK bound : bound = IF claim = Absent THEN Absent
                           ELSE Binding(r.account, r.model, r.origin, claim.source, r.wire)
  OBVIOUS
<1>5. PICK native \in BOOLEAN : native = PlansNative(r.protocols, r.wire, forced)
  BY DEF PlansNative
<1>6. CASE claim # bound
  <2>1. FailWith("invalid_request")
    BY <1>1, <1>4, <1>6 DEF Planned
  <2>2. "invalid_request" \in FailureKinds
    BY DEF FailureKinds, FAILURE_POLICY
  <2> QED BY <1>1, <1>2, <2>1, <2>2, FailingStep DEF Over
<1>7. CASE claim = bound /\ FailWith("unsupported_semantics")
  <2>2. "unsupported_semantics" \in FailureKinds
    BY DEF FailureKinds, FAILURE_POLICY
  <2> QED BY <1>1, <1>2, <1>7, <2>2, FailingStep DEF Over
<1>8. ASSUME claim = bound,
             NEW target \in IF native THEN {r.wire} ELSE Candidates(r.protocols, r.wire, forced),
             NEW sent,
             sent = [account |-> r.account, model |-> r.model, origin |-> r.origin, protocol |-> target,
                     previous |-> ForwardedId(previous, r.receipt, native)],
             Proceed([r EXCEPT !.sent = sent, !.at = "upstream"])
      PROVE  PipelineInv'
  <2>1. /\ r.receipt # Absent => r.receipt.protocol \in Protocols
        /\ claim # Absent => claim.source \in Protocols
    BY <1>2 DEF Receipt, CarrierBinding
  <2>2. forced \in Protocols \cup {Absent}
    BY <1>3, <2>1 DEF ForcedTarget
  <2>3. target \in Protocols /\ (forced # Absent => target = forced) /\ (native => target = r.wire)
    BY <1>2, <1>5, <1>8, <2>2 DEF PlansNative, Candidates, Spoken
  <2>4. PICK forwarded \in Ids \cup {Absent} : forwarded = ForwardedId(previous, r.receipt, native)
    BY <1>1, <1>2 DEF ForwardedId
  <2>5. sent \in Call
    BY <1>2, <1>8, <2>3, <2>4 DEF Call
  <2>6. PICK at \in Places : at = "upstream"
    BY DEF Places
  <2>7. PICK s : s = [r EXCEPT !.sent = sent, !.at = at]
    OBVIOUS
  <2>8. req' = s /\ UNCHANGED <<world, store, issued, served>>
    BY <1>8, <2>6, <2>7 DEF Proceed
  <2>9. /\ s \in Request /\ Same(s, r) /\ s.at = "upstream" /\ s.account = r.account /\ s.tokens = r.tokens
        /\ s.claim = r.claim /\ s.receipt = r.receipt /\ s.requested = r.requested
        /\ s.restored = r.restored /\ s.sent = sent /\ s.model = r.model /\ s.origin = r.origin
    <3>1. Posted(s, r, sent, at)
      BY <2>5, <2>6, <2>7, SentChanges
    <3> QED BY <2>6, <3>1 DEF Posted
  <2>10. /\ r.previous # Absent => r.wire = "responses"
         /\ \A n \in r.tokens : \E i \in issued : i.number = n
         /\ r.wire # Absent
         /\ r.restored => r.receipt # Absent
         /\ r.receipt # Absent => /\ r.wire = "responses" /\ IsKept(r.receipt) /\ r.receipt.id = r.previous
                                  /\ r.receipt.account = r.account /\ r.requested = r.receipt.model
                                  /\ r.model = r.receipt.model /\ r.origin = r.receipt.origin
    BY <1>0, <1>1, <1>2 DEF Prepared, Sent, Sending, Bound, Over
  <2>11. r.receipt # Absent => IsKept(r.receipt)'
    BY <2>8, <2>10, KnownStays
  <2>12. Prepared'
    BY <1>2, <2>8, <2>9, <2>10, <2>11 DEF Prepared, Same, Bound, Over
  <2>13. /\ sent.account = r.account /\ sent.model = r.model /\ sent.origin = r.origin
         /\ sent.protocol = target /\ sent.previous = forwarded
    BY <1>8, <2>4
  <2>14. ASSUME NEW n \in r.tokens
         PROVE  Known(n, r.account, r.model, r.origin, target)
    <3>1. claim # Absent /\ Known(n, claim.account, claim.model, claim.origin, claim.source)
      BY <1>1 DEF Claims
    <3>2. claim = [account |-> r.account, model |-> r.model, origin |-> r.origin,
                   source |-> claim.source, wire |-> r.wire]
      BY <1>4, <1>8, <3>1 DEF Binding
    <3>3. claim.account = r.account /\ claim.model = r.model /\ claim.origin = r.origin
      BY <3>2
    <3>4. forced = claim.source
      BY <1>1, <1>3, <3>1 DEF ForcedTarget
    <3>5. target = claim.source
      BY <2>1, <2>3, <3>1, <3>4, AbsentAssumption
    <3> QED BY <3>1, <3>3, <3>5
  <2>15. r.restored => \E i \in issued : i.id = r.previous /\ SameResponse(i, sent)
    <3>1. HAVE r.restored
    <3>2. r.receipt # Absent /\ IsKept(r.receipt) /\ r.receipt.id = r.previous
      BY <2>10, <3>1
    <3>3. PICK i \in issued : i.id = r.receipt.id /\ SameResponse(i, r.receipt)
      BY <3>2 DEF IsKept
    <3>4. forced = r.receipt.protocol /\ forced # Absent
      BY <1>3, <2>1, <3>2, AbsentAssumption DEF ForcedTarget
    <3> QED BY <2>3, <2>10, <2>13, <3>2, <3>3, <3>4 DEF SameResponse
  <2>16. forwarded # Absent => forwarded.kind = "native" /\ target = "responses"
    <3>1. HAVE forwarded # Absent
    <3>2. /\ native /\ previous = r.previous /\ previous # Absent /\ forwarded = previous
          /\ r.receipt # Absent \/ previous.kind = "native"
      BY <1>1, <2>4, <3>1 DEF ForwardedId
    <3>3. target = "responses"
      BY <2>3, <2>10, <3>2
    <3>4. CASE r.receipt # Absent
      <4>1. forced = r.receipt.protocol /\ forced # Absent
        BY <1>3, <2>1, <3>4, AbsentAssumption DEF ForcedTarget
      <4>2. r.receipt.protocol = "responses"
        BY <2>3, <3>3, <4>1
      <4> QED BY <2>10, <3>2, <3>3, <3>4, <4>2 DEF IsKept
    <3> QED BY <3>2, <3>3, <3>4
  <2>17. Sent'
    <3>1. \A n \in r.tokens : Known(n, r.account, r.model, r.origin, target)'
      BY <2>8, <2>14, KnownStays
    <3>2. sent # Absent
      BY <2>5, AbsentAssumption
    <3>3. issued' = issued /\ s.previous = r.previous
      BY <2>8, <2>9 DEF Same
    <3> QED BY <2>8, <2>9, <2>13, <2>15, <2>16, <3>1, <3>2, <3>3 DEF Sent, Sending, SameResponse
  <2> QED BY <1>1, <1>2, <2>8, <2>9, <2>12, <2>17, MovingStep DEF Same, Over
<1> QED
  <2>1. CASE claim = bound
    <3>1. \/ FailWith("unsupported_semantics")
          \/ \E target \in IF native THEN {r.wire} ELSE Candidates(r.protocols, r.wire, forced) :
               Proceed([r EXCEPT !.sent = [account |-> r.account, model |-> r.model, origin |-> r.origin,
                                           protocol |-> target,
                                           previous |-> ForwardedId(previous, r.receipt, native)],
                                 !.at = "upstream"])
      BY <1>1, <1>3, <1>4, <1>5, <2>1 DEF Planned
    <3> QED BY <1>7, <1>8, <2>1, <3>1
  <2> QED BY <1>6, <2>1

\* Chat and Messages look their claim up again; Responses claims the restored body anew.
LEMMA PlanStep ==
  ASSUME PipelineInv, PlanChat \/ PlanMessages \/ PlanResponses
  PROVE  PipelineInv'
PROOF
<1>0. PipelineTypeOK /\ Stored /\ HistoryIsTrue /\ Prepared
  BY DEF PipelineInv, PipelineTypeOK
<1>1. PICK r \in Request : r = req
  BY <1>0 DEF PipelineTypeOK
<1>2. r.at = "plan" /\ r.account \in Accounts /\ r.tokens \in SUBSET Nat
      /\ r.claim \in CarrierBinding \cup {Absent}
  BY <1>0, <1>1 DEF Prepared, Bound, Request, PlanChat, PlanMessages, PlanResponses, Replan
<1>3. "invalid_request" \in FailureKinds /\ "continuation_conflict" \in FailureKinds
  BY DEF FailureKinds, FAILURE_POLICY
<1>4. ASSUME NEW wire, Replan(wire), wire # "responses"
      PROVE  PipelineInv'
  <2>1. PICK again : again = Claim(r.tokens, r.account, wire)
    OBVIOUS
  <2>2. CASE again.failure # Absent
    <3>1. FailWith(again.failure)
      BY <1>1, <1>4, <2>1, <2>2 DEF Replan
    <3>2. again.failure \in FailureKinds
      BY <1>3, <2>1, <2>2 DEF Claim
    <3> QED BY <1>1, <1>2, <3>1, <3>2, FailingStep DEF Over
  <2>3. CASE again.failure = Absent
    <3>1. Planned(r.claim, Absent) /\ r.wire = wire
      BY <1>1, <1>4, <2>1, <2>3 DEF Replan
    <3>2. Claims(r.claim, r.tokens) /\ r.receipt = Absent
      BY <1>0, <1>1, <1>2, <1>4, <3>1 DEF Prepared
    <3> QED BY <1>1, <1>2, <3>1, <3>2, PlanningStep
  <2> QED BY <2>2, <2>3
<1>5. CASE PlanResponses
  <2>1. PICK second : second = Claim(r.tokens, r.account, "responses")
    OBVIOUS
  <2>2. CASE second.failure # Absent
    <3>1. FailWith(second.failure)
      BY <1>1, <1>5, <2>1, <2>2 DEF PlanResponses
    <3>2. second.failure \in FailureKinds
      BY <1>3, <2>1, <2>2 DEF Claim
    <3> QED BY <1>1, <1>2, <3>1, <3>2, FailingStep DEF Over
  <2>3. CASE second.failure = Absent /\ ~CarrierContinuation(r.claim, second.binding, r.receipt)
    <3>1. FailWith("continuation_conflict")
      BY <1>1, <1>5, <2>1, <2>3 DEF PlanResponses
    <3> QED BY <1>1, <1>2, <1>3, <3>1, FailingStep DEF Over
  <2>4. CASE second.failure = Absent /\ CarrierContinuation(r.claim, second.binding, r.receipt)
    <3>1. PICK claim \in CarrierBinding \cup {Absent} : claim = second.binding /\ Claims(claim, r.tokens)
      BY <1>0, <1>2, <2>1, <2>4, ClaimIsBound
    <3>2. PICK previous : previous = IF r.receipt # Absent /\ r.receipt.protocol # "responses" THEN Absent ELSE r.previous
      OBVIOUS
    <3>3. Planned(claim, previous)
      BY <1>1, <1>5, <2>1, <2>4, <3>1, <3>2 DEF PlanResponses
    <3>4. claim # Absent /\ r.receipt # Absent => r.receipt.protocol = claim.source
      BY <2>4, <3>1 DEF CarrierContinuation
    <3>5. previous \in {Absent, r.previous}
      BY <3>2
    <3> QED BY <1>1, <1>2, <3>1, <3>3, <3>4, <3>5, PlanningStep
  <2> QED BY <2>2, <2>3, <2>4
<1>6. PlanChat => Replan("chat")
  BY DEF PlanChat
<1>7. PlanMessages => Replan("messages")
  BY DEF PlanMessages
<1> QED BY <1>4, <1>5, <1>6, <1>7

------------------------------------------------------------------------------
\* What the upstream's answer leaves behind.

\* The response made for the request in progress is a response, and its number is new.
LEMMA IdentifiedIsNew ==
  ASSUME PipelineInv, req.at \in Sending
  PROVE  /\ Identified \in Response
         /\ Identified.number = served /\ Identified.id.number = served
         /\ Identified.id.kind = IF Native THEN "native" ELSE "managed"
         /\ Identified.account = req.account /\ Identified.model = req.model /\ Identified.origin = req.origin
         /\ Identified.protocol = req.sent.protocol
         /\ req.account \in Accounts /\ req.model \in Models /\ req.origin \in Origins
         /\ req.sent \in Call /\ req.sent.protocol \in Protocols /\ req.wire \in Protocols /\ served \in Nat
PROOF
<1>0. PipelineTypeOK /\ Prepared /\ Sent
  BY DEF PipelineInv
<1>1. /\ req.account \in Accounts /\ req.model \in Models /\ req.origin \in Origins /\ req.sent \in Call
      /\ req.wire \in Protocols /\ served \in Nat
  BY <1>0 DEF PipelineTypeOK, Prepared, Sent, Sending, Bound, Over, Request
<1>2. req.sent.protocol \in Protocols
  BY <1>1 DEF Call
<1>7. PICK k \in {"native", "managed"} : k = IF Native THEN "native" ELSE "managed"
  OBVIOUS
<1>8. [kind |-> k, number |-> served] \in Ids
  BY <1>1 DEF Ids
<1>3. PICK id \in Ids : id = [kind |-> k, number |-> served]
  BY <1>8
<1>4. Identified = [id |-> id, number |-> served, account |-> req.account, model |-> req.model,
                    origin |-> req.origin, protocol |-> req.sent.protocol]
  BY <1>3, <1>7 DEF Identified
<1>5. Identified \in Response
  BY <1>1, <1>2, <1>3, <1>4 DEF Response
<1>6. id.number = served /\ id.kind = IF Native THEN "native" ELSE "managed"
  BY <1>3, <1>7
<1> QED BY <1>1, <1>2, <1>4, <1>5, <1>6

LEMMA IssuedStaysUnique ==
  ASSUME PipelineInv, req.at = "upstream", issued' = issued \cup {Identified}, served' = served
  PROVE  issued' \subseteq Response /\ Unique'
PROOF
<1>0. PipelineTypeOK /\ Numbered
  BY DEF PipelineInv
<1>1. PICK made \in Response : made = Identified /\ made.number = served /\ made.id.number = served
  BY IdentifiedIsNew DEF Sending
<1>2. \A i \in issued : i.number < served /\ i.number = i.id.number
  BY <1>0 DEF Numbered, Unique, Over
<1>3. \A i \in issued : i.number \in Nat
  BY <1>0 DEF PipelineTypeOK, Response
<1>4. served \in Nat
  BY <1>0 DEF PipelineTypeOK
<1>5. issued' \subseteq Response
  BY <1>0, <1>1 DEF PipelineTypeOK
<1>6. \A i \in issued' : i.number = i.id.number /\ i.number <= served'
  BY <1>1, <1>2, <1>3, <1>4
<1>7. ASSUME NEW i \in issued', NEW j \in issued', i.number = j.number
      PROVE  i = j
  <2>1. CASE i \in issued /\ j \in issued
    BY <1>0, <1>7, <2>1 DEF Numbered, Unique
  <2>2. CASE i = made
    BY <1>1, <1>2, <1>3, <1>4, <1>7, <2>2
  <2>3. CASE j = made
    BY <1>1, <1>2, <1>3, <1>4, <1>7, <2>3
  <2> QED BY <1>1, <2>1, <2>2, <2>3
<1> QED BY <1>5, <1>6, <1>7 DEF Unique

\* The carriers the gateway makes are those of the response it has made.
LEMMA MadeIsTrue ==
  ASSUME PipelineInv, req.at = "upstream", NEW carried \in BOOLEAN, Identified \in issued'
  PROVE  /\ Made(carried) \in SUBSET Carrier /\ IsFiniteSet(Made(carried))
         /\ \A c \in Made(carried) : c.token = served /\ IsTrue(c)'
         /\ {c.token : c \in Made(carried)} \in SUBSET Nat
PROOF
<1>1. /\ req.account \in Accounts /\ req.model \in Models /\ req.origin \in Origins
      /\ req.sent.protocol \in Protocols /\ req.wire \in Protocols /\ served \in Nat
      /\ Identified.number = served
      /\ Identified.account = req.account /\ Identified.model = req.model /\ Identified.origin = req.origin
      /\ Identified.protocol = req.sent.protocol
  BY IdentifiedIsNew DEF Sending
<1>2. PICK made : made = [token |-> served, account |-> req.account, model |-> req.model, origin |-> req.origin,
                          source |-> req.sent.protocol, wire |-> req.wire, state |-> "partial"]
  OBVIOUS
<1>3. /\ made \in Carrier /\ made.token = served /\ made.account = req.account /\ made.model = req.model
      /\ made.origin = req.origin /\ made.source = req.sent.protocol
  BY <1>1, <1>2 DEF Carrier
<1>4. Known(made.token, made.account, made.model, made.origin, made.source)'
  BY <1>1, <1>3 DEF Known
<1>5. Made(carried) = IF carried THEN {made} ELSE {}
  BY <1>2 DEF Made
<1>6. IsFiniteSet({made}) /\ IsFiniteSet({})
  BY FS_Singleton, FS_EmptySet
<1> QED BY <1>1, <1>3, <1>4, <1>5, <1>6 DEF IsTrue

\* The made carriers join the stored ones.
LEMMA MadeIsStored ==
  ASSUME PipelineInv, req.at = "upstream", NEW carried \in BOOLEAN, Identified \in issued', issued \subseteq issued',
         NEW carriers, carriers = store.carriers \cup Made(carried)
  PROVE  /\ carriers \in SUBSET Carrier /\ IsFiniteSet(carriers)
         /\ \A c \in carriers : IsTrue(c)'
         /\ \A c \in carriers : c.state = "complete" \/ c \in Made(carried)
PROOF
<1>0. PipelineTypeOK /\ HistoryIsTrue /\ Created
  BY DEF PipelineInv
<1>1. /\ Made(carried) \in SUBSET Carrier /\ IsFiniteSet(Made(carried))
      /\ \A c \in Made(carried) : IsTrue(c)'
  BY MadeIsTrue
<1>2. store.carriers \in SUBSET Carrier /\ IsFiniteSet(store.carriers)
  BY <1>0 DEF PipelineTypeOK, Stored
<1>3. IsFiniteSet(carriers)
  BY <1>1, <1>2, FS_Union
<1>4. \A c \in store.carriers : IsTrue(c)'
  BY <1>0, KnownStays DEF HistoryIsTrue, IsTrue
<1>5. \A c \in store.carriers : c.state = "complete"
  BY <1>0 DEF Created
<1> QED BY <1>1, <1>2, <1>3, <1>4, <1>5

\* The stored receipts stay true.
LEMMA ReceiptsStay ==
  ASSUME PipelineInv, issued \subseteq issued'
  PROVE  \A r \in store.receipts : IsKept(r)'
BY KnownStays DEF PipelineInv, HistoryIsTrue

\* The step that leaves a Responses answer to be stored.
LEMMA CheckpointingStep ==
  ASSUME PipelineInv, req.at = "upstream", req.wire = "responses", NEW carried \in BOOLEAN,
         world' = world, served' = served, issued' = issued \cup {Identified},
         store' = [store EXCEPT !.carriers = @ \cup Made(carried)],
         req' \in Request, req'.at = "checkpoint", SameSources(req', req),
         req'.wire = req.wire, req'.previous = req.previous, req'.work = req.work, req'.gone = req.gone,
         req'.recorded = req.recorded, req'.answer = req.answer,
         req'.created = {c.token : c \in Made(carried)}
  PROVE  PipelineInv'
PROOF
<1>0. PipelineTypeOK /\ Recorded /\ AnswerMatchesRecord /\ Created /\ Numbered /\ HistoryIsTrue /\ Prepared /\ Sent
  BY DEF PipelineInv
<1>1. PICK carriers : carriers = store.carriers \cup Made(carried)
  OBVIOUS
<1>2. /\ carriers \in SUBSET Carrier /\ IsFiniteSet(carriers)
      /\ \A c \in carriers : IsTrue(c)'
      /\ \A c \in carriers : c.state = "complete" \/ c \in Made(carried)
  BY <1>1, MadeIsStored
<1>3. /\ store' \in [receipts : SUBSET Receipt, carriers : SUBSET Carrier]
      /\ store'.carriers = carriers /\ store'.receipts = store.receipts
  BY <1>0, <1>1, <1>2 DEF PipelineTypeOK, Stored
<1>4. issued' \subseteq Response /\ Unique'
  BY IssuedStaysUnique
<1>5. PipelineTypeOK'
  BY <1>0, <1>2, <1>3, <1>4 DEF PipelineTypeOK, Stored
<1>6. Recorded'
  BY <1>0 DEF Recorded, Over
<1>7. AnswerMatchesRecord'
  BY <1>0 DEF AnswerMatchesRecord
<1>8. Created'
  BY <1>2, <1>3 DEF Created
<1>9. Numbered'
  BY <1>4 DEF Numbered
<1>10. HistoryIsTrue'
  BY <1>2, <1>3, ReceiptsStay DEF HistoryIsTrue
<1>11. PICK r, s : r = req /\ s = req'
  OBVIOUS
<1>12. /\ s.wire = r.wire /\ s.previous = r.previous /\ s.at = "checkpoint"
       /\ s.tokens = r.tokens /\ s.account = r.account /\ s.claim = r.claim /\ s.receipt = r.receipt
       /\ s.requested = r.requested /\ s.model = r.model /\ s.origin = r.origin
       /\ s.restored = r.restored /\ s.sent = r.sent
  BY <1>11 DEF SameSources
<1>13. /\ r.at = "upstream" /\ r.wire = "responses" /\ r.wire # Absent
       /\ r.account \in Accounts /\ r.model \in Models /\ r.origin \in Origins
       /\ \A n \in r.tokens : \E i \in issued' : i.number = n
       /\ r.restored => r.receipt # Absent
       /\ r.receipt # Absent => /\ IsKept(r.receipt) /\ r.receipt.id = r.previous
                                /\ r.receipt.account = r.account /\ r.requested = r.receipt.model
                                /\ r.model = r.receipt.model /\ r.origin = r.receipt.origin
       /\ r.sent # Absent
       /\ \A n \in r.tokens : Known(n, r.sent.account, r.sent.model, r.sent.origin, r.sent.protocol)
       /\ r.restored => \E i \in issued : i.id = r.previous /\ SameResponse(i, r.sent)
       /\ r.sent.previous # Absent => r.sent.previous.kind = "native" /\ r.sent.protocol = "responses"
  BY <1>0, <1>11 DEF Prepared, Sent, Sending, Bound, Over
<1>14. /\ r.receipt # Absent => IsKept(r.receipt)'
       /\ \A n \in r.tokens : Known(n, r.sent.account, r.sent.model, r.sent.origin, r.sent.protocol)'
  BY <1>13, KnownStays
<1>15. Prepared'
  BY <1>11, <1>12, <1>13, <1>14 DEF Prepared, Bound, Over
<1>16. Identified' = Identified
  BY <1>11, <1>12 DEF Identified, Native
<1>17. Sent'
  BY <1>11, <1>12, <1>13, <1>14, <1>16 DEF Sent, Sending, SameResponse
<1> QED BY <1>5, <1>6, <1>7, <1>8, <1>9, <1>10, <1>15, <1>17 DEF PipelineInv

Parked(s, r, created, at) ==
  /\ s \in Request /\ s.at = at /\ SameSources(s, r) /\ s.created = created
  /\ s.wire = r.wire /\ s.previous = r.previous /\ s.work = r.work /\ s.gone = r.gone
  /\ s.recorded = r.recorded /\ s.answer = r.answer

LEMMA CheckpointChanges ==
  ASSUME NEW r \in Request, NEW created \in SUBSET Nat, NEW terminal \in {"completed", "incomplete", Absent},
         NEW at \in Places
  PROVE  Parked([r EXCEPT !.at = at, !.created = created, !.terminal = terminal], r, created, at)
PROOF
<1>1. PICK s : s = [r EXCEPT !.at = at, !.created = created, !.terminal = terminal]
  OBVIOUS
<1>2. Parked(s, r, created, at)
  BY <1>1, ZenonT(60) DEF Request, SameSources, Parked
<1> QED BY <1>1, <1>2

\* A native body that names itself, and a converted one, are stored before they are answered.
LEMMA NamedStep ==
  ASSUME PipelineInv, NativeResponses(TRUE)
  PROVE  PipelineInv'
PROOF
<1>1. PICK r \in Request : r = req
  BY DEF PipelineInv, PipelineTypeOK
<1>2. /\ r.at = "upstream" /\ r.wire = "responses"
      /\ issued' = issued \cup {Identified} /\ UNCHANGED <<world, store, served>>
      /\ req' = [r EXCEPT !.at = "checkpoint", !.terminal = "completed"]
  BY <1>1 DEF NativeResponses
<1>3. PICK none \in SUBSET Nat : none = r.created /\ none = {}
  BY <1>1, <1>2 DEF PipelineInv, Created, Request
<1>4. PICK at \in Places, terminal \in {"completed", "incomplete", Absent} : at = "checkpoint" /\ terminal = "completed"
  BY DEF Places
<1>5. req' = [r EXCEPT !.at = at, !.created = none, !.terminal = terminal]
  BY <1>2, <1>3, <1>4 DEF Request
<1>6. PICK no \in BOOLEAN : no = FALSE
  OBVIOUS
<1>7. Made(no) = {}
  BY <1>6 DEF Made
<1>8. none = {c.token : c \in Made(no)}
  BY <1>3, <1>7
<1>9. store' = [store EXCEPT !.carriers = @ \cup Made(no)]
  BY <1>2, <1>7 DEF PipelineInv, PipelineTypeOK, Stored
<1>10. /\ req' \in Request /\ req'.at = "checkpoint" /\ SameSources(req', r) /\ req'.created = none
       /\ req'.wire = r.wire /\ req'.previous = r.previous /\ req'.work = r.work /\ req'.gone = r.gone
       /\ req'.recorded = r.recorded /\ req'.answer = r.answer
  <2>1. Parked(req', r, none, at)
    BY <1>4, <1>5, CheckpointChanges
  <2> QED BY <1>4, <2>1 DEF Parked
<1> QED BY <1>1, <1>2, <1>8, <1>9, <1>10, CheckpointingStep

LEMMA ConvertResponsesStep ==
  ASSUME PipelineInv, NEW completed \in BOOLEAN, NEW carried \in BOOLEAN, ConvertResponses(completed, carried)
  PROVE  PipelineInv'
PROOF
<1>1. PICK r \in Request : r = req
  BY DEF PipelineInv, PipelineTypeOK
<1>2. PICK terminal \in {"completed", "incomplete", Absent} : terminal = IF completed THEN "completed" ELSE "incomplete"
  OBVIOUS
<1>3. /\ r.at = "upstream" /\ r.wire = "responses"
      /\ issued' = issued \cup {Identified} /\ UNCHANGED <<world, served>>
      /\ req' = [r EXCEPT !.at = "checkpoint", !.created = {c.token : c \in Made(carried)}, !.terminal = terminal]
      /\ store' = [store EXCEPT !.carriers = @ \cup Made(carried)]
  BY <1>1, <1>2 DEF ConvertResponses
<1>4. PICK created \in SUBSET Nat : created = {c.token : c \in Made(carried)}
  BY <1>1, <1>3, MadeIsTrue
<1>5. PICK at \in Places : at = "checkpoint"
  BY DEF Places
<1>6. /\ req' \in Request /\ req'.at = "checkpoint" /\ SameSources(req', r) /\ req'.created = created
      /\ req'.wire = r.wire /\ req'.previous = r.previous /\ req'.work = r.work /\ req'.gone = r.gone
      /\ req'.recorded = r.recorded /\ req'.answer = r.answer
  <2>1. req' = [r EXCEPT !.at = at, !.created = created, !.terminal = terminal]
    BY <1>3, <1>4, <1>5
  <2>2. Parked(req', r, created, at)
    BY <1>2, <2>1, CheckpointChanges
  <2> QED BY <1>5, <2>2 DEF Parked
<1> QED BY <1>1, <1>3, <1>4, <1>6, CheckpointingStep

\* A converted body settles its carriers in the turn it arrives.
LEMMA ConvertsStep ==
  ASSUME PipelineInv, NEW wire, NEW completed \in BOOLEAN, NEW carried \in BOOLEAN,
         Converts(wire, completed, carried)
  PROVE  PipelineInv'
PROOF
<1>0. PipelineTypeOK
  BY DEF PipelineInv
<1>1. /\ req.at = "upstream" /\ world' = world /\ served' = served /\ issued' = issued \cup {Identified}
      /\ req' = Returned(req, "success", "body")
  BY DEF Converts
<1>2. Closed(req')
  BY <1>0, <1>1, OpenIsUntold, ReturnCloses DEF PipelineTypeOK, Over
<1>3. PICK carriers : carriers = store.carriers \cup Made(carried)
  OBVIOUS
<1>4. /\ carriers \in SUBSET Carrier /\ IsFiniteSet(carriers)
      /\ \A c \in carriers : IsTrue(c)'
      /\ \A c \in carriers : c.state = "complete" \/ c \in Made(carried)
  BY <1>1, <1>3, MadeIsStored
<1>5. PICK after : after = CarriersAfter(carriers, {c.token : c \in Made(carried)}, completed)
  OBVIOUS
<1>6. Settled(after, carriers, {c.token : c \in Made(carried)})
  BY <1>4, <1>5, CarriersSettle
<1>7. /\ store' \in [receipts : SUBSET Receipt, carriers : SUBSET Carrier]
      /\ store'.carriers = after /\ store'.receipts = store.receipts
  <2>1. store' = [store EXCEPT !.carriers = after]
    BY <1>3, <1>5 DEF Converts
  <2>2. after \in SUBSET Carrier
    BY <1>6 DEF Settled
  <2> QED BY <1>0, <2>1, <2>2 DEF PipelineTypeOK, Stored
<1>8. Stored'
  BY <1>6, <1>7 DEF Stored, Settled
<1>9. issued' \subseteq Response /\ Unique'
  BY <1>1, IssuedStaysUnique
<1>10. \A c \in after : IsTrue(c)'
  BY <1>4, <1>6 DEF Settled, SameCarrier, IsTrue
<1>11. HistoryIsTrue'
  BY <1>1, <1>7, <1>10, ReceiptsStay DEF HistoryIsTrue
<1>12. \A c \in store'.carriers : c.state = "complete"
  BY <1>4, <1>6, <1>7 DEF Settled
<1> QED BY <1>1, <1>2, <1>8, <1>9, <1>11, <1>12, ClosingStep

\* The receipt of an answer that was made is stored, and its carriers with it.
LEMMA PersistStep ==
  ASSUME PipelineInv, PersistCheckpoint
  PROVE  PipelineInv'
PROOF
<1>0. PipelineTypeOK /\ Created /\ Numbered /\ HistoryIsTrue /\ Prepared /\ Sent
  BY DEF PipelineInv
<1>1. /\ req.at = "checkpoint" /\ world' = world /\ served' = served /\ issued' = issued
      /\ req.wire = "responses" /\ Identified \in issued
  BY <1>0 DEF PersistCheckpoint, Prepared, Sent
<1>2. PICK outcome \in {"success", "upstream_error"} : req' = Returned(req, outcome, "body")
  BY DEF PersistCheckpoint, NativeOutcomes
<1>3. Closed(req')
  BY <1>0, <1>1, <1>2, OpenIsUntold, ReturnCloses DEF PipelineTypeOK, Over
<1>4. PICK completed \in BOOLEAN : completed = (req.terminal = "completed")
  OBVIOUS
<1>5. PICK receipt : receipt = [id |-> Identified.id, number |-> served, account |-> req.account, model |-> req.model,
                                origin |-> req.origin, protocol |-> req.sent.protocol, complete |-> completed]
  OBVIOUS
<1>6. PICK after : after = CarriersAfter(store.carriers, req.created, completed)
  OBVIOUS
<1>7. store' = [receipts |-> store.receipts \cup {receipt}, carriers |-> after]
  BY <1>4, <1>5, <1>6 DEF PersistCheckpoint
<1>8. store.carriers \in SUBSET Carrier /\ IsFiniteSet(store.carriers) /\ store.receipts \in SUBSET Receipt
  BY <1>0 DEF PipelineTypeOK, Stored
<1>9. Settled(after, store.carriers, req.created)
  BY <1>6, <1>8, CarriersSettle
<1>10. PICK made \in Response :
          /\ made = Identified /\ made.id.kind = (IF Native THEN "native" ELSE "managed")
          /\ made.account = req.account /\ made.model = req.model /\ made.origin = req.origin
          /\ made.protocol = req.sent.protocol
          /\ req.account \in Accounts /\ req.model \in Models /\ req.origin \in Origins
          /\ req.sent.protocol \in Protocols /\ served \in Nat
  BY <1>1, IdentifiedIsNew DEF Sending
<1>11. receipt \in Receipt
  <2>1. made.id \in Ids
    BY DEF Response
  <2>2. receipt = [id |-> made.id, number |-> served, account |-> req.account, model |-> req.model,
                                origin |-> req.origin, protocol |-> req.sent.protocol, complete |-> completed]
    BY <1>5, <1>10
  <2> QED BY <1>4, <1>10, <2>1, <2>2 DEF Receipt
<1>12. store' \in [receipts : SUBSET Receipt, carriers : SUBSET Carrier]
       /\ store'.carriers = after /\ store'.receipts = store.receipts \cup {receipt}
  BY <1>7, <1>8, <1>9, <1>11 DEF Settled
<1>13. Stored'
  BY <1>9, <1>12 DEF Stored, Settled
<1>14. issued' \subseteq Response /\ Unique'
  BY <1>0, <1>1 DEF PipelineTypeOK, Numbered, Unique
<1>15. IsKept(receipt)'
  <2>1. /\ receipt.id = made.id /\ receipt.account = made.account /\ receipt.model = made.model
        /\ receipt.origin = made.origin /\ receipt.protocol = made.protocol
    BY <1>5, <1>10
  <2>2. receipt.protocol = "responses" => receipt.id.kind = "native"
    BY <1>1, <1>10, <2>1 DEF Native
  <2>3. made \in issued'
    BY <1>1, <1>10
  <2> QED BY <2>1, <2>2, <2>3 DEF IsKept, SameResponse
<1>16. \A c \in after : IsTrue(c)'
  BY <1>0, <1>1, <1>9, KnownStays DEF HistoryIsTrue, IsTrue, Settled, SameCarrier
<1>17. \A r \in store.receipts : IsKept(r)'
  BY <1>1, ReceiptsStay
<1>18. HistoryIsTrue'
  BY <1>12, <1>15, <1>16, <1>17 DEF HistoryIsTrue
<1>19. \A c \in store'.carriers : c.state = "complete"
  BY <1>0, <1>9, <1>12 DEF Created, Settled
<1> QED BY <1>1, <1>3, <1>13, <1>14, <1>18, <1>19, ClosingStep

\* A request keeps its shape when its record and its answer change.
LEMMA EndChanges ==
  ASSUME NEW f \in Request, NEW recorded \in Outcomes \cup {Absent}, NEW answer \in Answers \cup {Absent}
  PROVE  [f EXCEPT !.recorded = recorded, !.answer = answer] \in Request
PROOF
<1>1. PICK g : g = [f EXCEPT !.recorded = recorded]
  OBVIOUS
<1>2. g \in Request
  BY <1>1, ZenonT(60) DEF Request
<1>3. PICK h : h = [g EXCEPT !.answer = answer]
  OBVIOUS
<1>4. h \in Request
  BY <1>2, <1>3, ZenonT(60) DEF Request
<1>5. [f EXCEPT !.recorded = recorded, !.answer = answer] = h
  BY <1>1, <1>3
<1> QED BY <1>4, <1>5

LEMMA DeliveredStep ==
  ASSUME PipelineInv, BodyDelivered
  PROVE  PipelineInv'
PROOF
<1>0. PipelineTypeOK /\ Recorded /\ AnswerMatchesRecord /\ Created /\ Numbered /\ HistoryIsTrue
  BY DEF PipelineInv
<1>1. req.at = "answering" /\ req' = Cleaned(req) /\ UNCHANGED <<world, store, issued, served>>
  BY DEF BodyDelivered, Proceed
<1>2. PICK r \in Request : r = req
  BY <1>0 DEF PipelineTypeOK
<1>3. PICK f \in Request : f = FinishedRequest /\ Closed(f) /\ f.at = "done" /\ ~f.permit /\ ~f.timer /\ ~f.gone
  BY FinishedIsClosed DEF Closed
<1>4. req' = [f EXCEPT !.recorded = r.recorded, !.answer = r.answer]
  BY <1>1, <1>2, <1>3 DEF Cleaned
<1>5. PICK recorded \in Outcomes \cup {Absent}, answer \in Answers \cup {Absent} : recorded = r.recorded /\ answer = r.answer
  BY DEF Request
<1>6. PICK s : s = [f EXCEPT !.recorded = recorded, !.answer = answer]
  OBVIOUS
<1>7. s \in Request
  BY <1>6, EndChanges
<1>8. /\ s.at = f.at /\ s.wire = f.wire /\ s.previous = f.previous /\ s.tokens = f.tokens /\ s.receipt = f.receipt
      /\ s.restored = f.restored /\ s.sent = f.sent /\ s.created = f.created /\ s.permit = f.permit
      /\ s.timer = f.timer /\ s.gone = f.gone /\ s.recorded = recorded /\ s.answer = answer
  BY <1>6 DEF Request
<1>9. Told(s)
  BY <1>0, <1>2, <1>3, <1>5, <1>8 DEF AnswerMatchesRecord, Told, Tells, FailureKinds
<1>10. Closed(s)
  BY <1>3, <1>7, <1>8, <1>9 DEF Closed
<1>11. req' = s
  BY <1>4, <1>5, <1>6
<1>12. Stored' /\ issued' \subseteq Response /\ Unique'
  BY <1>0, <1>1 DEF PipelineTypeOK, Stored, Numbered, Unique
<1>13. HistoryIsTrue'
  BY <1>0, <1>1, KnownStays DEF HistoryIsTrue, IsTrue
<1>14. \A c \in store'.carriers : c.state = "complete"
  <2>1. req.created = {}
    BY <1>0, <1>1 DEF Created
  <2> QED BY <1>0, <1>1, <2>1 DEF Created
<1> QED BY <1>1, <1>10, <1>11, <1>12, <1>13, <1>14, ClosingStep

------------------------------------------------------------------------------
\* Interruptions and the surroundings.

\* What an interruption changes: how the request works, and what is recorded if nothing was.
SameButCut(s, t) ==
  /\ s.at = t.at /\ SameSources(s, t) /\ s.created = t.created
  /\ s.wire = t.wire /\ s.previous = t.previous /\ s.answer = t.answer
  /\ s.permit = t.permit /\ s.timer = t.timer

CutOff(s, r, outcome) ==
  /\ s \in Request
  /\ SameButCut(s, r)
  /\ s.recorded = IF r.recorded = Absent THEN outcome ELSE r.recorded
  /\ s.work = IF r.work = "live" THEN outcome ELSE r.work

LEMMA WorkChanges ==
  ASSUME NEW r \in Request, NEW work \in Works, NEW s, s = [r EXCEPT !.work = work]
  PROVE  s \in Request /\ SameButCut(s, r) /\ s.work = work /\ s.recorded = r.recorded
PROOF
<1>1. s \in Request
  BY DEF Request
<1>2. s.work = work /\ s.recorded = r.recorded /\ SameButCut(s, r)
  BY DEF Request, SameButCut, SameSources
<1> QED BY <1>1, <1>2

LEMMA GoneChanges ==
  ASSUME NEW r \in Request, NEW gone \in BOOLEAN, NEW s, s = [r EXCEPT !.gone = gone]
  PROVE  s \in Request /\ SameButCut(s, r) /\ s.work = r.work /\ s.recorded = r.recorded
PROOF
<1>1. s \in Request
  BY DEF Request
<1>2. s.work = r.work /\ s.recorded = r.recorded /\ SameButCut(s, r)
  BY DEF Request, SameButCut, SameSources
<1> QED BY <1>1, <1>2

LEMMA RecordedChanges ==
  ASSUME NEW r \in Request, NEW recorded \in Outcomes \cup {Absent}, NEW s, s = [r EXCEPT !.recorded = recorded]
  PROVE  s \in Request /\ SameButCut(s, r) /\ s.work = r.work
PROOF
<1>1. s \in Request
  BY DEF Request
<1>2. s.work = r.work /\ SameButCut(s, r)
  BY DEF Request, SameButCut, SameSources
<1> QED BY <1>1, <1>2

\* A request that is cut off is recorded so, unless something was recorded of it before.
LEMMA CutStep ==
  ASSUME PipelineInv, UNCHANGED <<world, store, issued, served>>,
         req.at # "done", NEW outcome \in {"timeout", "aborted"}, CutOff(req', req, outcome)
  PROVE  PipelineInv'
PROOF
<1>0. PipelineTypeOK /\ Recorded /\ AnswerMatchesRecord /\ Created /\ Numbered /\ HistoryIsTrue /\ Prepared /\ Sent
  BY DEF PipelineInv
<1>1. PICK r \in Request : r = req
  BY <1>0 DEF PipelineTypeOK
<1>2. PICK s \in Request : s = req' /\ CutOff(s, r, outcome)
  BY <1>1 DEF CutOff
<1>3. PICK work : work = IF r.work = "live" THEN outcome ELSE r.work
  OBVIOUS
<1>7. /\ s.at = r.at /\ s.wire = r.wire /\ s.previous = r.previous /\ s.created = r.created
      /\ s.tokens = r.tokens /\ s.account = r.account /\ s.claim = r.claim /\ s.receipt = r.receipt
      /\ s.requested = r.requested /\ s.model = r.model /\ s.origin = r.origin
      /\ s.restored = r.restored /\ s.sent = r.sent /\ s.answer = r.answer
      /\ s.permit = r.permit /\ s.timer = r.timer
      /\ s.recorded = IF r.recorded = Absent THEN outcome ELSE r.recorded
      /\ s.work = work
  BY <1>2, <1>3 DEF CutOff, SameButCut, SameSources
<1>8. /\ r.work \in Works /\ "success" # Absent /\ "upstream_error" # Absent /\ "timeout" # Absent /\ "aborted" # Absent
      /\ "body" # Absent /\ Absent \notin FailureKinds
      /\ \A kind \in FailureKinds : FAILURE_POLICY[kind] # Absent
  BY FailuresFail DEF Request, Answers
<1>9. work \in Works /\ work # "live"
  BY <1>3, <1>8 DEF Works
<1>10. PipelineTypeOK'
  BY <1>0, <1>2 DEF PipelineTypeOK, Stored
<1>11. Recorded'
  <2>1. r.at \notin Over => Untold(r)
    BY <1>1, OpenIsUntold
  <2>2. r.at \notin Over => /\ s.answer = Absent
                            /\ s.recorded = work
    BY <1>1, <1>3, <1>7, <1>8, <2>1 DEF Untold, Works
  <2>3. work = "timeout" \/ work = "aborted"
    BY <1>9 DEF Works
  <2> QED BY <1>2, <1>7, <1>9, <2>2, <2>3 DEF Recorded
<1>12. AnswerMatchesRecord'
  <2>1. /\ r.answer = "body" => r.recorded \in {"success", "upstream_error"}
        /\ r.recorded = "success" => r.answer = "body"
        /\ r.answer \in FailureKinds => r.recorded \in {FAILURE_POLICY[r.answer], "aborted"}
    BY <1>0, <1>1 DEF AnswerMatchesRecord, FailureKinds
  <2>2. /\ s.answer = "body" => s.recorded \in {"success", "upstream_error"}
        /\ s.recorded = "success" => s.answer = "body"
        /\ s.answer \in FailureKinds => s.recorded \in {FAILURE_POLICY[s.answer], "aborted"}
    BY <1>7, <1>8, <2>1
  <2> QED BY <1>2, <2>2 DEF AnswerMatchesRecord, FailureKinds
<1>13. Created'
  BY <1>0, <1>1, <1>2, <1>7 DEF Created
<1>14. Numbered'
  BY <1>0, <1>1, <1>2, <1>7 DEF Numbered, Unique
<1>15. HistoryIsTrue'
  BY <1>0, KnownStays DEF HistoryIsTrue, IsTrue
<1>16. Prepared'
  <2>1. /\ IsKept(r.receipt) => IsKept(r.receipt)'
        /\ Claims(r.claim, r.tokens) => Claims(r.claim, r.tokens)'
    BY KnownStays
  <2> QED BY <1>0, <1>1, <1>2, <1>7, <2>1 DEF Prepared
<1>17. Sent'
  <2>1. Identified' = Identified
    BY <1>1, <1>2, <1>7 DEF Identified, Native
  <2>2. \A n, a, m, o1, p : Known(n, a, m, o1, p) => Known(n, a, m, o1, p)'
    BY KnownStays
  <2> QED BY <1>0, <1>1, <1>2, <1>7, <2>1, <2>2 DEF Sent, SameResponse
<1> QED BY <1>10, <1>11, <1>12, <1>13, <1>14, <1>15, <1>16, <1>17 DEF PipelineInv

LEMMA CutOffHolds ==
  ASSUME NEW r \in Request, NEW outcome \in {"timeout", "aborted"}, NEW work \in Works,
         work = IF r.work = "live" THEN outcome ELSE r.work
  PROVE  /\ CutOff([Record(r, outcome) EXCEPT !.work = work], r, outcome)
         /\ \A gone \in BOOLEAN : CutOff([Record(r, outcome) EXCEPT !.gone = gone, !.work = work], r, outcome)
PROOF
<1>1. PICK o \in Outcomes : o = outcome
  BY FailuresFail
<1>2. PICK t \in Request : /\ t = Record(r, o)
                           /\ t.recorded = IF r.recorded = Absent THEN o ELSE r.recorded
                           /\ t = [r EXCEPT !.recorded = t.recorded]
  BY RecordKeepsFirst
<1>3. SameButCut(t, r) /\ t.work = r.work
  <2>1. PICK v \in Outcomes \cup {Absent} : v = t.recorded
    BY DEF Request
  <2>2. t = [r EXCEPT !.recorded = v]
    BY <1>2, <2>1
  <2> QED BY <2>2, RecordedChanges
<1>4. PICK u : u = [t EXCEPT !.work = work]
  OBVIOUS
<1>5. u \in Request /\ SameButCut(u, t) /\ u.work = work /\ u.recorded = t.recorded
  BY <1>4, WorkChanges
<1>6. CutOff(u, r, outcome)
  BY <1>1, <1>2, <1>3, <1>5 DEF CutOff, SameButCut, SameSources
<1>7. ASSUME NEW gone \in BOOLEAN
      PROVE  CutOff([t EXCEPT !.gone = gone, !.work = work], r, outcome)
  <2>1. PICK s : s = [u EXCEPT !.gone = gone]
    OBVIOUS
  <2>2. s \in Request /\ SameButCut(s, u) /\ s.work = u.work /\ s.recorded = u.recorded
    BY <1>5, <2>1, GoneChanges
  <2>3. CutOff(s, r, outcome)
    BY <1>6, <2>2 DEF CutOff, SameButCut, SameSources
  <2>4. s = [t EXCEPT !.gone = gone, !.work = work]
    BY <1>4, <2>1 DEF Request
  <2> QED BY <2>3, <2>4
<1> QED BY <1>1, <1>2, <1>4, <1>6, <1>7

LEMMA InterruptionStep ==
  ASSUME PipelineInv, Interruption
  PROVE  PipelineInv'
PROOF
<1>0. PipelineTypeOK /\ Recorded /\ Created
  BY DEF PipelineInv
<1>1. PICK r \in Request : r = req
  BY <1>0 DEF PipelineTypeOK
<1>2. r.work \in Works
  BY DEF Request
<1>3. CASE ClientLeaves
  <2>1. PICK work \in Works : work = IF r.work = "live" THEN "aborted" ELSE r.work
    BY <1>2 DEF Works
  <2>2. PICK o \in Outcomes : o = "aborted"
    BY FailuresFail
  <2>3. PICK t \in Request : t = Record(r, o) /\ t.work = r.work
    BY RecordKeepsFirst
  <2>4. req' = [t EXCEPT !.gone = TRUE, !.work = IF t.work = "live" THEN "aborted" ELSE t.work]
    BY <1>1, <1>3, <2>2, <2>3, FailuresFail DEF ClientLeaves, Proceed
  <2>5. PICK gone \in BOOLEAN : gone = TRUE
    OBVIOUS
  <2>6. req' = [Record(r, "aborted") EXCEPT !.gone = gone, !.work = work]
    BY <2>1, <2>2, <2>3, <2>4, <2>5
  <2>7. CutOff(req', r, "aborted")
    BY <2>1, <2>6, CutOffHolds
  <2>8. r.at # "done" /\ UNCHANGED <<world, store, issued, served>>
    BY <1>1, <1>3 DEF ClientLeaves, Proceed
  <2> QED BY <1>1, <2>7, <2>8, CutStep
<1>4. ASSUME NEW outcome \in {"timeout", "aborted"}, r.at # "done", r.work = "live",
             Proceed([Record(r, outcome) EXCEPT !.work = outcome])
      PROVE  PipelineInv'
  <2>1. outcome \in Works /\ outcome = IF r.work = "live" THEN outcome ELSE r.work
    BY <1>4 DEF Works
  <2>2. req' = [Record(r, outcome) EXCEPT !.work = outcome] /\ UNCHANGED <<world, store, issued, served>>
    BY <1>4 DEF Proceed
  <2>3. CutOff([Record(r, outcome) EXCEPT !.work = outcome], r, outcome)
    BY <2>1, CutOffHolds
  <2> QED BY <1>1, <1>4, <2>2, <2>3, CutStep
<1>5. CASE TotalTimeout
  <2>1. r.at # "done" /\ r.work = "live"
    BY <1>0, <1>1, <1>5 DEF TotalTimeout, Created
  <2>2. Proceed([Record(r, "timeout") EXCEPT !.work = "timeout"])
    BY <1>1, <1>5, FailuresFail DEF TotalTimeout
  <2> QED BY <1>4, <2>1, <2>2
<1>6. CASE Shutdown
  <2>1. r.at # "done" /\ r.work = "live"
    BY <1>1, <1>6 DEF Shutdown
  <2>2. Proceed([Record(r, "aborted") EXCEPT !.work = "aborted"])
    BY <1>1, <1>6, FailuresFail DEF Shutdown
  <2> QED BY <1>4, <2>1, <2>2
<1> QED BY <1>3, <1>5, <1>6 DEF Interruption

\* The surroundings may change and the history be forgotten, under the request.
LEMMA ChangingStep ==
  ASSUME PipelineInv, UNCHANGED <<req, issued, served>>,
         world' \in [default : MaybeAccount, origin : [Accounts -> Origins],
                     catalogue : [Accounts -> Catalogues], preferred : [Accounts -> Models]],
         store' \in [receipts : SUBSET store.receipts, carriers : SUBSET store.carriers]
  PROVE  PipelineInv'
PROOF
<1>0. PipelineTypeOK /\ Recorded /\ AnswerMatchesRecord /\ Created /\ Numbered /\ HistoryIsTrue /\ Prepared /\ Sent
  BY DEF PipelineInv
<1>1. store'.receipts \subseteq store.receipts /\ store'.carriers \subseteq store.carriers
  OBVIOUS
<1>2. PipelineTypeOK'
  <2>1. IsFiniteSet(store'.carriers)
    BY <1>0, <1>1, FS_Subset DEF PipelineTypeOK, Stored
  <2>2. store' \in [receipts : SUBSET Receipt, carriers : SUBSET Carrier]
    BY <1>0, <1>1 DEF PipelineTypeOK, Stored
  <2> QED BY <1>0, <2>1, <2>2 DEF PipelineTypeOK, Stored
<1>3. Recorded' /\ AnswerMatchesRecord' /\ Numbered'
  BY <1>0 DEF Recorded, AnswerMatchesRecord, Numbered, Unique
<1>4. Created'
  BY <1>0, <1>1 DEF Created
<1>5. HistoryIsTrue'
  BY <1>0, <1>1, KnownStays DEF HistoryIsTrue, IsTrue
<1>6. Prepared'
  BY <1>0, KnownStays DEF Prepared
<1>7. Sent'
  <2>1. Identified' = Identified
    BY DEF Identified, Native
  <2> QED BY <1>0, <2>1, KnownStays DEF Sent, SameResponse
<1> QED BY <1>2, <1>3, <1>4, <1>5, <1>6, <1>7 DEF PipelineInv

LEMMA SurroundingsStep ==
  ASSUME PipelineInv, Surroundings
  PROVE  PipelineInv'
PROOF
<1> DEFINE World == [default : MaybeAccount, origin : [Accounts -> Origins],
                     catalogue : [Accounts -> Catalogues], preferred : [Accounts -> Models]]
<1>0. PipelineTypeOK
  BY DEF PipelineInv
<1>1. world \in World /\ Stored
  BY <1>0 DEF PipelineTypeOK
<1>2. store \in [receipts : SUBSET store.receipts, carriers : SUBSET store.carriers]
  BY <1>1 DEF Stored
<1>3. ASSUME NEW w \in World, NEW s \in [receipts : SUBSET store.receipts, carriers : SUBSET store.carriers], Change(w, s)
      PROVE  PipelineInv'
  BY <1>3, ChangingStep DEF Change
<1>4. ASSUME NEW a \in Accounts \cup {Absent}, UseAccount(a) PROVE PipelineInv'
  <2>1. [world EXCEPT !.default = a] \in World
    BY <1>1 DEF MaybeAccount
  <2> HIDE DEF World
  <2> QED BY <1>2, <1>3, <1>4, <2>1 DEF UseAccount
<1>5. ASSUME NEW a \in Accounts, NEW o \in Origins, MoveUpstream(a, o) PROVE PipelineInv'
  <2>1. [world EXCEPT !.origin[a] = o] \in World
    BY <1>1
  <2> HIDE DEF World
  <2> QED BY <1>2, <1>3, <1>5, <2>1 DEF MoveUpstream
<1>6. ASSUME NEW a \in Accounts, NEW c \in Catalogues, RelistModels(a, c) PROVE PipelineInv'
  <2>1. [world EXCEPT !.catalogue[a] = c] \in World
    BY <1>1
  <2> HIDE DEF World
  <2> QED BY <1>2, <1>3, <1>6, <2>1 DEF RelistModels
<1>7. ASSUME NEW a \in Accounts, NEW m \in Models, PreferModel(a, m) PROVE PipelineInv'
  <2>1. [world EXCEPT !.preferred[a] = m] \in World
    BY <1>1
  <2> HIDE DEF World
  <2> QED BY <1>2, <1>3, <1>7, <2>1 DEF PreferModel
<1>8. ASSUME NEW a \in Accounts, ForgetHistory(a) PROVE PipelineInv'
  <2>1. [receipts |-> {r \in store.receipts : r.account # a}, carriers |-> {c \in store.carriers : c.account # a}]
            \in [receipts : SUBSET store.receipts, carriers : SUBSET store.carriers]
    OBVIOUS
  <2> HIDE DEF World
  <2> QED BY <1>1, <1>3, <1>8, <2>1 DEF ForgetHistory
<1> QED BY <1>4, <1>5, <1>6, <1>7, <1>8 DEF Surroundings

------------------------------------------------------------------------------
\* The request's own steps.

LEMMA ArrivalChanges ==
  ASSUME NEW f \in Request, NEW wire \in Protocols \cup {Absent}, NEW stream \in BOOLEAN, NEW asked \in MaybeModel,
         NEW previous \in Ids \cup {Absent}, NEW tokens \in SUBSET Nat, NEW at \in Places
  PROVE  [f EXCEPT !.at = at, !.wire = wire, !.stream = stream, !.asked = asked,
                   !.previous = previous, !.tokens = tokens] \in Request
PROOF
<1>1. PICK g : g = [f EXCEPT !.at = at, !.wire = wire, !.asked = asked, !.previous = previous]
  OBVIOUS
<1>2. g \in Request
  BY <1>1, ZenonT(60) DEF Request
<1>3. PICK h : h = [g EXCEPT !.tokens = tokens]
  OBVIOUS
<1>4. h \in Request
  BY <1>2, <1>3 DEF Request
<1>5. PICK s : s = [h EXCEPT !.stream = stream]
  OBVIOUS
<1>6. s \in Request
  BY <1>4, <1>5 DEF Request
<1>7. s = [f EXCEPT !.at = at, !.wire = wire, !.stream = stream, !.asked = asked,
                   !.previous = previous, !.tokens = tokens]
  BY <1>1, <1>3, <1>5 DEF Request
<1> QED BY <1>6, <1>7

\* A request arrives; what it names are responses that were made.
LEMMA ArriveStep ==
  ASSUME PipelineInv, NEW wire \in Protocols, NEW stream \in BOOLEAN, NEW asked \in Models \cup {Absent},
         NEW previous \in {i.id : i \in issued} \cup {Absent}, NEW tokens \in SUBSET {i.number : i \in issued},
         Arrive(wire, stream, asked, previous, tokens)
  PROVE  PipelineInv'
PROOF
<1>0. PipelineTypeOK /\ Created /\ Numbered /\ HistoryIsTrue
  BY DEF PipelineInv
<1>1. /\ req.at = "done" /\ served' = served + 1 /\ UNCHANGED <<world, store, issued>>
      /\ previous = Absent \/ wire = "responses"
      /\ req' = [FinishedRequest EXCEPT !.at = "admission", !.wire = wire, !.stream = stream, !.asked = asked,
                            !.previous = previous, !.tokens = tokens]
  BY DEF Arrive
<1>2. PICK f \in Request : f = FinishedRequest /\ Closed(f) /\ f.work = "live" /\ ~f.gone
                           /\ f.answer = Absent /\ f.recorded = Absent
  BY FinishedIsClosed DEF Closed
<1>3. tokens \in SUBSET Nat /\ previous \in Ids \cup {Absent} /\ asked \in MaybeModel
  BY <1>0 DEF PipelineTypeOK, Response, MaybeModel
<1>4. PICK at \in Places : at = "admission"
  BY DEF Places
<1>5. PICK s : s = [f EXCEPT !.at = at, !.wire = wire, !.stream = stream, !.asked = asked,
                            !.previous = previous, !.tokens = tokens]
  OBVIOUS
<1>6. s \in Request
  <2>1. wire \in Protocols \cup {Absent}
    OBVIOUS
  <2> QED BY <1>3, <1>4, <1>5, <2>1, ArrivalChanges, ZenonT(60)
<1>7. /\ s.at = "admission" /\ s.wire = wire /\ s.previous = previous /\ s.tokens = tokens
      /\ s.work = f.work /\ s.gone = f.gone /\ s.recorded = f.recorded /\ s.answer = f.answer
      /\ s.receipt = f.receipt /\ s.restored = f.restored /\ s.sent = f.sent /\ s.created = f.created
  BY <1>4, <1>5 DEF Request
<1>8. req' = s
  BY <1>1, <1>2, <1>4, <1>5
<1>9. f.receipt = Absent /\ ~f.restored /\ f.sent = Absent /\ f.created = {}
  BY <1>2 DEF Closed
<1>10. served \in Nat /\ served' = served + 1
  BY <1>0, <1>1 DEF PipelineTypeOK
<1>11. PipelineTypeOK'
  BY <1>0, <1>1, <1>6, <1>8, <1>10 DEF PipelineTypeOK, Stored
<1>12. Recorded'
  BY <1>2, <1>7, <1>8 DEF Recorded
<1>13. AnswerMatchesRecord'
  BY <1>2, <1>7, <1>8, FailuresFail DEF AnswerMatchesRecord, Answers, FailureKinds
<1>14. Created'
  <2>1. \A c \in store.carriers : c.state = "complete"
    BY <1>0, <1>1 DEF Created
  <2> QED BY <1>1, <1>7, <1>8, <1>9, <2>1 DEF Created
<1>15. Numbered'
  <2>1. \A i \in issued : i.number \in Nat
    BY <1>0 DEF PipelineTypeOK, Response
  <2>2. \A i \in issued : i.number = i.id.number /\ i.number <= served /\ i.number < served + 1
    BY <1>0, <1>10, <2>1 DEF Numbered, Unique
  <2> QED BY <1>0, <1>1, <1>10, <2>1, <2>2 DEF Numbered, Unique
<1>16. HistoryIsTrue'
  BY <1>0, <1>1, KnownStays DEF HistoryIsTrue, IsTrue
<1>17. wire # Absent /\ \A n \in tokens : \E i \in issued : i.number = n
  BY AbsentAssumption
<1>18. Prepared'
  BY <1>1, <1>7, <1>8, <1>9, <1>17 DEF Prepared, Bound, Over
<1>19. Sent'
  BY <1>7, <1>8, <1>9 DEF Sent, Sending
<1> QED BY <1>11, <1>12, <1>13, <1>14, <1>15, <1>16, <1>18, <1>19 DEF PipelineInv

\* The failures of the awaits, and of the catalogue.
LEMMA FailureSteps ==
  ASSUME PipelineInv,
         \/ Refused \/ BodyRefused \/ AccountUnbound \/ ContinuationFails \/ CatalogueFails \/ CopilotFails
         \/ HistoryFails \/ UpstreamFails \/ CheckpointFails
  PROVE  PipelineInv'
PROOF
<1>1. \A kind \in {"queue_full", "queue_timeout", "invalid_request", "unsupported_media_type", "body_too_large",
                   "authentication", "internal", "continuation_persistence", "upstream_http", "upstream_network",
                   "upstream_timeout", "invalid_upstream_response", "continuation_conflict"} : kind \in FailureKinds
  BY DEF FailureKinds, FAILURE_POLICY
<1>2. \A at : \A kinds \in SUBSET FailureKinds : at \notin Over /\ AwaitFails(at, kinds) => PipelineInv'
  BY AwaitFailingStep
<1> USE <1>1, <1>2
<1>3. CASE Refused
  BY <1>3 DEF Refused, Over
<1>4. CASE BodyRefused
  BY <1>4 DEF BodyRefused, Over
<1>5. CASE AccountUnbound
  BY <1>5 DEF AccountUnbound, Over
<1>6. CASE ContinuationFails
  BY <1>6 DEF ContinuationFails, Over
<1>7. CASE CatalogueFails
  BY <1>7 DEF CatalogueFails, Over
<1>8. CASE CopilotFails
  BY <1>8 DEF CopilotFails, Over
<1>9. CASE HistoryFails
  BY <1>9 DEF HistoryFails, Over
<1>10. CASE UpstreamFails
  BY <1>10 DEF UpstreamFails, Over
<1>11. CASE CheckpointFails
  BY <1>11 DEF CheckpointFails, Over
<1> QED BY <1>3, <1>4, <1>5, <1>6, <1>7, <1>8, <1>9, <1>10, <1>11

\* The steps that resolve the model, whatever they make of a model that is not there.
LEMMA ResolveSteps ==
  ASSUME PipelineInv, ResolveChat \/ ResolveMessages \/ ResolveResponses
  PROVE  PipelineInv'
PROOF
<1>1. PICK resolved : resolved = ResolveModel(world.catalogue[req.account], req.requested, req.preferred)
  OBVIOUS
<1>2. /\ "model_not_found" \in FailureKinds /\ "invalid_request" \in FailureKinds /\ "continuation_conflict" \in FailureKinds
      /\ resolved.failure # Absent => resolved.failure \in {"model_not_found", "invalid_request"}
  <2>1. "model_not_found" \in FailureKinds /\ "invalid_request" \in FailureKinds /\ "continuation_conflict" \in FailureKinds
    BY DEF FailureKinds, FAILURE_POLICY
  <2>2. resolved.failure # Absent => resolved.failure \in {"model_not_found", "invalid_request"}
    BY <1>1 DEF ResolveModel
  <2> QED BY <2>1, <2>2
<1>3. req.at = "catalogue" /\ req.at \notin Over
  BY DEF ResolveChat, ResolveMessages, ResolveResponses, Resolved, Over
<1>4. CASE resolved.failure # Absent
  <2>1. FailWith(resolved.failure) \/ FailWith("continuation_conflict")
    BY <1>1, <1>4 DEF ResolveChat, ResolveMessages, ResolveResponses, Resolved
  <2> QED BY <1>2, <1>3, <1>4, <2>1, FailingStep
<1>5. CASE resolved.failure = Absent
  <2>1. Proceed([req EXCEPT !.model = resolved.model, !.at = "copilot",
                            !.protocols = EffectiveProtocols(world.catalogue[req.account][resolved.model])])
    BY <1>1, <1>5 DEF ResolveChat, ResolveMessages, ResolveResponses, Resolved
  <2> QED BY <1>1, <1>3, <1>5, <2>1, ModelStep
<1> QED BY <1>4, <1>5

\* The steps that bind the account.
LEMMA BindSteps ==
  ASSUME PipelineInv, BindChat \/ BindMessages \/ BindResponses
  PROVE  PipelineInv'
BY BindStep DEF BindChat, BindMessages, BindResponses

\* The answers that are handed on as they come.
LEMMA HandingSteps ==
  ASSUME PipelineInv,
         \/ OpenChat \/ OpenMessages \/ OpenResponses
         \/ OpenConvertedChat \/ OpenConvertedMessages \/ OpenConvertedResponses
         \/ NativeChat \/ NativeMessages \/ NativeResponses(FALSE)
  PROVE  PipelineInv'
PROOF
<1>1. ASSUME NEW wire, NEW native, Opened(wire, native)
      PROVE  PipelineInv'
  BY <1>1, ReturningStep DEF Opened, Over
<1>2. ASSUME NEW wire, NEW outcomes \in SUBSET {"success", "upstream_error"}, PassedOn(wire, outcomes)
      PROVE  PipelineInv'
  <2>1. PICK outcome \in {"success", "upstream_error"} : Proceed(Returned(req, outcome, "body"))
    BY <1>2 DEF PassedOn
  <2>2. req.at \notin Over \cup {"checkpoint"}
    BY <1>2 DEF PassedOn, Over
  <2> QED BY <2>1, <2>2, ReturningStep
<1>3. CASE \/ OpenChat \/ OpenMessages \/ OpenResponses
           \/ OpenConvertedChat \/ OpenConvertedMessages \/ OpenConvertedResponses
  <2>1. PICK wire, native : Opened(wire, native)
    <3>1. CASE OpenChat
      BY <3>1 DEF OpenChat
    <3>2. CASE OpenMessages
      BY <3>2 DEF OpenMessages
    <3>3. CASE OpenResponses
      BY <3>3 DEF OpenResponses
    <3>4. CASE OpenConvertedChat
      BY <3>4 DEF OpenConvertedChat
    <3>5. CASE OpenConvertedMessages
      BY <3>5 DEF OpenConvertedMessages
    <3>6. CASE OpenConvertedResponses
      BY <3>6 DEF OpenConvertedResponses
    <3> QED BY <1>3, <3>1, <3>2, <3>3, <3>4, <3>5, <3>6
  <2> QED BY <1>1, <2>1
<1>4. CASE NativeChat
  BY <1>2, <1>4 DEF NativeChat
<1>5. CASE NativeMessages
  BY <1>2, <1>5 DEF NativeMessages
<1>6. CASE NativeResponses(FALSE)
  BY <1>2, <1>6 DEF NativeResponses, NativeOutcomes
<1> QED BY <1>3, <1>4, <1>5, <1>6

LEMMA EndpointStep ==
  ASSUME PipelineInv, Endpoint
  PROVE  PipelineInv'
PROOF
<1>1. CASE BindChat \/ BindMessages \/ BindResponses
  BY <1>1, BindSteps
<1>2. CASE ResolveContinuation
  BY <1>2, ContinuationStep
<1>3. CASE ResolveChat \/ ResolveMessages \/ ResolveResponses
  BY <1>3, ResolveSteps
<1>4. CASE BindCopilot
  BY <1>4, CopilotStep
<1>5. CASE RestoreHistory
  BY <1>5, RestoringStep
<1>6. CASE PlanChat \/ PlanMessages \/ PlanResponses
  BY <1>6, PlanStep
<1>7. CASE \/ AccountUnbound \/ ContinuationFails \/ CatalogueFails \/ CopilotFails
           \/ HistoryFails \/ UpstreamFails \/ CheckpointFails
  BY <1>7, FailureSteps
<1>8. CASE \/ OpenChat \/ OpenMessages \/ OpenResponses
           \/ OpenConvertedChat \/ OpenConvertedMessages \/ OpenConvertedResponses
           \/ NativeChat \/ NativeMessages
  BY <1>8, HandingSteps
<1>9. ASSUME NEW named \in BOOLEAN, NativeResponses(named)
      PROVE  PipelineInv'
  <2>1. CASE named = TRUE
    BY <1>9, <2>1, NamedStep
  <2>2. CASE named = FALSE
    BY <1>9, <2>2, HandingSteps
  <2> QED BY <2>1, <2>2
<1>10. ASSUME NEW completed \in BOOLEAN, NEW carried \in BOOLEAN,
              \/ ConvertChat(completed, carried) \/ ConvertMessages(completed, carried)
              \/ ConvertResponses(completed, carried)
       PROVE  PipelineInv'
  BY <1>10, ConvertsStep, ConvertResponsesStep DEF ConvertChat, ConvertMessages
<1>11. CASE PersistCheckpoint
  BY <1>11, PersistStep
<1> QED BY <1>1, <1>2, <1>3, <1>4, <1>5, <1>6, <1>7, <1>8, <1>9, <1>10, <1>11 DEF Endpoint

\* The gateway starts with nothing stored and no request.
LEMMA InitialRequest ==
  ASSUME PipelineInit
  PROVE  PipelineInv
PROOF
<1>1. store = [receipts |-> {}, carriers |-> {}] /\ issued = {} /\ req = FinishedRequest /\ served = 0
  BY DEF PipelineInit
<1>2. Closed(req) /\ req.work = "live" /\ ~req.gone
  BY <1>1, FinishedIsClosed
<1>3. store.receipts = {} /\ store.carriers = {}
  BY <1>1
<1>4. PICK first \in Accounts, c \in Catalogues, o \in Origins, m \in Models :
           world = [default |-> first, origin |-> [a \in Accounts |-> o],
                    catalogue |-> [a \in Accounts |-> c], preferred |-> [a \in Accounts |-> m]]
  BY DEF PipelineInit
<1>5. PipelineTypeOK
  <2>1. world \in [default : MaybeAccount, origin : [Accounts -> Origins],
                   catalogue : [Accounts -> Catalogues], preferred : [Accounts -> Models]]
    BY <1>4 DEF MaybeAccount
  <2>2. Stored
    BY <1>1, FS_EmptySet DEF Stored
  <2> QED BY <1>1, <1>2, <2>1, <2>2 DEF PipelineTypeOK, Closed
<1>6. Recorded /\ AnswerMatchesRecord
  BY <1>2 DEF Recorded, AnswerMatchesRecord, Closed, Told, Tells, FailureKinds
<1>7. Created
  BY <1>2, <1>3 DEF Created, Closed
<1>8. Numbered
  BY <1>1 DEF Numbered, Unique
<1>9. HistoryIsTrue
  BY <1>3 DEF HistoryIsTrue
<1>10. Prepared
  BY <1>2 DEF Prepared, Closed, Bound, Over
<1>11. Sent
  BY <1>2 DEF Sent, Closed, Over, Sending
<1> QED BY <1>5, <1>6, <1>7, <1>8, <1>9, <1>10, <1>11 DEF PipelineInv

\* The inductive invariant of the request pipeline.
LEMMA PipelineInvariant ==
  PipelineSpec => []PipelineInv
PROOF
<1>1. PipelineInit => PipelineInv
  BY InitialRequest
<1>2. PipelineInv /\ [PipelineNext]_pipelineVars => PipelineInv'
  <2> SUFFICES ASSUME PipelineInv, [PipelineNext]_pipelineVars
               PROVE  PipelineInv'
    OBVIOUS
  <2>1. ASSUME NEW wire \in Protocols, NEW stream \in BOOLEAN, NEW asked \in Models \cup {Absent},
               NEW previous \in {i.id : i \in issued} \cup {Absent}, NEW tokens \in SUBSET {i.number : i \in issued},
               Arrive(wire, stream, asked, previous, tokens)
        PROVE  PipelineInv'
    BY <2>1, ArriveStep
  <2>2. CASE Admitted
    BY <2>2, AdmittedStep
  <2>3. CASE Refused \/ BodyRefused
    BY <2>3, FailureSteps
  <2>4. CASE BodyRead
    BY <2>4, BodyStep
  <2>5. CASE Endpoint
    BY <2>5, EndpointStep
  <2>6. CASE BodyDelivered
    BY <2>6, DeliveredStep
  <2>7. CASE Interruption
    BY <2>7, InterruptionStep
  <2>8. CASE Surroundings
    BY <2>8, SurroundingsStep
  <2>9. CASE UNCHANGED pipelineVars
    <3>1. UNCHANGED <<world, store, issued, req, served>>
      BY <2>9 DEF pipelineVars
    <3>2. PipelineTypeOK /\ Stored
      BY DEF PipelineInv, PipelineTypeOK
    <3>3. store' \in [receipts : SUBSET store.receipts, carriers : SUBSET store.carriers]
      BY <3>1, <3>2 DEF Stored
    <3> QED BY <3>1, <3>2, <3>3, ChangingStep DEF PipelineTypeOK
  <2> QED BY <2>1, <2>2, <2>3, <2>4, <2>5, <2>6, <2>7, <2>8, <2>9 DEF PipelineNext
<1> QED BY <1>1, <1>2, PTL DEF PipelineSpec

\* Whatever a request builds on was made where it is now sent (openai_responses/endpoint.ts 193-206,
\* reasoning_carrier_preflight.ts 47-60, continuation.ts 102-111), for any accounts, models and
\* upstreams, any number of requests and any changes of their surroundings.
THEOREM RequestsBuildOnTheirOwn == PipelineSpec => []BuildsOnItsOwn
PROOF
<1>1. ASSUME PipelineInv PROVE BuildsOnItsOwn
  <2>1. Sent /\ Unique
    BY <1>1 DEF PipelineInv, Numbered
  <2>2. ASSUME req.sent # Absent, NEW i \in issued, i.number \in req.tokens \/ (req.restored /\ i.id = req.previous)
        PROVE  SameResponse(i, req.sent)
    <3>1. req.at \in Sending
      BY <2>1, <2>2 DEF Sent
    <3>2. CASE i.number \in req.tokens
      <4>1. Known(i.number, req.sent.account, req.sent.model, req.sent.origin, req.sent.protocol)
        BY <2>1, <3>1, <3>2 DEF Sent
      <4> QED BY <2>1, <4>1 DEF Known, Unique, SameResponse
    <3>3. CASE req.restored /\ i.id = req.previous
      <4>1. PICK j \in issued : j.id = req.previous /\ SameResponse(j, req.sent)
        BY <2>1, <3>1, <3>3 DEF Sent
      <4>2. i = j
        BY <2>1, <3>3, <4>1 DEF Unique
      <4> QED BY <4>1, <4>2
    <3> QED BY <2>2, <3>2, <3>3
  <2>3. req.sent # Absent /\ req.sent.previous # Absent
          => req.sent.previous.kind = "native" /\ req.sent.protocol = "responses"
    BY <2>1 DEF Sent
  <2> QED BY <2>2, <2>3 DEF BuildsOnItsOwn, SameResponse
<1>2. PipelineInv => BuildsOnItsOwn
  BY <1>1
<1> QED BY PipelineInvariant, <1>2, PTL

\* What is recorded of a request is what its client was told, however the request, its client, its
\* total time and a shutdown race (hono_app.ts 345-371, request_attempt.ts 71-98).
THEOREM AnswersMatchRecords == PipelineSpec => []AnswerMatchesRecord
PROOF
<1>1. PipelineInv => AnswerMatchesRecord
  BY DEF PipelineInv
<1> QED BY PipelineInvariant, <1>1, PTL

\* A request that is over holds no permit and no timer, and leaves no carrier half made
\* (hono_app.ts 253-264, openai_responses/endpoint.ts 379-397).
THEOREM RequestsCleanUp == PipelineSpec => []NothingLeftBehind
PROOF
<1>1. PipelineInv => NothingLeftBehind
  BY DEF PipelineInv, Created, NothingLeftBehind
<1> QED BY PipelineInvariant, <1>1, PTL
==============================================================================
