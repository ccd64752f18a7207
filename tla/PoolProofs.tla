------------------------------ MODULE PoolProofs ------------------------------
(***************************************************************************)
(* Proofs about copilot/inference_pool.ts: slots are owned, waiters can be *)
(* woken, entries are bounded and eviction spares the dispatchers in use,  *)
(* for all requests, profiles, entry objects and limits; and an entry is   *)
(* the abstract pool of PermitPool.                                        *)
(***************************************************************************)
EXTENDS InferencePool, QueueLemmas, FiniteSetTheorems

Waiting(e) == {r \in Requests : req[r].at = "waiting" /\ req[r].entry = e}

\* A queue holds those who wait in the entry, once each, and only while the entry
\* is open and has no slot free.
QueuesMatch ==
  \A e \in Objects :
    /\ IsInjective(waiters[e]) /\ ToSet(waiters[e]) = Waiting(e)
    /\ waiters[e] # <<>> => e \notin shut /\ active[e] = Connections

\* While the registry is open, whoever waits for a dispatcher waits for one that
\* is being created, and whoever has one has it open.
There(r) ==
  /\ req[r].at = "starting" =>
       EntryOf(r) \notin shut /\ dispatcher[EntryOf(r)] = "creating"
  /\ req[r].at \in {"created", "leased"} =>
       EntryOf(r) \notin shut /\ dispatcher[EntryOf(r)] = "open"
DispatchersAreThere == registry = "open" => \A r \in Requests : There(r)

\* An entry that is drained has been closed before.
DrainedAreShut == draining \subseteq shut

PoolInv == /\ TypeOK /\ SlotsAreOwned /\ QueuesMatch
           /\ DispatchersAreThere /\ DrainedAreShut /\ EntriesAreBounded

------------------------------------------------------------------------------
(* What the operators on requests do. *)

QueuesTyped ==
  waiters \in [Objects -> Seq(Requests)] /\ \A e \in Objects : Len(waiters[e]) <= MaxWaiters

Request == [at : Points, profile : Profiles \cup {None}, entry : Objects \cup {None}]

ReqOK == /\ req \in [Requests -> Request]
         /\ \A r \in Requests : req[r].entry # None <=> req[r].at \in InEntry

\* The request moves to another point and keeps its entry.
LEMMA GoesOn ==
  ASSUME TypeOK, NEW r \in Requests, NEW point \in Points, req' = Goes(r, point),
         point \in InEntry <=> req[r].at \in InEntry
  PROVE  /\ ReqOK'
         /\ req'[r].at = point /\ req'[r].entry = req[r].entry
         /\ \A q \in Requests : q # r => req'[q] = req[q]
BY DEF TypeOK, ReqOK, Request, Goes

\* The request is outside.
LEMMA GoesOut ==
  ASSUME TypeOK, NEW r \in Requests, req' = Leaves(r)
  PROVE  /\ ReqOK'
         /\ req'[r].at = "idle" /\ req'[r].entry = None
         /\ \A q \in Requests : q # r => req'[q] = req[q]
BY DEF TypeOK, ReqOK, Request, Leaves, Outside, Points, InEntry, Slotted

\* The sets that are counted are finite.
LEMMA FiniteSets ==
  /\ \A e \in Objects : IsFiniteSet(Slots(e)) /\ Cardinality(Slots(e)) \in Nat
  /\ TypeOK => /\ IsFiniteSet(Mapped) /\ IsFiniteSet(draining)
               /\ Cardinality(Mapped) \in Nat /\ Cardinality(draining) \in Nat
<1>1. ASSUME NEW e \in Objects PROVE IsFiniteSet(Slots(e)) /\ Cardinality(Slots(e)) \in Nat
  <2>1. Slots(e) \in SUBSET Requests
    BY DEF Slots
  <2> QED BY <2>1, ObjectsAssumption, FS_Subset, FS_CardinalityType
<1>2. TypeOK => Mapped \in SUBSET Objects /\ draining \in SUBSET Objects
  BY DEF TypeOK, Mapped
<1> QED BY <1>1, <1>2, ObjectsAssumption, FS_Subset, FS_CardinalityType

\* A request inside an entry is in one of the objects, and has a slot or waits in
\* that one only.
LEMMA EntryIsObject ==
  ASSUME TypeOK, NEW r \in Requests, req[r].at \in InEntry
  PROVE  EntryOf(r) \in Objects
BY DEF TypeOK, EntryOf

------------------------------------------------------------------------------
(* Slots and queues, and what they are to the abstract pool. *)

EntryMoves == [Pool!Next]_(Pool!vars)

\* The operators on sets and sequences that PermitPool uses are the ones used here.
LEMMA SameOperators ==
  /\ \A S : Pool!Cardinality(S) = Cardinality(S)
  /\ \A q : Pool!ToSet(q) = ToSet(q)
  /\ \A q, x : Pool!RemoveFirst(q, x) = RemoveFirst(q, x)
<1>1. \A S : Pool!Cardinality(S) = Cardinality(S)
  BY DEF Pool!Cardinality, Cardinality
<1>2. \A q : Pool!ToSet(q) = ToSet(q)
  BY DEF Pool!ToSet, ToSet
<1>3. \A q, x : Pool!RemoveFirst(q, x) = RemoveFirst(q, x)
  BY DEF Pool!RemoveFirst, RemoveFirst, Pool!RemoveAt, RemoveAt,
     Pool!SelectInSeq, SelectInSeq, Pool!Min, Min
<1> QED BY <1>1, <1>2, <1>3

\* A step that moves no slot and nobody in a queue, and closes no entry somebody
\* waits in.
LEMMA QuietStep ==
  ASSUME PoolInv, UNCHANGED <<active, waiters>>,
         \A r \in Requests : /\ req'[r].at \in Slotted <=> req[r].at \in Slotted
                             /\ req'[r].at = "waiting" <=> req[r].at = "waiting"
                             /\ req[r].at \in Slotted \cup {"waiting"} =>
                                  req'[r].entry = req[r].entry,
         \A e \in Objects : e \in shut' => e \in shut \/ waiters[e] = <<>>
  PROVE  SlotsAreOwned' /\ QueuesMatch' /\ EntryMoves
<1>1. \A e \in Objects : Slots(e)' = Slots(e) /\ Waiting(e)' = Waiting(e)
  BY DEF Slots, Waiting
<1>2. EntryMoves
  BY <1>1, ObjectsAssumption DEF EntryMoves, Pool!vars
<1> QED BY <1>1, <1>2 DEF PoolInv, SlotsAreOwned, QueuesMatch

\* A free slot is taken; nobody waits for it.
LEMMA TakeStep ==
  ASSUME PoolInv, NEW r \in Requests, req[r].at = "found", req'[r].at = "granted",
         req'[r].entry = req[r].entry, \A q \in Requests : q # r => req'[q] = req[q],
         active[EntryOf(r)] < Connections,
         active' = [active EXCEPT ![EntryOf(r)] = @ + 1], UNCHANGED <<waiters, shut>>
  PROVE  SlotsAreOwned' /\ QueuesMatch' /\ EntryMoves
<1>o. PICK o \in Objects : EntryOf(r) = o
  BY EntryIsObject DEF PoolInv, InEntry
<1>1. Slots(o)' = Slots(o) \cup {r} /\ r \notin Slots(o)
  BY <1>o DEF Slots, Slotted, EntryOf
<1>2. /\ \A e \in Objects : Waiting(e)' = Waiting(e)
      /\ \A e \in Objects : e # o => Slots(e)' = Slots(e)
  BY <1>o DEF Waiting, Slots, Slotted, EntryOf
<1>3. Cardinality(Slots(o)') = Cardinality(Slots(o)) + 1
  BY <1>o, <1>1, FiniteSets, FS_AddElement, ZenonT(60)
<1>4. /\ active'[o] = active[o] + 1 /\ \A e \in Objects : e # o => active'[e] = active[e]
      /\ active[o] \in Nat /\ Connections \in Nat
  BY <1>o, LimitsAssumption DEF PoolInv, TypeOK
<1>5. waiters[o] = <<>>
  BY <1>o, <1>4 DEF PoolInv, QueuesMatch
<1>6. ASSUME NEW e \in Objects PROVE active'[e] = Cardinality(Slots(e)')
  <2>1. active[e] = Cardinality(Slots(e))
    BY DEF PoolInv, SlotsAreOwned
  <2>2. CASE e = o
    BY <2>1, <2>2, <1>3, <1>4
  <2>3. CASE e # o
    BY <2>1, <2>3, <1>2, <1>4
  <2> QED BY <2>2, <2>3
<1>7. QueuesMatch'
  BY <1>2, <1>4, <1>5 DEF PoolInv, QueuesMatch
<1>8. EntryMoves
  <2>1. CASE o = Entry
    <3>1. Cardinality(Slots(Entry)) < Connections
      BY <2>1, <1>o DEF PoolInv, SlotsAreOwned
    <3> QED BY <2>1, <3>1, <1>1, <1>5, SameOperators DEF EntryMoves, Pool!Next, Pool!Enter
  <2>2. CASE o # Entry
    BY <2>2, <1>2, ObjectsAssumption DEF EntryMoves, Pool!vars
  <2> QED BY <2>1, <2>2
<1> QED BY <1>6, <1>7, <1>8 DEF SlotsAreOwned

\* No slot is free: the request joins the queue of an open entry.
LEMMA WaitStep ==
  ASSUME PoolInv, NEW r \in Requests, req[r].at = "found", req'[r].at = "waiting",
         req'[r].entry = req[r].entry, \A q \in Requests : q # r => req'[q] = req[q],
         EntryOf(r) \notin shut, active[EntryOf(r)] = Connections,
         Len(waiters[EntryOf(r)]) < MaxWaiters,
         waiters' = [waiters EXCEPT ![EntryOf(r)] = Append(@, r)], UNCHANGED <<active, shut>>
  PROVE  SlotsAreOwned' /\ QueuesMatch' /\ QueuesTyped' /\ EntryMoves
<1>o. PICK o \in Objects : EntryOf(r) = o
  BY EntryIsObject DEF PoolInv, InEntry
<1>t. QueuesTyped
  BY DEF PoolInv, TypeOK, QueuesTyped
<1>1. \A e \in Objects : Slots(e)' = Slots(e) /\ (e # o => Waiting(e)' = Waiting(e))
  BY <1>o DEF Waiting, Slots, Slotted, EntryOf
<1>2. Waiting(o)' = Waiting(o) \cup {r} /\ r \notin Waiting(o)
  BY <1>o DEF Waiting, EntryOf
<1>3. /\ Append(waiters[o], r) \in Seq(Requests)
      /\ ToSet(Append(waiters[o], r)) = ToSet(waiters[o]) \cup {r}
      /\ IsInjective(Append(waiters[o], r))
      /\ Len(Append(waiters[o], r)) = Len(waiters[o]) + 1 /\ Len(waiters[o]) \in Nat
  BY <1>o, <1>t, <1>2, AppendQueue, LenProperties DEF PoolInv, QueuesMatch, QueuesTyped
<1>4. /\ waiters'[o] = Append(waiters[o], r)
      /\ \A e \in Objects : e # o => waiters'[e] = waiters[e]
      /\ waiters' \in [Objects -> Seq(Requests)]
  BY <1>o, <1>t, <1>3 DEF QueuesTyped
<1>5. SlotsAreOwned'
  BY <1>1 DEF PoolInv, SlotsAreOwned
<1>6. ASSUME NEW e \in Objects
      PROVE  /\ IsInjective(waiters'[e]) /\ ToSet(waiters'[e]) = Waiting(e)'
             /\ waiters'[e] # <<>> => e \notin shut' /\ active'[e] = Connections
  <2>1. /\ IsInjective(waiters[e]) /\ ToSet(waiters[e]) = Waiting(e)
        /\ waiters[e] # <<>> => e \notin shut /\ active[e] = Connections
    BY DEF PoolInv, QueuesMatch
  <2>2. CASE e = o
    BY <1>o, <2>1, <2>2, <1>2, <1>3, <1>4
  <2>3. CASE e # o
    BY <2>1, <2>3, <1>1, <1>4
  <2> QED BY <2>2, <2>3
<1>7. QueuesTyped'
  BY <1>o, <1>t, <1>3, <1>4, LimitsAssumption DEF QueuesTyped
<1>8. EntryMoves
  <2>1. CASE o = Entry
    <3>1. /\ r \notin Slots(Entry) \cup ToSet(waiters[Entry])
          /\ Cardinality(Slots(Entry)) = Connections /\ Len(waiters[Entry]) < MaxWaiters
      BY <2>1, <1>o, <1>2 DEF PoolInv, SlotsAreOwned, QueuesMatch, Slots, Slotted
    <3> QED BY <2>1, <3>1, <1>1, <1>4, SameOperators DEF EntryMoves, Pool!Next, Pool!Wait
  <2>2. CASE o # Entry
    BY <2>2, <1>1, <1>4, ObjectsAssumption DEF EntryMoves, Pool!vars
  <2> QED BY <2>1, <2>2
<1> QED BY <1>5, <1>6, <1>7, <1>8 DEF QueuesMatch

\* A waiter leaves the queue without a slot.
LEMMA GiveUpStep ==
  ASSUME PoolInv, NEW r \in Requests, GiveUpWaiting(r)
  PROVE  SlotsAreOwned' /\ QueuesMatch' /\ QueuesTyped' /\ EntryMoves
<1>o. PICK o \in Objects : EntryOf(r) = o
  BY EntryIsObject DEF PoolInv, InEntry, GiveUpWaiting, At
<1>r. /\ req[r].at = "waiting" /\ req'[r].at = "idle"
      /\ \A q \in Requests : q # r => req'[q] = req[q]
  BY GoesOut DEF PoolInv, GiveUpWaiting, At
<1>t. QueuesTyped
  BY DEF PoolInv, TypeOK, QueuesTyped
<1>1. \A e \in Objects : Slots(e)' = Slots(e) /\ (e # o => Waiting(e)' = Waiting(e))
  BY <1>o, <1>r DEF Waiting, Slots, Slotted, EntryOf
<1>2. Waiting(o)' = Waiting(o) \ {r} /\ r \in Waiting(o)
  BY <1>o, <1>r DEF Waiting, EntryOf
<1>q. /\ waiters[o] \in Seq(Requests) /\ Len(waiters[o]) <= MaxWaiters
      /\ IsInjective(waiters[o]) /\ ToSet(waiters[o]) = Waiting(o)
  BY <1>t DEF PoolInv, QueuesMatch, QueuesTyped
<1>3. /\ RemoveFirst(waiters[o], r) \in Seq(Requests)
      /\ ToSet(RemoveFirst(waiters[o], r)) = ToSet(waiters[o]) \ {r}
      /\ IsInjective(RemoveFirst(waiters[o], r))
      /\ Len(RemoveFirst(waiters[o], r)) = Len(waiters[o]) - 1
      /\ waiters[o] # <<>>
  BY <1>2, <1>q, RemoveFirstQueue, EmptyQueue
<1>4. /\ waiters'[o] = RemoveFirst(waiters[o], r)
      /\ \A e \in Objects : e # o => waiters'[e] = waiters[e]
      /\ UNCHANGED <<active, shut>>
  BY <1>o, <1>t DEF GiveUpWaiting, QueuesTyped
<1>5. QueuesTyped'
  <2>1. waiters' \in [Objects -> Seq(Requests)]
    BY <1>o, <1>t, <1>3 DEF GiveUpWaiting, QueuesTyped
  <2>2. Len(waiters'[o]) <= MaxWaiters
    BY <1>q, <1>3, <1>4, LimitsAssumption, LenProperties
  <2> QED BY <2>1, <2>2, <1>t, <1>4 DEF QueuesTyped
<1>6. ASSUME NEW e \in Objects
      PROVE  /\ IsInjective(waiters'[e]) /\ ToSet(waiters'[e]) = Waiting(e)'
             /\ waiters'[e] # <<>> => e \notin shut' /\ active'[e] = Connections
  <2>1. /\ IsInjective(waiters[e]) /\ ToSet(waiters[e]) = Waiting(e)
        /\ waiters[e] # <<>> => e \notin shut /\ active[e] = Connections
    BY DEF PoolInv, QueuesMatch
  <2>2. CASE e = o
    BY <2>1, <2>2, <1>2, <1>3, <1>4
  <2>3. CASE e # o
    BY <2>1, <2>3, <1>1, <1>4
  <2> QED BY <2>2, <2>3
<1>7. SlotsAreOwned'
  BY <1>1, <1>4 DEF PoolInv, SlotsAreOwned
<1>8. EntryMoves
  <2>1. CASE o = Entry
    BY <2>1, <1>1, <1>2, <1>q, <1>4, SameOperators DEF EntryMoves, Pool!Next, Pool!GiveUp
  <2>2. CASE o # Entry
    BY <2>2, <1>1, <1>4, ObjectsAssumption DEF EntryMoves, Pool!vars
  <2> QED BY <2>1, <2>2
<1> QED BY <1>5, <1>6, <1>7, <1>8 DEF QueuesMatch

\* A slot is given back: the one that had it leaves, and at most the first waiter
\* moves, to the slot.
GaveBack(r) ==
  /\ req'[r] = Outside
  /\ \A q \in Requests : q # r =>
       \/ req'[q] = req[q]
       \/ /\ req[q].at = "waiting" /\ req'[q].at = "granted"
          /\ req'[q].entry = req[q].entry /\ req'[q].profile = req[q].profile

LEMMA GiveBackStep ==
  ASSUME PoolInv, NEW r \in Requests, req[r].at \in Slotted, GiveBack(r), UNCHANGED shut
  PROVE  /\ SlotsAreOwned' /\ QueuesMatch' /\ QueuesTyped'
         /\ active' \in [Objects -> 0..Connections] /\ ReqOK' /\ GaveBack(r) /\ EntryMoves
<1>o. PICK o \in Objects : EntryOf(r) = o
  BY EntryIsObject DEF PoolInv, InEntry
<1>t. QueuesTyped /\ active \in [Objects -> 0..Connections] /\ TypeOK /\ Connections \in Nat
  BY LimitsAssumption DEF PoolInv, TypeOK, QueuesTyped
<1>r. r \in Slots(o) /\ r \notin Waiting(o)
  BY <1>o DEF Slots, Waiting, EntryOf, Slotted
<1>q. /\ waiters[o] \in Seq(Requests) /\ Len(waiters[o]) <= MaxWaiters
      /\ IsInjective(waiters[o]) /\ ToSet(waiters[o]) = Waiting(o)
      /\ active[o] = Cardinality(Slots(o)) /\ active[o] \in Nat
  BY <1>t DEF PoolInv, QueuesMatch, QueuesTyped, SlotsAreOwned
<1>s. /\ IsFiniteSet(Slots(o))
      /\ Cardinality(Slots(o) \ {r}) = Cardinality(Slots(o)) - 1
      /\ Cardinality(Slots(o) \ {r}) \in Nat
  BY <1>r, FiniteSets, FS_RemoveElement, FS_CardinalityType
<1>1. CASE waiters[o] = <<>>
  <2>1. /\ active' = [active EXCEPT ![o] = @ - 1] /\ UNCHANGED <<waiters, shut>>
        /\ req' = Leaves(r)
    BY <1>o, <1>1 DEF GiveBack
  <2>2. /\ req'[r] = Outside /\ ReqOK' /\ \A q \in Requests : q # r => req'[q] = req[q]
        /\ req'[r].at = "idle"
    BY <2>1, <1>t, GoesOut DEF TypeOK, Leaves
  <2>3. \A e \in Objects : Waiting(e)' = Waiting(e) /\ (e # o => Slots(e)' = Slots(e))
    BY <1>o, <1>r, <2>2 DEF Waiting, Slots, Slotted, EntryOf
  <2>4. Slots(o)' = Slots(o) \ {r}
    BY <1>o, <2>2 DEF Slots, Slotted
  <2>5. /\ active'[o] = active[o] - 1 /\ \A e \in Objects : e # o => active'[e] = active[e]
        /\ active' \in [Objects -> 0..Connections]
    BY <2>1, <1>o, <1>t, <1>q, <1>s
  <2>6. ASSUME NEW e \in Objects PROVE active'[e] = Cardinality(Slots(e)')
    <3>1. active[e] = Cardinality(Slots(e))
      BY DEF PoolInv, SlotsAreOwned
    <3>2. CASE e = o
      BY <3>1, <3>2, <2>4, <2>5, <1>s
    <3>3. CASE e # o
      BY <3>1, <3>3, <2>3, <2>5
    <3> QED BY <3>2, <3>3
  <2>7. QueuesMatch' /\ QueuesTyped'
    BY <1>1, <1>t, <2>1, <2>3, <2>5 DEF PoolInv, QueuesMatch, QueuesTyped
  <2>8. EntryMoves
    <3>1. CASE o = Entry
      BY <3>1, <1>1, <1>r, <2>1, <2>4 DEF EntryMoves, Pool!Next, Pool!Leave
    <3>2. CASE o # Entry
      BY <3>2, <2>1, <2>3, ObjectsAssumption DEF EntryMoves, Pool!vars
    <3> QED BY <3>1, <3>2
  <2> QED BY <2>2, <2>5, <2>6, <2>7, <2>8 DEF SlotsAreOwned, GaveBack
<1>2. CASE waiters[o] # <<>>
  <2>h. PICK h \in Requests : h = Head(waiters[o])
    BY <1>2, <1>q, TailQueue
  <2>q. /\ h \in Waiting(o) /\ Tail(waiters[o]) \in Seq(Requests)
        /\ ToSet(Tail(waiters[o])) = Waiting(o) \ {h}
        /\ IsInjective(Tail(waiters[o])) /\ Len(Tail(waiters[o])) = Len(waiters[o]) - 1
    BY <1>2, <1>q, <2>h, TailQueue
  <2>1. /\ waiters' = [waiters EXCEPT ![o] = Tail(@)] /\ UNCHANGED <<active, shut>>
        /\ req' = [Leaves(r) EXCEPT ![h].at = "granted"]
    BY <1>o, <1>2, <2>h DEF GiveBack
  <2>w. h # r /\ req[h].at = "waiting" /\ req[h].entry = o
    BY <1>r, <2>q DEF Waiting
  <2>2. /\ req'[r] = Outside /\ ReqOK' /\ req'[h].at = "granted" /\ req'[h].entry = o
        /\ req'[h].profile = req[h].profile
        /\ \A q \in Requests : q \notin {r, h} => req'[q] = req[q]
    BY <2>1, <2>w, <1>t, ZenonT(60) DEF TypeOK, ReqOK, Request, Leaves, Outside, Points, InEntry, Slotted
  <2>3. \A e \in Objects : e # o => Waiting(e)' = Waiting(e) /\ Slots(e)' = Slots(e)
    BY <1>o, <2>2, <2>w DEF Waiting, Slots, Slotted, EntryOf, Outside
  <2>4. Slots(o)' = (Slots(o) \ {r}) \cup {h} /\ h \notin Slots(o)
    BY <1>o, <2>2, <2>w DEF Slots, Slotted, Outside
  <2>5. Waiting(o)' = Waiting(o) \ {h}
    BY <1>o, <1>r, <2>2, <2>w DEF Waiting, Outside
  <2>6. Cardinality(Slots(o)') = Cardinality(Slots(o))
    <3>1. h \notin Slots(o) \ {r} /\ IsFiniteSet(Slots(o) \ {r})
      BY <2>4, <1>s, FS_RemoveElement
    <3>2. Cardinality((Slots(o) \ {r}) \cup {h}) = Cardinality(Slots(o) \ {r}) + 1
      BY <3>1, FS_AddElement
    <3>3. Cardinality(Slots(o)) \in Nat
      BY <1>q
    <3> QED BY <3>2, <3>3, <2>4, <1>s
  <2>7. ASSUME NEW e \in Objects
        PROVE  /\ active'[e] = Cardinality(Slots(e)')
               /\ IsInjective(waiters'[e]) /\ ToSet(waiters'[e]) = Waiting(e)'
               /\ waiters'[e] # <<>> => e \notin shut' /\ active'[e] = Connections
    <3>1. /\ active[e] = Cardinality(Slots(e))
          /\ IsInjective(waiters[e]) /\ ToSet(waiters[e]) = Waiting(e)
          /\ waiters[e] # <<>> => e \notin shut /\ active[e] = Connections
      BY DEF PoolInv, SlotsAreOwned, QueuesMatch
    <3>2. CASE e = o
      BY <3>1, <3>2, <2>1, <2>5, <2>6, <2>q, <1>t, <1>2 DEF QueuesTyped
    <3>3. CASE e # o
      BY <3>1, <3>3, <2>1, <2>3, <1>t DEF QueuesTyped
    <3> QED BY <3>2, <3>3
  <2>8. QueuesTyped'
    <3>1. waiters' \in [Objects -> Seq(Requests)]
      BY <2>1, <2>q, <1>t DEF QueuesTyped
    <3>2. Len(waiters'[o]) <= MaxWaiters /\ \A e \in Objects : e # o => waiters'[e] = waiters[e]
      BY <1>q, <2>1, <2>q, <1>t, LimitsAssumption, LenProperties DEF QueuesTyped
    <3> QED BY <3>1, <3>2, <1>t DEF QueuesTyped
  <2>9. EntryMoves
    <3>0. waiters'[o] = Tail(waiters[o]) /\ \A e \in Objects : e # o => waiters'[e] = waiters[e]
      BY <2>1, <1>t DEF QueuesTyped
    <3>1. CASE o = Entry
      BY <3>0, <3>1, <1>2, <1>r, <2>h, <2>4 DEF EntryMoves, Pool!Next, Pool!Leave
    <3>2. CASE o # Entry
      BY <3>0, <3>2, <2>3, ObjectsAssumption DEF EntryMoves, Pool!vars
    <3> QED BY <3>1, <3>2
  <2> QED BY <2>1, <2>2, <2>7, <2>8, <2>9, <2>w, <1>t DEF SlotsAreOwned, QueuesMatch, GaveBack
<1> QED BY <1>1, <1>2

\* Entries are closed, and whoever waits in one of them is sent away.
LEMMA ShutStep ==
  ASSUME PoolInv, NEW es \in SUBSET Objects, ShutEntries(es), UNCHANGED active,
         \A r \in Requests : /\ req'[r].at \in Slotted <=> req[r].at \in Slotted
                             /\ req'[r].at = "waiting" <=>
                                  req[r].at = "waiting" /\ req[r].entry \notin es
                             /\ req'[r].at \in Slotted \cup {"waiting"} =>
                                  req'[r].entry = req[r].entry
  PROVE  SlotsAreOwned' /\ QueuesMatch' /\ QueuesTyped' /\ EntryMoves
<1>t. QueuesTyped
  BY DEF PoolInv, TypeOK, QueuesTyped
<1>1. \A e \in Objects : /\ Slots(e)' = Slots(e)
                         /\ Waiting(e)' = IF e \in es THEN {} ELSE Waiting(e)
  BY DEF Waiting, Slots
<1>2. \A e \in Objects : /\ waiters'[e] = IF e \in es THEN <<>> ELSE waiters[e]
                         /\ e \notin es => (e \in shut' <=> e \in shut)
  BY <1>t DEF ShutEntries, QueuesTyped
<1>3. SlotsAreOwned'
  BY <1>1 DEF PoolInv, SlotsAreOwned
<1>4. QueuesMatch'
  BY <1>1, <1>2, EmptyQueue DEF PoolInv, QueuesMatch
<1>5. QueuesTyped'
  <2>1. waiters' \in [Objects -> Seq(Requests)]
    BY <1>t, EmptyQueue DEF ShutEntries, QueuesTyped
  <2>2. Len(<<>>) = 0
    OBVIOUS
  <2> QED BY <2>1, <2>2, <1>2, <1>t, LimitsAssumption DEF QueuesTyped
<1>6. EntryMoves
  BY <1>1, <1>2, ObjectsAssumption DEF EntryMoves, Pool!vars, Pool!Next, Pool!TurnAway
<1> QED BY <1>3, <1>4, <1>5, <1>6

------------------------------------------------------------------------------
(* The steps of the requests, the entries and the registry. *)

\* Slots and queues stay right, whoever makes the step.
Counted == /\ SlotsAreOwned /\ QueuesMatch /\ QueuesTyped
           /\ active \in [Objects -> 0..Connections] /\ ReqOK

LEMMA InvParts ==
  ASSUME PoolInv
  PROVE  /\ Counted /\ TypeOK
         /\ \A r \in Requests : req[r].at \in InEntry => EntryOf(r) \in Objects
BY EntryIsObject DEF PoolInv, Counted, TypeOK, QueuesTyped, ReqOK, Request

LEMMA FindCounted ==
  ASSUME PoolInv, NEW r \in Requests, NEW p \in Profiles, FindStep(r, p)
  PROVE  Counted' /\ EntryMoves
<1> USE DEF FindStep, FindExisting, FindNew, FindEvicts, Asks, At
<1>a. req[r].at \in {"idle", "retry"} /\ req[r].at \notin InEntry
  BY DEF InEntry, Slotted
<1>0. PICK o \in Objects, point \in {"found", "evicting"} :
        req' = [req EXCEPT ![r] = [at |-> point, profile |-> p, entry |-> o]]
  <2>1. CASE FindExisting(r, p)
    BY <2>1, InvParts DEF TypeOK
  <2>2. CASE FindNew(r, p)
    BY <2>2 DEF Unused
  <2>3. CASE FindEvicts(r, p)
    BY <2>3, InvParts, ZenonT(60) DEF TypeOK, Mapped
  <2> QED BY <2>1, <2>2, <2>3
<1>1. ReqOK' /\ UNCHANGED active
  BY <1>0, InvParts, ObjectsAssumption DEF Counted, ReqOK, Request, Points, InEntry
<1>2. CASE FindExisting(r, p) \/ FindNew(r, p)
  <2>1. /\ UNCHANGED waiters /\ req'[r].at = "found"
        /\ \A q \in Requests : q # r => req'[q] = req[q]
        /\ shut' \subseteq shut
    BY <1>2, InvParts DEF TypeOK
  <2>2. SlotsAreOwned' /\ QueuesMatch' /\ EntryMoves
    BY <2>1, <1>a, <1>1, QuietStep DEF Slotted
  <2> QED BY <2>1, <2>2, <1>1, InvParts DEF Counted, QueuesTyped
<1>3. CASE FindEvicts(r, p)
  <2>1. PICK e \in Mapped : /\ Idle(e) /\ ShutEntries({e})
                            /\ req' = [req EXCEPT ![r] =
                                         [at |-> "evicting", profile |-> p, entry |-> e]]
    BY <1>3
  <2>2. e \in Objects
    BY InvParts DEF TypeOK, Mapped
  <2>3. Waiting(e) = {}
    BY <2>1, <2>2, InvParts, EmptyQueue DEF Counted, QueuesMatch, Idle
  <2>4. /\ req'[r].at = "evicting" /\ \A q \in Requests : q # r => req'[q] = req[q]
        /\ \A q \in Requests : req[q].at = "waiting" => req[q].entry # e
    BY <2>1, <2>3, InvParts DEF TypeOK, Waiting
  <2>5. SlotsAreOwned' /\ QueuesMatch' /\ QueuesTyped' /\ EntryMoves
    BY <2>1, <2>2, <2>4, <1>a, <1>1, ShutStep DEF Slotted
  <2> QED BY <2>5, <1>1, InvParts DEF Counted
<1> QED BY <1>2, <1>3

\* The steps that give a slot back.
GivesBack(r) == Release(r) \/ GetDispatcherRefused(r) \/ ObtainFails(r)
                \/ (At(r, "created") /\ FailsWithSlot(r))

LEMMA GivesBackCounted ==
  ASSUME PoolInv, NEW r \in Requests, GivesBack(r)
  PROVE  Counted' /\ GaveBack(r) /\ EntryMoves
<1>1. req[r].at \in Slotted /\ GiveBack(r) /\ UNCHANGED shut
  BY DEF GivesBack, Release, GetDispatcherRefused, ObtainFails, FailsWithSlot, At, Slotted
<1> QED BY <1>1, GiveBackStep DEF Counted

LEMMA RequestCounted ==
  ASSUME PoolInv, NEW r \in Requests, RequestStep(r) \/ Release(r)
  PROVE  Counted' /\ EntryMoves
<1>t. TypeOK /\ Counted
  BY InvParts
<1>1. CASE GivesBack(r)
  BY <1>1, GivesBackCounted
<1>2. CASE FindFails(r) \/ SlotRefused(r)
  <2>1. /\ req' = Leaves(r) /\ UNCHANGED entryVars /\ req[r].at \notin Slotted \cup {"waiting"}
    BY <1>2 DEF FindFails, SlotRefused, At, Slotted
  <2>2. /\ ReqOK' /\ req'[r].at = "idle" /\ \A q \in Requests : q # r => req'[q] = req[q]
    BY <2>1, <1>t, GoesOut
  <2>3. SlotsAreOwned' /\ QueuesMatch' /\ EntryMoves
    BY <2>1, <2>2, QuietStep DEF Slotted, entryVars
  <2> QED BY <2>1, <2>2, <2>3, <1>t DEF Counted, QueuesTyped, entryVars
<1>3. CASE GetDispatcherReady(r) \/ GetDispatcherStarts(r)
           \/ (At(r, "created") /\ req' = Goes(r, "leased") /\ UNCHANGED entryVars)
  <2>1. /\ UNCHANGED <<active, waiters, shut>> /\ req[r].at \in Slotted
        /\ \E point \in {"leased", "starting"} : req' = Goes(r, point)
    BY <1>3 DEF GetDispatcherReady, GetDispatcherStarts, At, Slotted, entryVars
  <2>2. /\ ReqOK' /\ req'[r].at \in Slotted /\ req'[r].entry = req[r].entry
        /\ \A q \in Requests : q # r => req'[q] = req[q]
    BY <2>1, <1>t, GoesOn DEF InEntry, Slotted, Points
  <2>3. SlotsAreOwned' /\ QueuesMatch' /\ EntryMoves
    BY <2>1, <2>2, QuietStep DEF Slotted
  <2> QED BY <2>1, <2>2, <2>3, <1>t DEF Counted, QueuesTyped
<1>4. CASE TakeSlot(r)
  <2>1. /\ ReqOK' /\ req[r].at = "found" /\ req'[r].at = "granted" /\ req'[r].entry = req[r].entry
        /\ \A q \in Requests : q # r => req'[q] = req[q]
    BY <1>4, <1>t, GoesOn DEF TakeSlot, At, InEntry, Slotted, Points
  <2>2. SlotsAreOwned' /\ QueuesMatch' /\ EntryMoves /\ UNCHANGED waiters
    BY <2>1, <1>4, TakeStep DEF TakeSlot
  <2>3. active' \in [Objects -> 0..Connections]
    BY <1>4, <1>t, <2>1, InvParts, LimitsAssumption DEF TakeSlot, Counted, InEntry
  <2> QED BY <2>1, <2>2, <2>3, <1>t DEF Counted, QueuesTyped
<1>5. CASE WaitForSlot(r)
  <2>1. /\ ReqOK' /\ req[r].at = "found" /\ req'[r].at = "waiting" /\ req'[r].entry = req[r].entry
        /\ \A q \in Requests : q # r => req'[q] = req[q]
    BY <1>5, <1>t, GoesOn DEF WaitForSlot, At, InEntry, Slotted, Points
  <2>2. SlotsAreOwned' /\ QueuesMatch' /\ QueuesTyped' /\ EntryMoves /\ UNCHANGED active
    BY <2>1, <1>5, WaitStep DEF WaitForSlot
  <2> QED BY <2>1, <2>2, <1>t DEF Counted
<1>6. CASE GiveUpWaiting(r)
  <2>1. ReqOK' /\ UNCHANGED active
    BY <1>6, <1>t, GoesOut DEF GiveUpWaiting
  <2> QED BY <2>1, <1>6, <1>t, GiveUpStep DEF Counted
<1> QED BY <1>1, <1>2, <1>3, <1>4, <1>5, <1>6
        DEF RequestStep, GivesBack, Obtain

\* What a step of an entry does to a request: the promise it waits for settles,
\* or the entry it evicted is gone.
Moved(r) ==
  \/ req'[r] = req[r]
  \/ \E point \in {"created", "uncreated"} :
       req[r].at = "starting" /\ req'[r] = [req[r] EXCEPT !.at = point]
  \/ req[r].at = "evicting" /\ req'[r] = [req[r] EXCEPT !.at = "retry", !.entry = None]
  \/ req[r].at = "evicting" /\ req'[r] = Outside

LEMMA EntryCounted ==
  ASSUME PoolInv, NEW e \in Objects, EntryStep(e)
  PROVE  Counted' /\ EntryMoves
<1>t. TypeOK /\ Counted
  BY InvParts
<1>1. CASE CreateSucceeds(e) \/ CreateFails(e) \/ Drained(e) \/ DrainForced(e) \/ ForcedIsGone(e)
           \/ (IdleEviction(e) /\ UNCHANGED <<waiters, shut>>)
  <2>1. UNCHANGED <<active, waiters, shut>>
    BY <1>1 DEF CreateSucceeds, CreateFails, Drained, DrainForced, ForcedIsGone, IdleEviction,
                entryVars
  <2>2. /\ req' = [r \in Requests |-> req'[r]]
        /\ \A r \in Requests : Moved(r)
    <3>1. CASE CreateSucceeds(e) \/ CreateFails(e)
      BY <3>1, <1>t DEF CreateSucceeds, CreateFails, Settled, Moved, TypeOK
    <3>2. CASE Drained(e) \/ DrainForced(e)
      BY <3>2, <1>t DEF Drained, DrainForced, Evicted, Moved, TypeOK
    <3>3. CASE ForcedIsGone(e) \/ IdleEviction(e)
      BY <3>3, <1>t DEF ForcedIsGone, IdleEviction, Moved, TypeOK
    <3> QED BY <3>1, <3>2, <3>3, <1>1
  <2>3. /\ ReqOK'
        /\ \A r \in Requests :
             /\ req'[r].at \in Slotted <=> req[r].at \in Slotted
             /\ req'[r].at = "waiting" <=> req[r].at = "waiting"
             /\ req[r].at \in Slotted \cup {"waiting"} => req'[r].entry = req[r].entry
    <3>1. ASSUME NEW r \in Requests
          PROVE  /\ req'[r] \in Request
                 /\ req'[r].entry # None <=> req'[r].at \in InEntry
                 /\ req'[r].at \in Slotted <=> req[r].at \in Slotted
                 /\ req'[r].at = "waiting" <=> req[r].at = "waiting"
                 /\ req[r].at \in Slotted \cup {"waiting"} => req'[r].entry = req[r].entry
      <4>1. /\ req[r].at \in Points /\ req[r].profile \in Profiles \cup {None}
            /\ req[r].entry \in Objects \cup {None}
            /\ (req[r].entry # None <=> req[r].at \in InEntry)
            /\ req[r] = [at |-> req[r].at, profile |-> req[r].profile, entry |-> req[r].entry]
        BY <1>t DEF Counted, ReqOK, Request
      <4>2. CASE req'[r] = req[r]
        BY <4>1, <4>2 DEF Request
      <4>3. CASE \E point \in {"created", "uncreated"} :
                   req[r].at = "starting" /\ req'[r] = [req[r] EXCEPT !.at = point]
        BY <4>1, <4>3 DEF Request, Points, InEntry, Slotted
      <4>4. CASE req[r].at = "evicting" /\ req'[r] = [req[r] EXCEPT !.at = "retry", !.entry = None]
        BY <4>1, <4>4 DEF Request, Points, InEntry, Slotted
      <4>5. CASE req[r].at = "evicting" /\ req'[r] = Outside
        BY <4>5 DEF Request, Outside, Points, InEntry, Slotted
      <4> QED BY <2>2, <4>2, <4>3, <4>4, <4>5 DEF Moved
    <3> QED BY <3>1, <2>2 DEF ReqOK
  <2>4. SlotsAreOwned' /\ QueuesMatch' /\ EntryMoves
    BY <2>1, <2>3, QuietStep
  <2> QED BY <2>1, <2>3, <2>4, <1>t DEF Counted, QueuesTyped
<1>2. CASE IdleEviction(e) /\ ShutEntries({e}) /\ Idle(e)
  <2>1. Waiting(e) = {} /\ UNCHANGED <<active, req>>
    BY <1>2, <1>t, EmptyQueue DEF Counted, QueuesMatch, Idle, IdleEviction
  <2>2. SlotsAreOwned' /\ QueuesMatch' /\ QueuesTyped' /\ EntryMoves
    BY <1>2, <2>1, ShutStep DEF Waiting, Slotted
  <2> QED BY <2>1, <2>2, <1>t DEF Counted, ReqOK
<1> QED BY <1>1, <1>2 DEF EntryStep, IdleEviction

LEMMA CloseCounted ==
  ASSUME PoolInv, CloseRegistry \/ CloseReturns \/ ForceClose
  PROVE  Counted' /\ EntryMoves
<1>t. TypeOK /\ Counted
  BY InvParts
<1>1. CASE CloseReturns
  <2>1. UNCHANGED <<active, waiters, shut, req>>
    BY <1>1 DEF CloseReturns, entryVars
  <2>2. SlotsAreOwned' /\ QueuesMatch' /\ EntryMoves
    BY <2>1, QuietStep
  <2> QED BY <2>1, <2>2, <1>t DEF Counted, QueuesTyped, ReqOK
<1>2. CASE CloseRegistry \/ ForceClose
  <2>1. PICK es \in SUBSET Objects :
          /\ ShutEntries(es) /\ UNCHANGED active
          /\ \A r \in Requests :
               IF req[r].at = "waiting" /\ req[r].entry \in es
               THEN req'[r] = Outside
               ELSE req'[r] = req[r] \/ (req[r].at = "evicting" /\ req'[r] = Outside)
          /\ DOMAIN req' = Requests /\ req' = [r \in Requests |-> req'[r]]
    <3>1. Mapped \in SUBSET Objects /\ draining \in SUBSET Objects
      BY <1>t DEF TypeOK, Mapped
    <3>2. CASE CloseRegistry
      BY <3>1, <3>2 DEF CloseRegistry, Rejected
    <3>3. CASE ForceClose
      BY <3>1, <3>3 DEF ForceClose, Rejected
    <3> QED BY <3>2, <3>3, <1>2
  <2>2. ReqOK'
    BY <2>1, <1>t DEF Counted, ReqOK, Request, Outside, Points, InEntry, Slotted
  <2>3. SlotsAreOwned' /\ QueuesMatch' /\ QueuesTyped' /\ EntryMoves
    BY <2>1, ShutStep DEF Outside, Slotted
  <2> QED BY <2>1, <2>2, <2>3, <1>t DEF Counted
<1> QED BY <1>1, <1>2

\* What is in the registry has its type.
RegistryTyped ==
  /\ registry \in {"open", "closing", "closed"}
  /\ entries \in [Profiles -> Objects \cup {None}]
  /\ draining \subseteq Objects /\ evicted \subseteq draining
  /\ shut \subseteq Objects /\ forced \subseteq shut /\ failed \subseteq Objects
  /\ timer \subseteq Objects
  /\ dispatcher \in [Objects -> {"none", "creating", "open", "gone"}]

LEMMA NextRegistry ==
  ASSUME PoolInv, Next
  PROVE  RegistryTyped' /\ DrainedAreShut'
<1>t. TypeOK /\ RegistryTyped /\ DrainedAreShut /\ Mapped \subseteq Objects
  BY DEF PoolInv, TypeOK, RegistryTyped, Mapped
<1>1. ASSUME NEW r \in Requests, NEW p \in Profiles, FindStep(r, p)
      PROVE  RegistryTyped' /\ DrainedAreShut'
  BY <1>1, <1>t DEF FindStep, FindExisting, FindNew, FindEvicts, ShutEntries, Without, Unused,
     RegistryTyped, DrainedAreShut
<1>2. ASSUME NEW r \in Requests, RequestStep(r) \/ Release(r)
      PROVE  RegistryTyped' /\ DrainedAreShut'
  <2>1. /\ UNCHANGED <<registry, draining, evicted, shut, forced, failed>>
        /\ entries' = entries \/ entries' = Without(EntryOf(r))
        /\ timer' \subseteq timer \cup {EntryOf(r)}
        /\ dispatcher' = dispatcher \/ dispatcher' = [dispatcher EXCEPT ![EntryOf(r)] = "creating"]
        /\ req[r].at \in InEntry \/ UNCHANGED timer
    BY <1>2 DEF RequestStep, Release, FindFails, TakeSlot, WaitForSlot, SlotRefused,
       GiveUpWaiting, GetDispatcherRefused, GetDispatcherReady, GetDispatcherStarts, Obtain,
       ObtainFails, FailsWithSlot, ArmIfIdle, entryVars, At, InEntry, Slotted
  <2> QED BY <2>1, <1>t, InvParts DEF RegistryTyped, DrainedAreShut, Without
<1>3. ASSUME NEW e \in Objects, EntryStep(e)
      PROVE  RegistryTyped' /\ DrainedAreShut'
  <2>1. CASE CreateSucceeds(e) \/ CreateFails(e)
    BY <2>1, <1>t DEF CreateSucceeds, CreateFails, ArmIfIdle, RegistryTyped, DrainedAreShut
  <2>2. CASE IdleEviction(e)
    BY <2>2, <1>t DEF IdleEviction, ShutEntries, Without, RegistryTyped, DrainedAreShut
  <2>3. CASE Drained(e) \/ ForcedIsGone(e)
    BY <2>3, <1>t DEF Drained, ForcedIsGone, entryVars, RegistryTyped, DrainedAreShut
  <2>4. CASE DrainForced(e)
    BY <2>4, <1>t DEF DrainForced, Destroyed, RegistryTyped, DrainedAreShut
  <2> QED BY <1>3, <2>1, <2>2, <2>3, <2>4 DEF EntryStep
<1>4. CASE CloseRegistry \/ CloseReturns \/ ForceClose
  BY <1>4, <1>t DEF CloseRegistry, CloseReturns, ForceClose, ShutEntries, Destroyed, entryVars,
     RegistryTyped, DrainedAreShut
<1> QED BY <1>1, <1>2, <1>3, <1>4 DEF Next

\* An entry that is idle has nobody in a slot.
LEMMA IdleIsEmpty ==
  ASSUME PoolInv, NEW e \in Objects, Idle(e), NEW r \in Requests
  PROVE  ~(req[r].at \in Slotted /\ req[r].entry = e)
<1>1. Cardinality(Slots(e)) = 0 /\ IsFiniteSet(Slots(e))
  BY FiniteSets DEF PoolInv, SlotsAreOwned, Idle
<1>2. Slots(e) = {}
  BY <1>1, FS_EmptySet
<1> QED BY <1>2 DEF Slots

\* No step takes the dispatcher from a request, while the registry is open.
LEMMA NextDispatchers ==
  ASSUME PoolInv, Next
  PROVE  DispatchersAreThere'
<1> SUFFICES ASSUME registry' = "open", NEW q \in Requests PROVE There(q)'
  BY DEF DispatchersAreThere
<1>t. TypeOK /\ Counted
  BY InvParts
<1>o. registry = "open"
  BY DEF Next, RequestStep, Release, FindFails, TakeSlot, WaitForSlot, SlotRefused,
     GiveUpWaiting, GetDispatcherRefused, GetDispatcherReady, GetDispatcherStarts, Obtain,
     ObtainFails, FailsWithSlot, FindStep, FindExisting, FindNew, FindEvicts, EntryStep,
     CreateSucceeds, CreateFails, IdleEviction, Drained, DrainForced, ForcedIsGone,
     CloseRegistry, CloseReturns, ForceClose
<1>q. /\ req[q].at = "starting" => EntryOf(q) \notin shut /\ dispatcher[EntryOf(q)] = "creating"
      /\ req[q].at \in {"created", "leased"} =>
           EntryOf(q) \notin shut /\ dispatcher[EntryOf(q)] = "open"
      /\ req[q].at \in {"starting", "created", "leased"} => EntryOf(q) \in Objects
  BY <1>o, InvParts DEF PoolInv, DispatchersAreThere, There, InEntry, Slotted
<1>1. ASSUME NEW r \in Requests, NEW p \in Profiles, FindStep(r, p)
      PROVE  There(q)'
  <2>1. CASE FindExisting(r, p)
    BY <1>q, <1>t, <2>1 DEF FindExisting, There, EntryOf, TypeOK
  <2>2. CASE FindNew(r, p)
    BY <1>q, <1>t, <2>2 DEF FindNew, Unused, There, EntryOf, TypeOK
  <2>3. CASE FindEvicts(r, p)
    <3>1. PICK e \in Objects :
            /\ Idle(e) /\ shut' = shut \cup {e} /\ UNCHANGED dispatcher
            /\ req' = [req EXCEPT ![r] = [at |-> "evicting", profile |-> p, entry |-> e]]
      <4>1. Mapped \subseteq Objects
        BY <1>t DEF TypeOK, Mapped
      <4> QED BY <2>3, <4>1 DEF FindEvicts, ShutEntries
    <3>2. ~(req[q].at \in {"starting", "created", "leased"} /\ EntryOf(q) = e)
      BY <3>1, IdleIsEmpty DEF Slotted, EntryOf
    <3> QED BY <3>1, <3>2, <1>q, <1>t DEF There, EntryOf, TypeOK
  <2> QED BY <1>1, <2>1, <2>2, <2>3 DEF FindStep
<1>2. ASSUME NEW r \in Requests, RequestStep(r) \/ Release(r)
      PROVE  There(q)'
  <2>1. CASE GivesBack(r)
    <3>1. GaveBack(r) /\ UNCHANGED <<shut, dispatcher>>
      BY <2>1, GivesBackCounted
      DEF GivesBack, Release, GetDispatcherRefused, ObtainFails, FailsWithSlot
    <3> QED BY <3>1, <1>q DEF GaveBack, Outside, There, EntryOf
  <2>2. CASE FindFails(r) \/ SlotRefused(r) \/ GiveUpWaiting(r)
    <3>1. req' = Leaves(r) /\ UNCHANGED <<shut, dispatcher>>
      BY <2>2 DEF FindFails, SlotRefused, GiveUpWaiting, entryVars
    <3>2. req'[r].at = "idle" /\ (q # r => req'[q] = req[q])
      BY <3>1, <1>t, GoesOut
    <3> QED BY <3>1, <3>2, <1>q DEF There, EntryOf
  <2>3. CASE TakeSlot(r) \/ WaitForSlot(r)
    <3>1. /\ \E point \in {"granted", "waiting"} : req' = Goes(r, point)
          /\ UNCHANGED <<shut, dispatcher>>
      BY <2>3 DEF TakeSlot, WaitForSlot
    <3> QED BY <3>1, <1>q, <1>t DEF Goes, There, EntryOf, TypeOK
  <2>4. CASE GetDispatcherReady(r)
    BY <2>4, <1>q, <1>t DEF GetDispatcherReady, entryVars, Goes, There, EntryOf, TypeOK
  <2>5. CASE GetDispatcherStarts(r)
    <3>1. EntryOf(r) \in Objects
      BY <2>5, InvParts DEF GetDispatcherStarts, At, InEntry, Slotted
    <3> QED BY <2>5, <3>1, <1>q, <1>t DEF GetDispatcherStarts, Goes, There, EntryOf, TypeOK
  <2>6. CASE /\ At(r, "created") /\ EntryOf(r) \notin shut
             /\ req' = Goes(r, "leased") /\ UNCHANGED entryVars
    BY <2>6, <1>q, <1>t DEF At, entryVars, Goes, There, EntryOf, TypeOK
  <2> QED BY <1>2, <2>1, <2>2, <2>3, <2>4, <2>5, <2>6 DEF RequestStep, GivesBack, Obtain
<1>3. ASSUME NEW e \in Objects, EntryStep(e)
      PROVE  There(q)'
  <2>1. CASE CreateSucceeds(e)
    BY <2>1, <1>q, <1>t DEF CreateSucceeds, Settled, There, EntryOf, TypeOK
  <2>2. CASE CreateFails(e)
    BY <2>2, <1>q, <1>t DEF CreateFails, Settled, There, EntryOf, TypeOK
  <2>3. CASE IdleEviction(e)
    <3>1. /\ UNCHANGED <<dispatcher, req>>
          /\ shut' = shut \/ (shut' = shut \cup {e} /\ Idle(e))
      BY <2>3 DEF IdleEviction, ShutEntries
    <3>2. Idle(e) => ~(req[q].at \in {"starting", "created", "leased"} /\ EntryOf(q) = e)
      BY IdleIsEmpty DEF Slotted, EntryOf
    <3> QED BY <3>1, <3>2, <1>q DEF There, EntryOf
  <2>4. CASE Drained(e) \/ DrainForced(e)
    <3>1. e \in shut
      BY <2>4 DEF Drained, DrainForced, PoolInv, TypeOK, DrainedAreShut
    <3>2. /\ UNCHANGED shut /\ (req'[q] = req[q] \/ req'[q].at \in {"retry", "idle"})
          /\ \A o \in Objects : o # e => dispatcher'[o] = dispatcher[o]
      <4>1. CASE Drained(e)
        BY <4>1, <1>t DEF Drained, Evicted, Outside, TypeOK
      <4>2. CASE DrainForced(e)
        BY <4>2, <1>t DEF DrainForced, Destroyed, Evicted, Outside, TypeOK
      <4> QED BY <2>4, <4>1, <4>2
    <3> QED BY <3>1, <3>2, <1>q DEF There, EntryOf
  <2>5. CASE ForcedIsGone(e)
    BY <2>5, <1>q DEF ForcedIsGone, entryVars, There, EntryOf
  <2> QED BY <1>3, <2>1, <2>2, <2>3, <2>4, <2>5 DEF EntryStep
<1>4. ~(CloseRegistry \/ CloseReturns \/ ForceClose)
  BY DEF CloseRegistry, CloseReturns, ForceClose
<1> QED BY <1>1, <1>2, <1>3, <1>4 DEF Next

------------------------------------------------------------------------------
(* The bound on the entries. *)

\* One element more, one element less.
LEMMA CountOne ==
  ASSUME NEW S, IsFiniteSet(S), NEW x
  PROVE  /\ Cardinality(S) \in Nat
         /\ Cardinality(S \cup {x}) \in Nat /\ Cardinality(S \cup {x}) <= Cardinality(S) + 1
         /\ Cardinality(S \ {x}) \in Nat /\ Cardinality(S \ {x}) <= Cardinality(S)
         /\ x \in S => Cardinality(S \ {x}) = Cardinality(S) - 1
<1>1. /\ Cardinality(S) \in Nat /\ Cardinality(S \cup {x}) \in Nat /\ Cardinality(S \ {x}) \in Nat
  BY FS_AddElement, FS_RemoveElement, FS_CardinalityType
<1>2. Cardinality(S \cup {x}) = IF x \in S THEN Cardinality(S) ELSE Cardinality(S) + 1
  BY FS_AddElement
<1>3. Cardinality(S \ {x}) = IF x \in S THEN Cardinality(S) - 1 ELSE Cardinality(S)
  BY FS_RemoveElement
<1> QED BY <1>1, <1>2, <1>3

\* Two sets together.
LEMMA CountBoth ==
  ASSUME NEW S, IsFiniteSet(S), NEW T, IsFiniteSet(T)
  PROVE  Cardinality(S \cup T) \in Nat /\ Cardinality(S \cup T) <= Cardinality(S) + Cardinality(T)
<1>1. Cardinality(S) \in Nat /\ Cardinality(T) \in Nat
  BY FS_CardinalityType
<1>2. Cardinality(S \cap T) \in Nat /\ S \cap T \in SUBSET S
  BY FS_Subset, FS_CardinalityType
<1>3. /\ IsFiniteSet(S \cup T)
      /\ Cardinality(S \cup T) = Cardinality(S) + Cardinality(T) - Cardinality(S \cap T)
  BY FS_Union
<1>4. Cardinality(S \cup T) \in Nat
  BY <1>3, FS_CardinalityType
<1> QED BY <1>1, <1>2, <1>3, <1>4

\* An entry leaves the map.
LEMMA MappedWithout ==
  ASSUME TypeOK, NEW e \in Objects, entries' = Without(e)
  PROVE  Mapped' = Mapped \ {e}
BY ObjectsAssumption DEF TypeOK, Mapped, Without

\* Moving an entry from the map to the draining ones keeps the sum.
LEMMA DrainStep ==
  ASSUME PoolInv, NEW e \in Mapped, entries' = Without(e), draining' = draining \cup {e}
  PROVE  EntriesAreBounded'
<1>1. TypeOK /\ e \in Objects /\ MaxEntries \in Nat
  BY LimitsAssumption DEF PoolInv, TypeOK, Mapped
<1>2. /\ Cardinality(Mapped') = Cardinality(Mapped) - 1
      /\ Cardinality(draining') <= Cardinality(draining) + 1
      /\ Cardinality(Mapped) \in Nat
      /\ Cardinality(draining) \in Nat /\ Cardinality(draining') \in Nat
  <2>1. Mapped' = Mapped \ {e} /\ draining' = draining \cup {e}
    BY <1>1, MappedWithout
  <2> QED BY <1>1, <2>1, FiniteSets, CountOne
<1> QED BY <1>1, <1>2 DEF PoolInv, EntriesAreBounded

LEMMA NextBounded ==
  ASSUME PoolInv, Next
  PROVE  EntriesAreBounded'
<1>t. /\ TypeOK /\ IsFiniteSet(Mapped) /\ IsFiniteSet(draining) /\ MaxEntries \in Nat
      /\ Cardinality(Mapped) \in Nat /\ Cardinality(draining) \in Nat
      /\ Cardinality(Mapped) + Cardinality(draining) <= MaxEntries
  BY FiniteSets, LimitsAssumption DEF PoolInv, EntriesAreBounded
<1>1. CASE UNCHANGED <<entries, draining>>
  BY <1>1, <1>t DEF EntriesAreBounded, Mapped
<1>2. ASSUME NEW r \in Requests, NEW p \in Profiles, FindNew(r, p)
      PROVE  EntriesAreBounded'
  <2>1. PICK e \in Objects : entries' = [entries EXCEPT ![p] = e] /\ UNCHANGED draining
    BY <1>2 DEF FindNew, Unused
  <2>2. Mapped' \in SUBSET (Mapped \cup {e})
    BY <2>1, <1>t DEF Mapped, TypeOK
  <2>3. /\ Cardinality(Mapped') <= Cardinality(Mapped) + 1
        /\ Cardinality(Mapped') \in Nat
    <3>1. /\ IsFiniteSet(Mapped \cup {e}) /\ Cardinality(Mapped \cup {e}) \in Nat
          /\ Cardinality(Mapped \cup {e}) <= Cardinality(Mapped) + 1
      BY <1>t, CountOne, FS_AddElement
    <3>2. /\ Cardinality(Mapped') \in Nat
          /\ Cardinality(Mapped') <= Cardinality(Mapped \cup {e})
      BY <3>1, <2>2, FS_Subset, FS_CardinalityType
    <3> QED BY <3>1, <3>2, <1>t
  <2>4. Cardinality(Mapped) + Cardinality(draining) < MaxEntries
    BY <1>2 DEF FindNew
  <2> QED BY <2>1, <2>3, <2>4, <1>t DEF EntriesAreBounded
<1>3. CASE \E e \in Objects : entries' = Without(e) /\ UNCHANGED draining
  <2>1. PICK e \in Objects : entries' = Without(e) /\ UNCHANGED draining
    BY <1>3
  <2>2. Cardinality(Mapped') <= Cardinality(Mapped) /\ Cardinality(Mapped') \in Nat
    <3>1. Mapped' = Mapped \ {e}
      BY <2>1, <1>t, MappedWithout
    <3> QED BY <3>1, <1>t, CountOne
  <2> QED BY <2>1, <2>2, <1>t DEF EntriesAreBounded
<1>4. CASE \E e \in Mapped : entries' = Without(e) /\ draining' = draining \cup {e}
  BY <1>4, DrainStep
<1>5. CASE \E e \in Objects : draining' = draining \ {e} /\ UNCHANGED entries
  <2>1. PICK e \in Objects : draining' = draining \ {e} /\ UNCHANGED entries
    BY <1>5
  <2>2. Cardinality(draining') <= Cardinality(draining) /\ Cardinality(draining') \in Nat
    BY <2>1, <1>t, CountOne
  <2> QED BY <2>1, <2>2, <1>t DEF EntriesAreBounded, Mapped
<1>6. CASE CloseRegistry
  <2>1. Mapped' = {} /\ draining' = draining \cup Mapped
    BY <1>6 DEF CloseRegistry, Mapped
  <2>2. /\ Cardinality(draining') <= Cardinality(draining) + Cardinality(Mapped)
        /\ Cardinality(draining') \in Nat /\ Cardinality(Mapped') = 0
    BY <2>1, <1>t, CountBoth, FS_EmptySet
  <2> QED BY <2>2, <1>t DEF EntriesAreBounded
<1>7. CASE ForceClose
  <2>1. Mapped' = {} /\ draining' = {}
    BY <1>7 DEF ForceClose, Mapped
  <2> QED BY <2>1, <1>t, FS_EmptySet DEF EntriesAreBounded
<1>8. ASSUME NEW r \in Requests, RequestStep(r) \/ Release(r)
      PROVE  EntriesAreBounded'
  <2>1. /\ UNCHANGED draining
        /\ UNCHANGED entries \/ (entries' = Without(EntryOf(r)) /\ req[r].at \in InEntry)
    BY <1>8 DEF RequestStep, Release, FindFails, TakeSlot, WaitForSlot, SlotRefused,
       GiveUpWaiting, GetDispatcherRefused, GetDispatcherReady, GetDispatcherStarts, Obtain,
       ObtainFails, FailsWithSlot, At, InEntry, Slotted
  <2> QED BY <2>1, <1>1, <1>3, InvParts
<1>9. ASSUME NEW r \in Requests, NEW p \in Profiles, FindStep(r, p)
      PROVE  EntriesAreBounded'
  BY <1>9, <1>1, <1>2, <1>4 DEF FindStep, FindExisting, FindEvicts
<1>10. ASSUME NEW e \in Objects, EntryStep(e)
       PROVE  EntriesAreBounded'
  BY <1>10, <1>1, <1>4, <1>5 DEF EntryStep, CreateSucceeds, CreateFails, IdleEviction, Drained,
     DrainForced, ForcedIsGone
<1> QED BY <1>1, <1>6, <1>7, <1>8, <1>9, <1>10 DEF Next, CloseReturns

------------------------------------------------------------------------------
LEMMA InitPool == Init => PoolInv
<1> SUFFICES ASSUME Init PROVE PoolInv
  OBVIOUS
<1>1. Mapped = {} /\ \A e \in Objects : Slots(e) = {} /\ Waiting(e) = {}
  BY DEF Init, Mapped, Slots, Waiting, Outside, Slotted
<1>2. Len(<<>>) = 0
  OBVIOUS
<1>3. TypeOK
  <2>1. RegistryTyped /\ active \in [Objects -> 0..Connections]
    BY LimitsAssumption DEF Init, RegistryTyped
  <2>2. QueuesTyped
    BY <1>2, EmptyQueue, LimitsAssumption DEF Init, QueuesTyped
  <2>3. ReqOK
    BY DEF Init, ReqOK, Request, Outside, Points, InEntry, Slotted
  <2> QED BY <2>1, <2>2, <2>3 DEF TypeOK, RegistryTyped, QueuesTyped, ReqOK, Request
<1>4. SlotsAreOwned /\ EntriesAreBounded
  <2>1. Cardinality({}) = 0 /\ MaxEntries \in Nat /\ 0 + 0 <= MaxEntries
    BY FS_EmptySet, LimitsAssumption
  <2>2. draining = {} /\ \A e \in Objects : active[e] = 0
    BY DEF Init
  <2> QED BY <1>1, <2>1, <2>2 DEF SlotsAreOwned, EntriesAreBounded
<1>5. QueuesMatch
  <2> SUFFICES ASSUME NEW e \in Objects PROVE waiters[e] = <<>> /\ Waiting(e) = {}
    BY EmptyQueue DEF QueuesMatch
  <2> QED BY <1>1 DEF Init
<1>6. DispatchersAreThere /\ DrainedAreShut
  BY DEF Init, DispatchersAreThere, There, DrainedAreShut, Outside
<1> QED BY <1>3, <1>4, <1>5, <1>6 DEF PoolInv

LEMMA NextPool == PoolInv /\ [Next]_vars => PoolInv'
<1> SUFFICES ASSUME PoolInv, [Next]_vars PROVE PoolInv'
  OBVIOUS
<1>1. CASE UNCHANGED vars
  BY <1>1 DEF vars, entryVars, PoolInv, TypeOK, SlotsAreOwned, Slots, QueuesMatch, Waiting,
     DispatchersAreThere, There, EntryOf, DrainedAreShut, EntriesAreBounded, Mapped
<1>2. CASE Next
  <2>1. Counted'
    BY <1>2, FindCounted, RequestCounted, EntryCounted, CloseCounted DEF Next
  <2>2. TypeOK'
    BY <2>1, <1>2, NextRegistry
       DEF TypeOK, Counted, RegistryTyped, QueuesTyped, ReqOK, Request
  <2> QED BY <2>1, <2>2, <1>2, NextRegistry, NextDispatchers, NextBounded DEF PoolInv, Counted
<1> QED BY <1>1, <1>2

\* Slots are owned, waiters can be woken, the entries are bounded and eviction
\* spares the dispatchers in use (inference_pool.ts:93, :173, :184, :396).
THEOREM PoolSafe == Spec => []SlotsAndEntriesAreSafe
<1>1. PoolInv => SlotsAndEntriesAreSafe
  BY DEF PoolInv, SlotsAndEntriesAreSafe, QueuesMatch, WaitersCanBeWoken, Waiting,
     DispatchersAreThere, There, LeasesAreLive
<1> QED BY InitPool, NextPool, <1>1, PTL DEF Spec

\* Every entry is a pool of slots: first come, first served, and from the one that
\* leaves to the one that waits (inference_pool.ts:286-330, :388-411).
THEOREM EntryIsPool == Spec => EntriesAreFair
<1>1. Init => Pool!Init
  BY ObjectsAssumption DEF Init, Pool!Init, Slots, Outside, Slotted
<1>2. PoolInv /\ [Next]_vars => EntryMoves
  <2> SUFFICES ASSUME PoolInv, [Next]_vars PROVE EntryMoves
    OBVIOUS
  <2>1. CASE Next
    BY <2>1, FindCounted, RequestCounted, EntryCounted, CloseCounted DEF Next
  <2>2. CASE UNCHANGED vars
    BY <2>2 DEF vars, entryVars, EntryMoves, Pool!vars, Slots
  <2> QED BY <2>1, <2>2
<1> QED BY <1>1, <1>2, InitPool, NextPool, PTL DEF Spec, EntriesAreFair, Pool!Spec, EntryMoves
===============================================================================
