------------------------------- MODULE Admission -------------------------------
(***************************************************************************)
(* The admission gate of the inference routes: AdmissionController in      *)
(* gateway/admission.ts, used by handleRoute in gateway/hono_app.ts.       *)
(*                                                                         *)
(* A request takes a permit if fewer than its own snapshot's activeMax are *)
(* out, queues if the queue is shorter than its snapshot's queueMax, and   *)
(* is refused otherwise.  A request that queued is resumed in two steps:   *)
(* release() resolves the waiter's promise, and the continuation of        *)
(* acquire() counts it as active only when the microtask queue reaches it. *)
(* Between the two the request is neither waiting nor counted: "woken".    *)
(***************************************************************************)
EXTENDS Naturals, Sequences, FiniteSets, SequencesExt

CONSTANTS
  Requests,           \* the requests of a behaviour, each sent once
  Limits,             \* the configurations: [activeMax, queueMax]
  MicrotaskArrivals   \* may acquire() run from a microtask?  FALSE for the
                      \* HTTP listener, which calls it from a macrotask of
                      \* its own; TRUE for callers of gateway.fetch()

ASSUME LimitsAssumption ==
  /\ Limits # {}
  /\ \A l \in Limits : l.activeMax \in Nat /\ l.queueMax \in Nat
ASSUME RequestsAssumption == IsFiniteSet(Requests)
ASSUME MicrotaskAssumption == MicrotaskArrivals \in BOOLEAN

VARIABLES
  limits,     \* the current configuration
  active,     \* AdmissionController.active
  closed,     \* AdmissionController.closed
  waiters,    \* AdmissionController.waiters
  phase,      \* where each request is in handleRoute and acquire()
  snapshot,   \* the configuration each request read when it arrived
  signalled   \* the requests whose work signal is aborted

vars == <<limits, active, closed, waiters, phase, snapshot, signalled>>

Phases == {"idle", "waiting", "woken", "holding", "done",
           "queue_full", "queue_timeout", "aborted"}

TypeOK ==
  /\ limits \in Limits
  /\ active \in Nat
  /\ closed \in BOOLEAN
  /\ waiters \in Seq(Requests)
  /\ phase \in [Requests -> Phases]
  /\ snapshot \in [Requests -> Limits]
  /\ signalled \subseteq Requests

Init ==
  /\ limits \in Limits
  /\ active = 0
  /\ closed = FALSE
  /\ waiters = <<>>
  /\ phase = [r \in Requests |-> "idle"]
  /\ snapshot = [r \in Requests |-> limits]
  /\ signalled = {}

Waiting == {r \in Requests : phase[r] = "waiting"}
Woken   == {r \in Requests : phase[r] = "woken"}
Holding == {r \in Requests : phase[r] = "holding"}

------------------------------------------------------------------------------
\* The request arrives: it reads the configuration and calls acquire() in the
\* same synchronous run.
Arrives(r) ==
  /\ phase[r] = "idle"
  /\ MicrotaskArrivals \/ Woken = {}
  /\ snapshot' = [snapshot EXCEPT ![r] = limits]

AcquireRefused(r) ==
  /\ Arrives(r)
  /\ closed \/ r \in signalled
  /\ phase' = [phase EXCEPT ![r] = "aborted"]
  /\ UNCHANGED <<limits, active, closed, waiters, signalled>>

AcquireNow(r) ==
  /\ Arrives(r)
  /\ ~closed /\ r \notin signalled
  /\ active < limits.activeMax
  /\ active' = active + 1
  /\ phase' = [phase EXCEPT ![r] = "holding"]
  /\ UNCHANGED <<limits, closed, waiters, signalled>>

AcquireQueueFull(r) ==
  /\ Arrives(r)
  /\ ~closed /\ r \notin signalled
  /\ active >= limits.activeMax
  /\ Len(waiters) >= limits.queueMax
  /\ phase' = [phase EXCEPT ![r] = "queue_full"]
  /\ UNCHANGED <<limits, active, closed, waiters, signalled>>

AcquireWait(r) ==
  /\ Arrives(r)
  /\ ~closed /\ r \notin signalled
  /\ active >= limits.activeMax
  /\ Len(waiters) < limits.queueMax
  /\ waiters' = Append(waiters, r)
  /\ phase' = [phase EXCEPT ![r] = "waiting"]
  /\ UNCHANGED <<limits, active, closed, signalled>>

\* acquire() continues after waitForSlot: it counts itself without looking at
\* the limit, at closed or at the signal again.
Resume(r) ==
  /\ phase[r] = "woken"
  /\ active' = active + 1
  /\ phase' = [phase EXCEPT ![r] = "holding"]
  /\ UNCHANGED <<limits, closed, waiters, snapshot, signalled>>

\* Defect: release() gives the permit back without waking the next waiter.
Release_LosesWakeup(r) ==
  /\ phase[r] = "holding"
  /\ active' = active - 1
  /\ phase' = [phase EXCEPT ![r] = "done"]
  /\ UNCHANGED <<limits, closed, waiters, snapshot, signalled>>

\* Defect: the newest waiter is woken first.
Release_WakesNewest(r) ==
  /\ phase[r] = "holding" /\ waiters # <<>>
  /\ active' = active - 1
  /\ phase' = [phase EXCEPT ![r] = "done", ![Last(waiters)] = "woken"]
  /\ waiters' = Front(waiters)
  /\ UNCHANGED <<limits, closed, snapshot, signalled>>

\* Defect: cleanup is not guarded by "cleaned" and may run again.
Release_Repeatable(r) ==
  /\ phase[r] = "holding"
  /\ active' = active - 1
  /\ UNCHANGED <<limits, closed, waiters, phase, snapshot, signalled>>

\* handleRoute's cleanup, which runs once per request, calls release().
Release(r) ==
  /\ phase[r] = "holding"
  /\ active' = IF active = 0 THEN 0 ELSE active - 1
  /\ IF waiters = <<>>
     THEN /\ phase' = [phase EXCEPT ![r] = "done"]
          /\ UNCHANGED waiters
     ELSE /\ phase' = [phase EXCEPT ![r] = "done", ![Head(waiters)] = "woken"]
          /\ waiters' = Tail(waiters)
  /\ UNCHANGED <<limits, closed, snapshot, signalled>>

\* The queue timer fires while the request is still queued.
QueueTimeout(r) ==
  /\ \E i \in 1..Len(waiters) :
       waiters[i] = r /\ waiters' = RemoveAt(waiters, i)
  /\ phase' = [phase EXCEPT ![r] = "queue_timeout"]
  /\ UNCHANGED <<limits, active, closed, snapshot, signalled>>

\* Defect: the abort listener rejects the waiter but leaves it in the queue.
AbortQueued_LeavesEntry(r) ==
  /\ r \notin signalled
  /\ signalled' = signalled \cup {r}
  /\ r \in ToSet(waiters)
  /\ phase' = [phase EXCEPT ![r] = "aborted"]
  /\ UNCHANGED <<limits, active, closed, waiters, snapshot>>

\* The client goes away: a queued request leaves the queue at once, one that
\* was already woken keeps its place and gives the permit back in cleanup.
AbortQueued(r) ==
  /\ r \notin signalled
  /\ signalled' = signalled \cup {r}
  /\ \E i \in 1..Len(waiters) :
       waiters[i] = r /\ waiters' = RemoveAt(waiters, i)
  /\ phase' = [phase EXCEPT ![r] = "aborted"]
  /\ UNCHANGED <<limits, active, closed, snapshot>>

AbortElsewhere(r) ==
  /\ phase[r] \in {"idle", "woken", "holding"}
  /\ r \notin signalled
  /\ signalled' = signalled \cup {r}
  /\ UNCHANGED <<limits, active, closed, waiters, phase, snapshot>>

\* closeGateway closes the gate: every queued request is rejected.
Close ==
  /\ ~closed
  /\ closed' = TRUE
  /\ waiters' = <<>>
  /\ phase' = [r \in Requests |->
                 IF phase[r] = "waiting" THEN "aborted" ELSE phase[r]]
  /\ UNCHANGED <<limits, active, snapshot, signalled>>

\* A configuration update is stored: later arrivals read it.
Reconfigure(l) ==
  /\ limits' = l
  /\ l # limits
  /\ UNCHANGED <<active, closed, waiters, phase, snapshot, signalled>>

RequestStep(r) ==
  \/ AcquireRefused(r) \/ AcquireNow(r) \/ AcquireQueueFull(r)
  \/ AcquireWait(r) \/ Resume(r) \/ Release(r)
  \/ QueueTimeout(r) \/ AbortQueued(r) \/ AbortElsewhere(r)

Next ==
  \/ \E r \in Requests : RequestStep(r)
  \/ Close
  \/ \E l \in Limits : Reconfigure(l)

\* A resolved promise's continuation runs, and every handler reaches its
\* cleanup; nothing else is promised (timers and clients may do nothing).
Fairness == \A r \in Requests : WF_vars(Resume(r)) /\ WF_vars(Release(r))

Spec == Init /\ [][Next]_vars
FairSpec == Spec /\ Fairness

------------------------------------------------------------------------------
(* Safety *)

\* active counts exactly the requests that hold a permit: no path of
\* handleRoute gives a permit back twice, and none keeps one.
PermitAccounting == active = Cardinality(Holding)

\* The queue and the requests waiting in acquire() are the same, without
\* repetition: nobody waits that a release can no longer wake.
QueueMatchesWaiting ==
  /\ ToSet(waiters) = Waiting
  /\ IsInjective(waiters)

\* A request waits only while the permits of the limit it read are all out or
\* already promised to woken requests: no release loses a wakeup, whatever
\* happens to the configuration.
NoIdleWaiting ==
  \A r \in Waiting : snapshot[r].activeMax <= active + Cardinality(Woken)

\* With one configuration and arrivals from the listener, the permits out and
\* promised never exceed activeMax.
Capacity ==
  \A l \in Limits : active + Cardinality(Woken) <= l.activeMax

------------------------------------------------------------------------------
(* Action properties *)

\* Under one configuration, nobody gets a permit at the door while others
\* queue for one.
NoOvertaking ==
  [][\A r \in Requests :
       phase[r] = "idle" /\ phase'[r] = "holding" => waiters = <<>>]_vars

------------------------------------------------------------------------------
(* Liveness *)

\* The permits of finished requests alone drain the queue: a queued request
\* does not need its timer to leave it.
WaitersServed ==
  \A r \in Requests : phase[r] = "waiting" ~> phase[r] # "waiting"

------------------------------------------------------------------------------
(* Under one configuration and with arrivals from the listener the gate is *)
(* a fair pool of permits: a woken request owns the permit it is about to  *)
(* count.                                                                  *)
Pool == INSTANCE PermitPool
          WITH Users    <- Requests,
               Permits  <- (CHOOSE l \in Limits : TRUE).activeMax,
               QueueMax <- (CHOOSE l \in Limits : TRUE).queueMax,
               granted  <- Woken \cup Holding,
               queue    <- waiters

\* The gate implements the abstract pool.
ImplementsPool == Pool!Spec

===============================================================================
