--------------------------- MODULE AccountCoordinator ---------------------------
(***************************************************************************)
(* accounts/account_coordinator.ts: the lanes that serialise the account   *)
(* operations of one process.  There is one lifecycle lane, and a          *)
(* generation lane per account that exists only while somebody is in it.   *)
(*                                                                         *)
(* A job is one call of the directory or of the token refresh.  Sign-in,   *)
(* removal and reconciliation hold the lifecycle lane and take generation  *)
(* lanes inside it, one after the other; a refresh takes one generation    *)
(* lane alone; the retried cleanup takes the lifecycle lane alone.         *)
(*                                                                         *)
(* What runs between two awaits is one action, except that a job which is  *)
(* admitted to the lifecycle lane asks for its first generation lane in a  *)
(* step of its own.                                                        *)
(***************************************************************************)
EXTENDS Naturals, Sequences, FiniteSets, SequencesExt

CONSTANTS
  Jobs,         \* the operations of a behaviour, each called once
  Accounts,     \* the accounts
  Plan,         \* what each job takes: [lifecycle, accounts]
  LaneIds,      \* the generation lane objects that may be created
  Lifecycle,    \* the lifecycle lane object
  NoLane,       \* no lane object
  Pooled        \* any one of the accounts: the one LanesAreFair is about

AllLanes == LaneIds \cup {Lifecycle}

ASSUME PlanAssumption ==
  /\ Plan \in [Jobs -> [lifecycle : BOOLEAN, accounts : Seq(Accounts)]]
  /\ \A j \in Jobs : ~Plan[j].lifecycle => Len(Plan[j].accounts) = 1
ASSUME LanesAssumption ==
  Lifecycle \notin LaneIds /\ NoLane \notin AllLanes
ASSUME PooledAssumption == Pooled \in Accounts
\* So many can queue at most: the lanes have no limit of their own.
ASSUME JobsAssumption == IsFiniteSet(Jobs)

VARIABLES
  lanes,        \* each lane object's active flag and queue
  generations,  \* the map from accounts to lane objects
  at,           \* where each job is
  step,         \* the index of the job's next account
  holds,        \* the generation lane object the job is in, queued or running
  failed,       \* the jobs whose work has thrown
  signalled,    \* the jobs whose signal is aborted
  stopped,      \* AccountCoordinator.stopped
  drain         \* the drain of close(): "none", "waiting", "resolved"

vars == <<lanes, generations, at, step, holds, failed, signalled, stopped, drain>>

Ended == {"done", "failed"}
Inside == {"life", "queued_gen", "gen"}
Account(j) == Plan[j].accounts[step[j]]
MoreAccounts(j) == step[j] <= Len(Plan[j].accounts)

TypeOK ==
  /\ lanes \in [AllLanes -> [active : BOOLEAN, queue : Seq(Jobs)]]
  /\ generations \in [Accounts -> LaneIds \cup {NoLane}]
  /\ at \in [Jobs -> {"idle", "queued_life"} \cup Inside \cup Ended]
  /\ step \in [Jobs -> Nat \ {0}]
  /\ \A j \in Jobs : step[j] <= Len(Plan[j].accounts) + 1
  /\ holds \in [Jobs -> LaneIds \cup {NoLane}]
  /\ \A j \in Jobs : holds[j] # NoLane <=> at[j] \in {"queued_gen", "gen"}
  /\ failed \subseteq Jobs
  /\ signalled \subseteq Jobs
  /\ stopped \in BOOLEAN
  /\ drain \in {"none", "waiting", "resolved"}

Init ==
  /\ lanes = [l \in AllLanes |-> [active |-> FALSE, queue |-> <<>>]]
  /\ generations = [a \in Accounts |-> NoLane]
  /\ at = [j \in Jobs |-> "idle"]
  /\ step = [j \in Jobs |-> 1]
  /\ holds = [j \in Jobs |-> NoLane]
  /\ failed = {} /\ signalled = {}
  /\ stopped = FALSE /\ drain = "none"

------------------------------------------------------------------------------
\* pending = 0
Empty(lane) == ~lane.active /\ lane.queue = <<>>

\* isIdle(): the sizes, not the work, are looked at.
IsIdle(ls, gens) ==
  Empty(ls[Lifecycle]) /\ \A a \in Accounts : gens[a] = NoLane

\* changed(): an idle coordinator resolves its drain waiters.
Changed ==
  drain' = IF drain = "waiting" /\ IsIdle(lanes', generations') THEN "resolved" ELSE drain

\* run(): an idle lane admits the job at once, an active one queues it.
Join(l, j) ==
  lanes' = [lanes EXCEPT ![l] =
              [active |-> TRUE,
               queue |-> IF lanes[l].active THEN Append(lanes[l].queue, j)
                                            ELSE lanes[l].queue]]

\* admit()'s finally: the lane goes to the first queued job, if there is one.
HandOn(l) ==
  lanes' = [lanes EXCEPT ![l] =
              IF lanes[l].queue = <<>> THEN [active |-> FALSE, queue |-> <<>>]
              ELSE [active |-> TRUE, queue |-> Tail(lanes[l].queue)]]

\* The job that leaves goes to "to"; the one that is admitted is now inside.
Moves(l, j, to, inside) ==
  at' = IF lanes[l].queue = <<>>
        THEN [at EXCEPT ![j] = to]
        ELSE [at EXCEPT ![j] = to, ![Head(lanes[l].queue)] = inside]

\* generationChanged(): an empty lane leaves the map.
GenerationChanged(a, l) ==
  generations' = IF Empty(lanes'[l]) /\ generations[a] = l
                 THEN [generations EXCEPT ![a] = NoLane] ELSE generations

------------------------------------------------------------------------------
\* requireRunning() and throwIfAborted().
Refused(j) == stopped \/ j \in signalled

Refuse(j) ==
  /\ at[j] = "idle" /\ Refused(j)
  /\ at' = [at EXCEPT ![j] = "failed"]
  /\ failed' = failed \cup {j}
  /\ UNCHANGED <<lanes, generations, step, holds, signalled, stopped, drain>>

\* withLifecycle()
AskLifecycle(j) ==
  /\ at[j] = "idle" /\ Plan[j].lifecycle /\ ~Refused(j)
  /\ Join(Lifecycle, j)
  /\ at' = [at EXCEPT ![j] = IF lanes[Lifecycle].active THEN "queued_life" ELSE "life"]
  /\ UNCHANGED <<generations, step, holds, failed, signalled, stopped>>
  /\ Changed

WantsGeneration(j) ==
  \/ at[j] = "idle" /\ ~Plan[j].lifecycle
  \/ at[j] = "life" /\ j \notin failed /\ MoreAccounts(j)

\* Inside the lifecycle lane the refusal makes the whole job fail.
RefuseGeneration(j) ==
  /\ at[j] = "life" /\ WantsGeneration(j) /\ Refused(j)
  /\ failed' = failed \cup {j}
  /\ UNCHANGED <<lanes, generations, at, step, holds, signalled, stopped, drain>>

\* A lane object nobody refers to: a new one.  LaneIds bounds how many there are.
Unused(l) == l \notin {generations[a] : a \in Accounts} \cup {holds[j] : j \in Jobs}
NewLane == CHOOSE l \in LaneIds : Unused(l)

EntersGeneration(j, l) ==
  /\ l \in LaneIds /\ (generations[Account(j)] = l \/ Unused(l))
  /\ generations' = [generations EXCEPT ![Account(j)] = l]
  /\ holds' = [holds EXCEPT ![j] = l]
  /\ Join(l, j)
  /\ at' = [at EXCEPT ![j] = IF lanes[l].active THEN "queued_gen" ELSE "gen"]

\* Defect: two callers that find no lane create one each.
AskGeneration_OwnLane(j) ==
  /\ WantsGeneration(j) /\ ~Refused(j)
  /\ EntersGeneration(j, NewLane)
  /\ UNCHANGED <<step, failed, signalled, stopped>>
  /\ Changed

\* withCredentialGeneration(): the account's lane, or a new one.
AskGeneration(j) ==
  /\ WantsGeneration(j) /\ ~Refused(j)
  /\ EntersGeneration(j, IF generations[Account(j)] = NoLane THEN NewLane
                                                           ELSE generations[Account(j)])
  /\ UNCHANGED <<step, failed, signalled, stopped>>
  /\ Changed

AfterGeneration(j, ok) ==
  IF Plan[j].lifecycle THEN "life" ELSE IF ok THEN "done" ELSE "failed"

\* Defect: work that throws leaves its lane active.
LeaveGeneration_OnlyOnSuccess(j, ok) ==
  /\ at[j] = "gen"
  /\ IF ok THEN HandOn(holds[j]) /\ Moves(holds[j], j, AfterGeneration(j, ok), "gen")
     ELSE UNCHANGED lanes /\ at' = [at EXCEPT ![j] = AfterGeneration(j, ok)]
  /\ GenerationChanged(Account(j), holds[j])
  /\ holds' = [holds EXCEPT ![j] = NoLane]
  /\ step' = [step EXCEPT ![j] = @ + 1]
  /\ failed' = IF ok THEN failed ELSE failed \cup {j}
  /\ UNCHANGED <<signalled, stopped>>
  /\ Changed

\* The work in a generation lane returns or throws.
LeaveGeneration(j, ok) ==
  /\ at[j] = "gen"
  /\ HandOn(holds[j])
  /\ Moves(holds[j], j, AfterGeneration(j, ok), "gen")
  /\ GenerationChanged(Account(j), holds[j])
  /\ holds' = [holds EXCEPT ![j] = NoLane]
  /\ step' = [step EXCEPT ![j] = @ + 1]
  /\ failed' = IF ok THEN failed ELSE failed \cup {j}
  /\ UNCHANGED <<signalled, stopped>>
  /\ Changed

\* The work in the lifecycle lane returns or throws.
LeaveLifecycle(j) ==
  /\ at[j] = "life"
  /\ j \in failed \/ ~MoreAccounts(j)
  /\ HandOn(Lifecycle)
  /\ Moves(Lifecycle, j, IF j \in failed THEN "failed" ELSE "done", "life")
  /\ UNCHANGED <<generations, step, holds, failed, signalled, stopped>>
  /\ Changed

LaneOf(j) == IF at[j] = "queued_life" THEN Lifecycle ELSE holds[j]

\* Defect: the job is told, but its entry stays in the queue.
AbortQueued_LeavesEntry(j) ==
  /\ at[j] \in {"queued_life", "queued_gen"} /\ j \notin signalled
  /\ signalled' = signalled \cup {j}
  /\ failed' = failed \cup {j}
  /\ at' = [at EXCEPT ![j] = IF at[j] = "queued_gen" /\ Plan[j].lifecycle THEN "life" ELSE "failed"]
  /\ UNCHANGED <<lanes, generations, step, holds, stopped, drain>>

\* The signal of a queued job aborts: it leaves the queue and its run() rejects,
\* which makes a job in the lifecycle lane fail there.
AbortQueued(j) ==
  /\ at[j] \in {"queued_life", "queued_gen"} /\ j \notin signalled
  /\ signalled' = signalled \cup {j}
  /\ failed' = failed \cup {j}
  /\ \E i \in 1..Len(lanes[LaneOf(j)].queue) :
       /\ lanes[LaneOf(j)].queue[i] = j
       /\ lanes' = [lanes EXCEPT ![LaneOf(j)] =
                      [active |-> lanes[LaneOf(j)].active,
                       queue |-> RemoveAt(lanes[LaneOf(j)].queue, i)]]
  /\ at' = [at EXCEPT ![j] = IF at[j] = "queued_gen" /\ Plan[j].lifecycle THEN "life" ELSE "failed"]
  /\ holds' = [holds EXCEPT ![j] = NoLane]
  /\ UNCHANGED <<generations, step, stopped>>
  /\ Changed

\* The signal of any other job aborts: the work notices it, or does not.
AbortElsewhere(j) ==
  /\ at[j] \in {"idle", "life", "gen"} /\ j \notin signalled
  /\ signalled' = signalled \cup {j}
  /\ UNCHANGED <<lanes, generations, at, step, holds, failed, stopped, drain>>

\* Defect: close() does not stop the coordinator before it drains.
Close_DrainOnly ==
  /\ drain = "none"
  /\ drain' = IF IsIdle(lanes, generations) THEN "resolved" ELSE "waiting"
  /\ UNCHANGED <<lanes, generations, at, step, holds, failed, signalled, stopped>>

\* close(), or stop() and drain() of a forced close: stop, then wait until idle.
Close ==
  /\ ~stopped
  /\ stopped' = TRUE
  /\ drain' = IF IsIdle(lanes, generations) THEN "resolved" ELSE "waiting"
  /\ UNCHANGED <<lanes, generations, at, step, holds, failed, signalled>>

JobStep(j) ==
  \/ AskGeneration(j) \/ RefuseGeneration(j)
  \/ (\E ok \in BOOLEAN : LeaveGeneration(j, ok))
  \/ LeaveLifecycle(j)

Next ==
  \/ \E j \in Jobs : \/ JobStep(j) \/ Refuse(j) \/ AskLifecycle(j)
                     \/ AbortQueued(j) \/ AbortElsewhere(j)
  \/ Close

\* Work that has been admitted returns: every await in it is a file operation,
\* a refresh under a deadline, or another lane.  Nobody has to call or abort.
Fairness == \A j \in Jobs : WF_vars(at[j] # "idle" /\ JobStep(j))

Spec == Init /\ [][Next]_vars
FairSpec == Spec /\ Fairness

------------------------------------------------------------------------------
(* Safety *)

InLifecycle(j) == Plan[j].lifecycle /\ at[j] \in Inside
InGeneration(j, a) == at[j] = "gen" /\ Account(j) = a

\* One job at a time changes the accounts, and one at a time an account's
\* credential, although lanes are created and dropped all the time.
MutualExclusion ==
  \A j, k \in Jobs :
    j # k => /\ ~(InLifecycle(j) /\ InLifecycle(k))
             /\ \A a \in Accounts : ~(InGeneration(j, a) /\ InGeneration(k, a))

\* The queues hold exactly the jobs that wait in them, and the map exactly the
\* lanes somebody is in: nobody waits in a lane that is never handed on, and no
\* lane is kept for an account that is not being worked on.
LanesMatchJobs ==
  /\ \A l \in AllLanes :
       /\ IsInjective(lanes[l].queue)
       /\ ToSet(lanes[l].queue) =
            {j \in Jobs : at[j] \in {"queued_life", "queued_gen"} /\ LaneOf(j) = l}
  /\ \A a \in Accounts :
       generations[a] # NoLane <=>
         \E j \in Jobs : at[j] \in {"queued_gen", "gen"} /\ Account(j) = a

\* Once close() has returned, no account operation runs or will run: the
\* database may be closed.
DrainedIsQuiet ==
  drain = "resolved" => \A j \in Jobs : at[j] \in {"idle"} \cup Ended

------------------------------------------------------------------------------
(* Each lane implements PermitPool with one permit, the account's one through *)
(* all its lane objects.                                                      *)

\* Who is inside the lifecycle lane, and who in a lane of the account.
LifecycleInside == {j \in Jobs : InLifecycle(j)}
GenerationInside == {j \in Jobs : InGeneration(j, Pooled)}

LifecyclePool == INSTANCE PermitPool
  WITH Users <- Jobs, Permits <- 1, QueueMax <- Cardinality(Jobs),
       granted <- LifecycleInside, queue <- lanes[Lifecycle].queue

\* The queue of the account's lane object, whichever that is.
GenerationQueue ==
  IF generations[Pooled] = NoLane THEN <<>> ELSE lanes[generations[Pooled]].queue

GenerationPool == INSTANCE PermitPool
  WITH Users <- Jobs, Permits <- 1, QueueMax <- Cardinality(Jobs),
       granted <- GenerationInside, queue <- GenerationQueue

\* The lifecycle lane and every account's generation lane, through all its lane
\* objects, admit one job at a time and in the order of asking
\* (account_coordinator.ts:103-170).
LanesAreFair == LifecyclePool!Spec /\ GenerationPool!Spec

------------------------------------------------------------------------------
(* Liveness *)

\* close() returns: no order of leaving the lanes forgets its waiter.
CloseReturns == stopped ~> drain = "resolved"

\* Lanes taken inside the lifecycle lane never make jobs wait for each other.
EveryJobEnds == \A j \in Jobs : at[j] # "idle" ~> at[j] \in Ended

\* Neither an account operation nor the close that drains them waits for ever
\* (account_coordinator.ts:67-84, :134, account_directory.ts:133).
LanesDrain == CloseReturns /\ EveryJobEnds

===============================================================================
