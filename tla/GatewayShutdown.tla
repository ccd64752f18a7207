-------------------------- MODULE GatewayShutdown --------------------------
(***************************************************************************)
(* Gateway.close() of gateway/create_gateway.ts over the resources that    *)
(* main.ts puts together: the graceful close goes through them one after   *)
(* the other, ten seconds later a timer forces them, and the graceful one  *)
(* is not stopped by that.  What each resource does when it closes is the  *)
(* business of DeviceFlow, CopilotTransport, CopilotCaches,                *)
(* AccountCoordinator and Telemetry.                                       *)
(***************************************************************************)
EXTENDS FiniteSets

CONSTANTS Calls,        \* requests that may arrive
          Mutations     \* account operations: refreshes, sign-ins, removals

\* What ApplicationContext.close() and its wrappers close, in order.
Resources == {"flows", "copilot", "registry", "discovery", "coordinator", "telemetry"}
Following ==
    [listener |-> "requests", requests |-> "flows", flows |-> "copilot", copilot |-> "registry",
     registry |-> "discovery", discovery |-> "coordinator", coordinator |-> "telemetry",
     telemetry |-> "database", database |-> "end"]

VARIABLES
    shutdown,     \* Gateway.close(): "none", "closing", or its result
    graceful,     \* the step the graceful close is at
    closeFailed,  \* closeError, or an error of a resource
    awaited,      \* requestCleanup: the requests in flight when close() was called
    calls,        \* the requests: "idle", "served", "aborted" or "over"
    resource,     \* each resource: "open", "closing", "closed" or "forced"
    mutations,    \* the account operations in the coordinator's lanes
    database,     \* "open" or "closed"
    draining      \* forceClose() left drain().then(closeDatabaseOnce) behind

shutdownVars == <<shutdown, graceful, closeFailed, awaited, calls, resource, mutations, database, draining>>

ShutdownInit ==
    /\ shutdown = "none" /\ graceful = "none" /\ closeFailed = FALSE /\ awaited = {}
    /\ calls = [q \in Calls |-> "idle"]
    /\ resource = [r \in Resources |-> "open"]
    /\ mutations = [m \in Mutations |-> "idle"]
    /\ database = "open" /\ draining = FALSE

Idle == \A m \in Mutations : mutations[m] # "running"

\* A request that arrives after close() was called is answered 503.
ServeCall(q) ==
    /\ shutdown = "none" /\ calls[q] = "idle"
    /\ calls' = [calls EXCEPT ![q] = "served"]
    /\ UNCHANGED <<shutdown, graceful, closeFailed, awaited, resource, mutations, database, draining>>

\* Its delivery and its cleanup are over; an aborted one may take long.
CallEnds(q) ==
    /\ calls[q] \in {"served", "aborted"}
    /\ calls' = [calls EXCEPT ![q] = "over"]
    /\ UNCHANGED <<shutdown, graceful, closeFailed, awaited, resource, mutations, database, draining>>

\* The coordinator refuses work once it is stopped.
Mutate(m) ==
    /\ mutations[m] = "idle" /\ resource["coordinator"] = "open"
    /\ mutations' = [mutations EXCEPT ![m] = "running"]
    /\ UNCHANGED <<shutdown, graceful, closeFailed, awaited, calls, resource, database, draining>>

MutationEnds(m) ==
    /\ mutations[m] = "running"
    /\ mutations' = [mutations EXCEPT ![m] = "over"]
    /\ UNCHANGED <<shutdown, graceful, closeFailed, awaited, calls, resource, database, draining>>

\* close() a first time: requests are aborted and the timer is armed.  The control
\* and admin modules may throw.
BeginClose ==
    /\ shutdown = "none" /\ shutdown' = "closing"
    /\ graceful' = "listener"
    /\ closeFailed' \in BOOLEAN
    /\ awaited' = {q \in Calls : calls[q] = "served"}
    /\ calls' = [q \in Calls |-> IF q \in awaited' THEN "aborted" ELSE calls[q]]
    /\ UNCHANGED <<resource, mutations, database, draining>>

\* The listener's callback comes when the last connection has ended, by itself or
\* through closeAllConnections(); an error is kept.
ListenerCloses ==
    /\ graceful = "listener"
    /\ shutdown \in {"forced", "failed"} \/ \A q \in Calls : calls[q] # "aborted"
    /\ graceful' = Following[graceful]
    /\ closeFailed' \in {closeFailed, TRUE}
    /\ UNCHANGED <<shutdown, awaited, calls, resource, mutations, database, draining>>

RequestsSettle ==
    /\ graceful = "requests" /\ \A q \in awaited : calls[q] = "over"
    /\ graceful' = Following[graceful]
    /\ UNCHANGED <<shutdown, closeFailed, awaited, calls, resource, mutations, database, draining>>

\* close() of the next resource is called; a forced one stays forced.
CloseResource(r) ==
    /\ graceful = r /\ resource[r] = "open"
    /\ resource' = [resource EXCEPT ![r] = "closing"]
    /\ UNCHANGED <<shutdown, graceful, closeFailed, awaited, calls, mutations, database, draining>>

\* Whose close() may reject: the flows' and the coordinator's only wait.
MayFail == {"copilot", "registry", "discovery", "telemetry"}

\* It returns: the coordinator's when its lanes have drained, the others' in their
\* own time.  An error is kept, and the next resource closed all the same.
ResourceCloses(r) ==
    /\ graceful = r /\ resource[r] # "open"
    /\ r = "coordinator" => Idle
    /\ resource' = [resource EXCEPT ![r] = IF @ = "closing" THEN "closed" ELSE @]
    /\ closeFailed' \in IF r \in MayFail THEN {closeFailed, TRUE} ELSE {closeFailed}
    /\ graceful' = Following[r]
    /\ UNCHANGED <<shutdown, awaited, calls, mutations, database, draining>>

CloseDatabaseOnce ==
    /\ graceful = "database"
    /\ database' = "closed" /\ graceful' = "end"
    /\ UNCHANGED <<shutdown, closeFailed, awaited, calls, resource, mutations, draining>>

\* forceCleanup(): the application's forceClose() runs through at once; only the
\* database waits for the account operations that still run.
ForceCleanup ==
    /\ resource' = [r \in Resources |-> "forced"]
    /\ database' = IF Idle THEN "closed" ELSE database
    /\ draining' = (draining \/ ~Idle)

\* Defect: the database is closed with the rest.
ForceCleanup_ClosesDatabase ==
    /\ resource' = [r \in Resources |-> "forced"]
    /\ database' = "closed"
    /\ UNCHANGED draining

ForceApplication == ForceCleanup

ShutdownTimeout ==
    /\ shutdown = "closing" /\ shutdown' = "forced"
    /\ ForceApplication
    /\ UNCHANGED <<graceful, closeFailed, awaited, calls, mutations>>

\* The graceful close won the race: an error forces what is left and is thrown.
GracefulReturns ==
    /\ shutdown = "closing" /\ graceful = "end"
    /\ IF closeFailed
       THEN shutdown' = "failed" /\ ForceApplication
       ELSE shutdown' = "clean" /\ UNCHANGED <<resource, database, draining>>
    /\ UNCHANGED <<graceful, closeFailed, awaited, calls, mutations>>

DrainedCloses ==
    /\ draining /\ Idle
    /\ database' = "closed" /\ draining' = FALSE
    /\ UNCHANGED <<shutdown, graceful, closeFailed, awaited, calls, resource, mutations>>

ShutdownNext ==
    \/ \E q \in Calls : ServeCall(q) \/ CallEnds(q)
    \/ \E m \in Mutations : Mutate(m) \/ MutationEnds(m)
    \/ BeginClose \/ ListenerCloses \/ RequestsSettle \/ CloseDatabaseOnce
    \/ \E r \in Resources : CloseResource(r) \/ ResourceCloses(r)
    \/ ShutdownTimeout \/ GracefulReturns \/ DrainedCloses

ShutdownSpec == ShutdownInit /\ [][ShutdownNext]_shutdownVars

\* The timer fires and account operations end; requests, the listener and the
\* resources' own close() may hang.
ShutdownFairness ==
    /\ WF_shutdownVars(ShutdownTimeout)
    /\ WF_shutdownVars(\E m \in Mutations : MutationEnds(m)) /\ WF_shutdownVars(DrainedCloses)

-----------------------------------------------------------------------------
\* No account operation finds its database closed under it, although the timer
\* forces the resources while the graceful close is anywhere among them
\* (create_gateway.ts:281, main.ts:304-308).
OperationsKeepTheirDatabase == database = "closed" => Idle

\* A close() that returns without an error has left nothing: no request, no
\* operation, no resource open (create_gateway.ts:246-292).
CleanLeavesNothing ==
    shutdown = "clean" =>
        /\ \A q \in Calls : calls[q] # "aborted"
        /\ \A r \in Resources : resource[r] = "closed"
        /\ Idle /\ database = "closed"

\* The close is safe wherever the timer strikes, and complete if it does not.
CloseIsSafe == OperationsKeepTheirDatabase /\ CleanLeavesNothing

\* close() returns whatever hangs, and in the end the database is closed.
ShutdownEnds == /\ shutdown = "closing" ~> shutdown # "closing"
                /\ shutdown = "closing" ~> database = "closed"
=============================================================================
