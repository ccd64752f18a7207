---------------------------- MODULE CopilotCaches ----------------------------
(***************************************************************************)
(* What the gateway remembers of one Copilot account: the endpoint that    *)
(* EndpointDiscovery found (copilot/endpoint_discovery.ts), the model      *)
(* catalogue (copilot/model_catalog.ts) and the connection agent of the    *)
(* catalogue's source (copilot/models_source.ts).  Every map of these      *)
(* classes is keyed by account, so one account is modelled.  A catalogue   *)
(* fetch first looks the endpoint up (main.ts), which composes the two.    *)
(*                                                                         *)
(* Each actor makes one call, so a lane, a lookup and a fetch carry the    *)
(* name of the actor that started them.                                    *)
(***************************************************************************)
EXTENDS Naturals, FiniteSets, FiniteSetsExt, TLC

CONSTANTS Binders,        \* requests that bind an account (discover)
          Clients,        \* callers of the model catalogue (get)
          None,           \* absent
          MaxCredential,  \* bound on the credential generations of the account
          MaxEpoch        \* bound on the invalidations of each cache

ASSUME CachesAssumption ==
    /\ Binders \cap Clients = {} /\ None \notin Binders \cup Clients
    /\ MaxCredential \in Nat \ {0} /\ MaxEpoch \in Nat

VARIABLES credential,  \* the account's current credential generation
          epoch,       \* how often the discovered endpoint was invalidated
          lane,        \* lanes.get(accountId): the actor whose lane it is, or None
          lanes,       \* every lane: its generation, endpoint and operation
          joins,       \* the lookup a caller of each generation joins
          lookups,     \* DiscoveryOperation of each actor
          asks,        \* where each actor's call of discover() stands
          shut,        \* EndpointDiscovery.closed
          cache,       \* the cached catalogue, or None
          generation,  \* generations.get(accountId)
          seen,        \* credentialGenerations.get(accountId)
          inflight,    \* inflight.get(accountId)
          fetches,     \* InflightEntry of each client and how far its fetch is
          gets,        \* where each client's call of get() stands
          closed,      \* CopilotModelCatalog.closed
          source       \* the models source: closed, forced, its agent, its creation

discovery == <<lane, lanes, joins, lookups, asks, shut>>
catalogue == <<cache, seen, inflight, fetches, gets, closed>>
vars == <<credential, epoch, discovery, generation, catalogue, source>>

Actors == Binders \cup Clients
Generations == 1 .. MaxCredential

Init ==
    /\ credential = 1 /\ epoch = 0 /\ generation = 0 /\ seen = 0
    /\ lane = None
    /\ lanes = [a \in Actors |-> [gen |-> 1, endpoint |-> None, operation |-> None]]
    /\ joins = [g \in Generations |-> None]
    /\ lookups = [a \in Actors |-> [state |-> "none", gen |-> 1, born |-> 0, waiters |-> {}]]
    /\ asks = [a \in Actors |-> [state |-> "idle", on |-> None, lane |-> None]]
    /\ shut = FALSE
    /\ cache = None /\ inflight = None /\ closed = FALSE
    /\ fetches = [c \in Clients |-> [state |-> "none", gen |-> 1, born |-> 0, waiters |-> {}, aborted |-> FALSE]]
    /\ gets = [c \in Clients |-> [state |-> "idle", on |-> None]]
    /\ source = [closed |-> FALSE, forced |-> FALSE, agent |-> "none", making |-> "no"]

-----------------------------------------------------------------------------
(* Endpoint discovery *)

\* A call that has returned keeps nothing but its outcome.
Ended(state) == [state |-> state, on |-> None, lane |-> None]

\* discover(): a hit, or the lane of this generation and the lookup in flight
\* for it.  A caller older than the current lane works on a lane of its own.
Discover(a, g) ==
    LET hit == lane # None /\ lanes[lane].gen = g /\ lanes[lane].endpoint # None
        fresh == lane = None \/ g > lanes[lane].gen
        mine == IF ~fresh /\ lanes[lane].gen = g THEN lane ELSE a
        starts == joins[g] = None
        on == IF starts THEN a ELSE joins[g]
    IN /\ asks[a].state = "idle" /\ ~shut
       /\ IF hit
          THEN /\ asks' = [asks EXCEPT ![a] = Ended("done")]
               /\ UNCHANGED <<lane, lanes, joins, lookups>>
          ELSE /\ lane' = IF fresh THEN a ELSE lane
               /\ lanes' = [lanes EXCEPT ![mine] =
                     [gen |-> g, endpoint |-> None,
                      operation |-> IF starts THEN a ELSE IF mine = a THEN None ELSE @.operation]]
               /\ joins' = [joins EXCEPT ![g] = on]
               /\ lookups' = IF starts
                             THEN [lookups EXCEPT ![a] = [state |-> "running", gen |-> g, born |-> epoch, waiters |-> {a}]]
                             ELSE [lookups EXCEPT ![on].waiters = @ \cup {a}]
               /\ asks' = [asks EXCEPT ![a] = [state |-> "waiting", on |-> on, lane |-> mine]]
       /\ UNCHANGED shut

\* A request binds an account it resolved earlier: its generation may be old.
Bind(b) ==
    /\ \E g \in 1 .. credential : Discover(b, g)
    /\ UNCHANGED <<credential, epoch, generation, catalogue, source>>

\* startOperation(): the finally block of a lookup, and its waiters resume.
LookupEnds(o, state) ==
    /\ lookups' = [lookups EXCEPT ![o] = [state |-> "settled", gen |-> 1, born |-> 0, waiters |-> {}]]
    /\ joins' = [g \in Generations |-> IF joins[g] = o THEN None ELSE joins[g]]
    /\ asks' = [a \in Actors |-> IF a \in lookups[o].waiters THEN Ended(state) ELSE asks[a]]
    /\ UNCHANGED <<lane, shut, credential, epoch, generation, catalogue, source>>

Released(o) == [l \in Actors |-> IF lanes[l].operation = o THEN [lanes[l] EXCEPT !.operation = None] ELSE lanes[l]]

\* Defect: the lane is compared by its generation, not by its identity and operation.
StoresLookup_AnyLane(o) ==
    lane # None /\ lanes[lane].gen = lookups[o].gen

\* fetchDiscovery answers (an endpoint, or null and so the fallback): it is kept
\* only if the lookup's lane is still the account's and still waits for it.
StoresLookup(o) ==
    lane # None /\ lanes[lane].operation = o

LookupAnswers(o) ==
    /\ lookups[o].state = "running"
    /\ lanes' = IF StoresLookup(o)
                THEN [Released(o) EXCEPT ![lane].endpoint = [gen |-> lookups[o].gen, born |-> lookups[o].born]]
                ELSE Released(o)
    /\ LookupEnds(o, "done")

\* The fetch fails, or notices its abort: an aborted answer is never kept.
LookupFails(o) ==
    /\ lookups[o].state \in {"running", "aborted"}
    /\ lanes' = Released(o)
    /\ LookupEnds(o, "failed")

\* Defect: whoever leaves first takes the lookup with it.
Orphans_Any(a) ==
    a \in lookups[asks[a].on].waiters

\* waitForOperation(): a caller is aborted; the last one to leave a lookup that
\* has not settled takes it out of the join table, drops its lane and aborts it.
Orphans(a) == lookups[asks[a].on].waiters = {a}

GiveUp(a) ==
    LET o == asks[a].on
        orphan == Orphans(a)
    IN /\ asks[a].state = "waiting"
       /\ asks' = [asks EXCEPT ![a] = Ended("gave_up")]
       /\ lookups' = [lookups EXCEPT ![o].waiters = @ \ {a},
                                     ![o].state = IF orphan THEN "aborted" ELSE @]
       /\ joins' = IF orphan THEN [g \in Generations |-> IF joins[g] = o THEN None ELSE joins[g]] ELSE joins
       /\ lane' = IF orphan /\ lane = asks[a].lane THEN None ELSE lane
       /\ lanes' = IF orphan /\ lanes[asks[a].lane].operation = o
                   THEN [lanes EXCEPT ![asks[a].lane].operation = None] ELSE lanes
       /\ UNCHANGED <<shut, credential, epoch, generation, catalogue, source>>

BinderGivesUp(b) == GiveUp(b)

\* invalidate() of both caches (main.ts accountCaches), and of the catalogue
\* alone when the models are refreshed.
Invalidate ==
    /\ epoch < MaxEpoch /\ generation < MaxEpoch
    /\ epoch' = epoch + 1 /\ lane' = None /\ joins' = [g \in Generations |-> None]
    /\ cache' = None /\ generation' = generation + 1
    /\ UNCHANGED <<credential, lanes, lookups, asks, shut, seen, inflight, fetches, gets, closed, source>>

InvalidateCatalogue ==
    /\ generation < MaxEpoch
    /\ cache' = None /\ generation' = generation + 1
    /\ UNCHANGED <<credential, epoch, discovery, seen, inflight, fetches, gets, closed, source>>

\* The account signs in again: its next bindings carry a new generation.
NewCredential ==
    /\ credential < MaxCredential /\ credential' = credential + 1
    /\ UNCHANGED <<epoch, discovery, generation, catalogue, source>>

-----------------------------------------------------------------------------
(* The model catalogue *)

\* get(): a hit, the fetch in flight of the same generations, or a new fetch.
Joins(g) ==
    /\ inflight # None
    /\ ~fetches[inflight].aborted /\ fetches[inflight].born = generation /\ fetches[inflight].gen = g

Get(c) ==
    \E g \in 1 .. credential :
      /\ gets[c].state = "idle" /\ ~closed
      /\ seen' = Max({seen, g})
      /\ LET on == IF Joins(g) THEN inflight ELSE c
         IN IF cache # None /\ cache.gen = g
            THEN gets' = [gets EXCEPT ![c].state = "done"] /\ UNCHANGED <<inflight, fetches>>
            ELSE /\ inflight' = on
                 /\ fetches' = IF on = c
                       THEN [fetches EXCEPT ![c] = [state |-> "resolving", gen |-> g, born |-> generation,
                                                    waiters |-> {c}, aborted |-> FALSE]]
                       ELSE [fetches EXCEPT ![on].waiters = @ \cup {c}]
                 /\ gets' = [gets EXCEPT ![c] = [state |-> "waiting", on |-> on]]
      /\ UNCHANGED <<credential, epoch, generation, discovery, cache, closed, source>>

\* The source resolves the account first (main.ts): a stale generation fails,
\* otherwise the endpoint is discovered under the fetch's own abort signal.
Resolve(f) ==
    /\ fetches[f].state = "resolving" /\ fetches[f].gen = credential /\ ~fetches[f].aborted
    /\ ~source.closed
    /\ Discover(f, fetches[f].gen)
    /\ fetches' = [fetches EXCEPT ![f].state = "discovering"]
    /\ UNCHANGED <<credential, epoch, generation, cache, seen, inflight, gets, closed, source>>

FetchGivesUpDiscovery(f) == fetches[f].aborted /\ GiveUp(f)

\* sharedDispatcher(): the agent is shared and created once.
Connect(f) ==
    /\ fetches[f].state = "discovering" /\ asks[f].state = "done" /\ ~source.closed
    /\ fetches' = [fetches EXCEPT ![f].state = IF source.agent = "open" THEN "requesting" ELSE "connecting"]
    /\ source' = [source EXCEPT !.making = IF source.agent = "none" THEN "pending" ELSE @]
    /\ UNCHANGED <<credential, epoch, discovery, generation, cache, seen, inflight, gets, closed>>

Connected(f) ==
    /\ fetches[f].state = "connecting" /\ source.agent = "open"
    /\ fetches' = [fetches EXCEPT ![f].state = "requesting"]
    /\ UNCHANGED <<credential, epoch, discovery, generation, cache, seen, inflight, gets, closed, source>>

\* promise.finally() of a fetch, and its waiters resume.
FetchEnds(f, state) ==
    /\ fetches' = [fetches EXCEPT ![f] = [state |-> "settled", gen |-> 1, born |-> 0, waiters |-> {}, aborted |-> FALSE]]
    /\ inflight' = IF inflight = f THEN None ELSE inflight
    /\ gets' = [c \in Clients |-> IF c \in fetches[f].waiters THEN [state |-> state, on |-> None] ELSE gets[c]]
    /\ UNCHANGED <<credential, epoch, discovery, generation, seen, closed, source>>

\* fetchCatalog(): the catalogue is kept only if neither generation moved on.
StoresFetch(f) == generation = fetches[f].born /\ seen = fetches[f].gen

FetchSucceeds(f) ==
    /\ fetches[f].state = "requesting" /\ ~closed
    /\ cache' = IF StoresFetch(f) THEN [gen |-> fetches[f].gen, born |-> fetches[f].born] ELSE cache
    /\ FetchEnds(f, "done")

\* A stale account, a failed sign-in, lookup, agent, request, limit or time-out,
\* a response that is not a catalogue, an abort, or a closed catalogue.
FetchFails(f) ==
    /\ \/ fetches[f].state \in {"resolving", "connecting", "refused", "requesting"}
       \/ fetches[f].state = "discovering" /\ asks[f].state # "waiting"
    /\ UNCHANGED cache
    /\ FetchEnds(f, "failed")

\* waitForInflight(): the last waiter of an unsettled fetch takes it off the
\* table and aborts it.
ClientGivesUp(c) ==
    LET f == gets[c].on
        orphan == fetches[f].waiters = {c}
    IN /\ gets[c].state = "waiting"
       /\ gets' = [gets EXCEPT ![c] = [state |-> "gave_up", on |-> None]]
       /\ fetches' = [fetches EXCEPT ![f].waiters = @ \ {c}, ![f].aborted = @ \/ orphan]
       /\ inflight' = IF orphan /\ inflight = f THEN None ELSE inflight
       /\ UNCHANGED <<credential, epoch, discovery, generation, cache, seen, closed, source>>

-----------------------------------------------------------------------------
(* The source's agent, and shutdown *)

\* startDispatcher(): what becomes of the agent depends on who closed meanwhile.
AgentMade ==
    /\ source.making # "no"
    /\ source' = [source EXCEPT !.making = "no",
                                !.agent = CASE source.making = "pending" -> "open"
                                            [] source.making = "closing" -> "closing"
                                            [] source.making = "forced" -> "destroyed"]
    /\ UNCHANGED <<credential, epoch, discovery, generation, catalogue>>

AgentFails ==
    /\ source.making # "no" /\ source' = [source EXCEPT !.making = "no"]
    /\ fetches' = [f \in Clients |-> IF fetches[f].state = "connecting" THEN [fetches[f] EXCEPT !.state = "refused"] ELSE fetches[f]]
    /\ UNCHANGED <<credential, epoch, discovery, generation, cache, seen, inflight, gets, closed>>

AgentClosed ==
    /\ source.agent = "closing" /\ source' = [source EXCEPT !.agent = "closed"]
    /\ UNCHANGED <<credential, epoch, discovery, generation, catalogue>>

\* close() of the source waits for an agent being created; forceClose()
\* destroys the one there is, the one being closed and the one being created.
SourceClosed ==
    [source EXCEPT !.closed = TRUE,
                   !.agent = IF @ = "open" THEN "closing" ELSE @,
                   !.making = IF @ = "pending" THEN "closing" ELSE @]

SourceForced ==
    [closed |-> TRUE, forced |-> TRUE,
     agent |-> IF source.agent \in {"open", "closing"} THEN "destroyed" ELSE source.agent,
     making |-> IF source.making = "no" THEN "no" ELSE "forced"]

\* close() of the catalogue, and then of its source.
CloseCatalogue ==
    /\ ~closed /\ closed' = TRUE
    /\ cache' = None /\ generation' = IF cache # None \/ generation > 0 THEN generation + 1 ELSE 0
    /\ inflight' = None
    /\ fetches' = [f \in Clients |-> [fetches[f] EXCEPT !.aborted = @ \/ fetches[f].state \notin {"none", "settled"}]]
    /\ source' = SourceClosed
    /\ UNCHANGED <<credential, epoch, discovery, seen, gets>>

\* close() and forceClose() of the discovery.
ShutDiscovery ==
    /\ shut' = TRUE /\ lane' = None /\ joins' = [g \in Generations |-> None]
    /\ lookups' = [o \in Actors |-> IF lookups[o].state = "running" THEN [lookups[o] EXCEPT !.state = "aborted"] ELSE lookups[o]]
    /\ UNCHANGED <<lanes, asks>>

CloseDiscovery ==
    /\ ~shut /\ closed /\ source.making = "no" /\ source.agent # "closing"
    /\ ShutDiscovery
    /\ UNCHANGED <<credential, epoch, generation, catalogue, source>>

\* The shutdown deadline passed: both are forced at once.
ForceClose ==
    /\ ~source.forced
    /\ source' = SourceForced
    /\ ShutDiscovery
    /\ UNCHANGED <<credential, epoch, generation, catalogue>>

Next ==
    \/ \E b \in Binders : Bind(b) \/ BinderGivesUp(b)
    \/ \E o \in Actors : LookupAnswers(o) \/ LookupFails(o)
    \/ \E c \in Clients : Get(c) \/ ClientGivesUp(c)
    \/ \E f \in Clients : Resolve(f) \/ FetchGivesUpDiscovery(f) \/ Connect(f) \/ Connected(f)
                            \/ FetchSucceeds(f) \/ FetchFails(f)
    \/ Invalidate \/ InvalidateCatalogue \/ NewCredential
    \/ AgentMade \/ AgentFails \/ AgentClosed
    \/ CloseCatalogue \/ CloseDiscovery \/ ForceClose

Spec == Init /\ [][Next]_vars

-----------------------------------------------------------------------------
(* Properties *)

\* What either cache holds was asked for after the last invalidation, with the
\* generation its lane or its entry names: a late answer to an older question
\* (endpoint_discovery.ts:132, model_catalog.ts:151) never gets in.
CachedIsCurrent ==
    /\ lane # None /\ lanes[lane].endpoint # None
       => lanes[lane].endpoint = [gen |-> lanes[lane].gen, born |-> epoch]
    /\ cache # None => cache.born = generation /\ cache.gen <= seen

\* A shared lookup or fetch is aborted exactly when nobody waits for it: a
\* caller that leaves (endpoint_discovery.ts:188, model_catalog.ts:123) never
\* fails those who stay or who join later, and no fetch runs for nobody.
AbortedForNobody ==
    /\ ~shut => \A o \in Actors : /\ lookups[o].state = "aborted" => lookups[o].waiters = {}
                                  /\ lookups[o].state = "running" => lookups[o].waiters # {}
    /\ ~closed => \A f \in Clients : fetches[f].state \notin {"none", "settled"}
                                       => (fetches[f].aborted <=> fetches[f].waiters = {})

\* Callers of one credential generation share one lookup between two
\* invalidations: no two of them run at once (endpoint_discovery.ts:60).
SingleFlight ==
    \A o, p \in Actors :
      /\ lookups[o].state = "running" /\ lookups[p].state = "running"
      /\ lookups[o].gen = lookups[p].gen /\ lookups[o].born = lookups[p].born
      => o = p

\* However creation, close() and forceClose() of the source interleave, a
\* forced source has no agent left open (models_source.ts:146) and a closed
\* one hands none out.
NoAgentSurvives ==
    /\ source.forced /\ source.making = "no" => source.agent \notin {"open", "closing"}
    /\ source.closed => source.agent # "open"

\* Shared lookups, fetches and agents live as long as somebody needs them and no
\* longer (endpoint_discovery.ts:60, :188, model_catalog.ts:123, models_source.ts:146).
SharedWorkIsReleased == AbortedForNobody /\ SingleFlight /\ NoAgentSurvives

\* Clients are interchangeable, and so are binders: TLC checks one ordering of each.
Symmetry == Permutations(Clients) \cup Permutations(Binders)

=============================================================================
