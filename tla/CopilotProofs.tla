----------------------------- MODULE CopilotProofs -----------------------------
(***************************************************************************)
(* Proofs about what talks to GitHub Copilot for a request: the exchange   *)
(* with the upstream (CopilotTransport) and the caches of the account's    *)
(* endpoint and models (CopilotCaches), for all requests, origins,         *)
(* callers, generations and numbers of redirects and invalidations.        *)
(***************************************************************************)
EXTENDS CopilotTransport, CopilotCaches, TLAPS

------------------------------------------------------------------------------
(* The exchange: what its place says of a request. *)

ExchangeSteps == {"idle", "bound", "acquiring", "sent", "streaming", "error_body",
                  "redirecting", "ended"}
Unanswered == {"idle", "bound", "acquiring", "sent"}
Credentials == {"authorization", "client"}
Sent == Origins \X SUBSET Credentials
Hop == [count : Nat, origin : Origins, sent : SUBSET Sent]

TransportTypeOK ==
  /\ step \in [Requests -> ExchangeSteps]
  /\ hop \in [Requests -> Hop]
  /\ headers \in [Requests -> SUBSET Credentials]
  /\ slot \in [Requests -> BOOLEAN]
  /\ leased \in [Requests -> {"none", "open", "cancelling", "released"}]
  /\ upstream \in [Requests -> BOOLEAN]
  /\ backend \in {"open", "closing", "closed"}

Owned(r) == leased[r] \in {"open", "cancelling"}

\* A request that has no response owns none, and one that is over owns none any
\* more; its slot and its body are those of the send or of the lease.
Owns(r) ==
  /\ slot[r] <=> step[r] = "sent" \/ Owned(r)
  /\ upstream[r] => Owned(r)
  /\ step[r] \in Unanswered => leased[r] = "none"
  /\ step[r] = "ended" => ~Owned(r)
  /\ backend # "open" => leased[r] # "open"
  /\ backend = "closed" => ~Owned(r)

\* A request that carries the token or the client's headers is at home, and so is
\* everything it carried before.
Carries(r) ==
  /\ step[r] \in {"idle", "bound"} => hop[r].origin = Home
  /\ headers[r] # {} => hop[r].origin = Home
  /\ \A s \in hop[r].sent : s[1] # Home => s[2] = {}

TransportInv ==
  TransportTypeOK /\ \A r \in Requests : Owns(r) /\ Carries(r)

LEMMA TransportInitInv == TransportInit => TransportInv
BY TransportAssumption DEF TransportInit, TransportInv, TransportTypeOK, ExchangeSteps, Hop, Sent,
   Credentials, Owns, Owned, Carries, Unanswered

\* Nobody's exchange but the request's own changes.
OnlyRequest(r) ==
  \A q \in Requests : q # r =>
    /\ step'[q] = step[q] /\ hop'[q] = hop[q] /\ headers'[q] = headers[q]
    /\ slot'[q] = slot[q] /\ leased'[q] = leased[q] /\ upstream'[q] = upstream[q]

LEMMA OneExchange ==
  ASSUME TransportInv, NEW r \in Requests, OnlyRequest(r), UNCHANGED backend,
         TransportTypeOK', Owns(r)', Carries(r)'
  PROVE  TransportInv'
<1>1. ASSUME NEW q \in Requests, q # r PROVE Owns(q)' /\ Carries(q)'
  BY <1>1 DEF TransportInv, OnlyRequest, Owns, Owned, Carries
<1> QED BY <1>1 DEF TransportInv

LEMMA ExchangeStep ==
  ASSUME TransportInv, NEW r \in Requests,
         \/ BindTarget(r) \/ StartExchange(r) \/ RefusedWhenClosed(r) \/ SendRequest(r)
         \/ NoResponse(r) \/ HeadersArrive(r) \/ BodyEnds(r) \/ CancelLease(r)
         \/ LeaseCancelled(r) \/ FollowRedirect(r) \/ CallEnds(r)
  PROVE  TransportInv'
<1> USE DEF Steps, TransportTypeOK, OnlyRequest
<1> DEFINE Kept == TransportTypeOK' /\ OnlyRequest(r) /\ Owns(r)' /\ Carries(r)' /\ UNCHANGED backend
<1> SUFFICES Kept
  BY OneExchange
<1>0. TransportTypeOK /\ Owns(r) /\ Carries(r) /\ hop[r] \in Hop
  BY DEF TransportInv
<1>1. CASE BindTarget(r)
  BY <1>0, <1>1 DEF BindTarget, ExchangeSteps, Credentials, Owns, Owned, Unanswered, Carries
<1>2. CASE StartExchange(r)
  BY <1>0, <1>2 DEF StartExchange, ExchangeSteps, Credentials, Owns, Owned, Unanswered, Carries
<1>3. CASE RefusedWhenClosed(r)
  BY <1>0, <1>3 DEF RefusedWhenClosed, ExchangeSteps, Credentials, Owns, Owned, Unanswered, Carries
<1>4. CASE SendRequest(r)
  <2>1. hop'[r] = [hop[r] EXCEPT !.sent = @ \cup {<<hop[r].origin, headers[r]>>}]
    BY <1>0, <1>4 DEF SendRequest
  <2>2. /\ hop'[r] \in Hop /\ hop'[r].origin = hop[r].origin
        /\ hop'[r].sent = hop[r].sent \cup {<<hop[r].origin, headers[r]>>}
    BY <2>1, <1>0 DEF Hop, Sent
  <2>3. hop' \in [Requests -> Hop]
    BY <2>2, <1>0, <1>4 DEF SendRequest
  <2>4. TransportTypeOK' /\ OnlyRequest(r) /\ Owns(r)' /\ UNCHANGED backend
    BY <2>3, <1>0, <1>4 DEF SendRequest, ExchangeSteps, Owns, Owned, Unanswered
  <2>5. Carries(r)'
    BY <2>2, <1>0, <1>4 DEF SendRequest, Carries
  <2> QED BY <2>4, <2>5
<1>5. CASE NoResponse(r)
  BY <1>0, <1>5 DEF NoResponse, ExchangeSteps, Credentials, Owns, Owned, Unanswered, Carries
<1>6. CASE BodyEnds(r)
  BY <1>0, <1>6 DEF BodyEnds, ExchangeSteps, Credentials, Owns, Owned, Unanswered, Carries
<1>7. CASE CancelLease(r)
  BY <1>0, <1>7 DEF CancelLease, ExchangeSteps, Credentials, Owns, Owned, Unanswered, Carries
<1>8. CASE LeaseCancelled(r)
  BY <1>0, <1>8 DEF LeaseCancelled, ExchangeSteps, Credentials, Owns, Owned, Unanswered, Carries
<1>9. CASE CallEnds(r)
  BY <1>0, <1>9 DEF CallEnds, ExchangeSteps, Credentials, Owns, Owned, Unanswered, Carries
<1>10. CASE HeadersArrive(r)
  <2>1. PICK next \in {"streaming", "error_body", "redirecting"} : Leases(r, next)
    BY <1>10 DEF HeadersArrive
  <2>2. step[r] = "sent" /\ UNCHANGED <<hop, headers, backend>>
    BY <1>10 DEF HeadersArrive
  <2>3. leased[r] = "none" /\ ~upstream[r]
    BY <1>0, <2>2 DEF Owns, Owned, Unanswered
  <2>4. CASE backend # "open"
    <3>1. /\ step' = [step EXCEPT ![r] = "ended"] /\ leased' = [leased EXCEPT ![r] = "released"]
          /\ slot' = [slot EXCEPT ![r] = FALSE] /\ UNCHANGED upstream
      BY <2>1, <2>4 DEF Leases
    <3>2. TransportTypeOK' /\ OnlyRequest(r)
      BY <3>1, <2>2, <1>0 DEF ExchangeSteps
    <3>3. Owns(r)'
      BY <3>1, <2>2, <2>3, <1>0 DEF Owns, Owned, Unanswered
    <3>4. Carries(r)'
      BY <3>1, <2>2, <1>0 DEF Carries
    <3> QED BY <2>2, <3>2, <3>3, <3>4
  <2>5. CASE backend = "open"
    <3>1. /\ step' = [step EXCEPT ![r] = next] /\ leased' = [leased EXCEPT ![r] = "open"]
          /\ slot' = slot /\ upstream' = [upstream EXCEPT ![r] = TRUE]
      BY <2>1, <2>5 DEF Leases
    <3>2. TransportTypeOK' /\ OnlyRequest(r)
      BY <3>1, <2>2, <1>0 DEF ExchangeSteps
    <3>3. Owns(r)'
      BY <3>1, <2>2, <2>3, <2>5, <1>0 DEF Owns, Owned, Unanswered
    <3>4. Carries(r)'
      BY <3>1, <2>2, <1>0 DEF Carries
    <3> QED BY <2>2, <3>2, <3>3, <3>4
  <2> QED BY <2>4, <2>5
<1>11. CASE FollowRedirect(r)
  <2>1. PICK o \in Origins :
          /\ hop' = [hop EXCEPT ![r].count = @ + 1, ![r].origin = o]
          /\ headers' = [headers EXCEPT ![r] = RedirectHeaders(r, o)]
    BY <1>11 DEF FollowRedirect
  <2>2. hop'[r] = [hop[r] EXCEPT !.count = @ + 1, !.origin = o]
    BY <2>1, <1>0
  <2>3. hop'[r] \in Hop /\ hop'[r].origin = o /\ hop'[r].sent = hop[r].sent
    <3>1. hop[r].count \in Nat /\ hop[r].count + 1 \in Nat
      BY <1>0 DEF Hop
    <3>2. hop'[r] = [count |-> hop[r].count + 1, origin |-> o, sent |-> hop[r].sent]
      BY <2>2, <1>0 DEF Hop
    <3> HIDE DEF TransportTypeOK, OnlyRequest
    <3> QED BY <3>1, <3>2, <1>0 DEF Hop
  <2>4. hop' \in [Requests -> Hop] /\ headers'[r] = RedirectHeaders(r, o)
    BY <2>1, <2>3, <1>0
  <2>5. headers'[r] \in SUBSET Credentials /\ (headers'[r] # {} => o = hop[r].origin /\ headers[r] # {})
    BY <2>4, <1>0 DEF RedirectHeaders, Credentials
  <2>6. TransportTypeOK' /\ OnlyRequest(r) /\ Owns(r)' /\ UNCHANGED backend
    BY <2>1, <2>4, <2>5, <1>0, <1>11 DEF FollowRedirect, ExchangeSteps, Owns, Owned, Unanswered
  <2>7. Carries(r)'
    BY <2>3, <2>5, <1>0, <1>11 DEF FollowRedirect, Carries
  <2> QED BY <2>6, <2>7
<1> QED BY <1>1, <1>2, <1>3, <1>4, <1>5, <1>6, <1>7, <1>8, <1>9, <1>10, <1>11

LEMMA BackendStep ==
  ASSUME TransportInv, CloseBackend \/ ClosePools \/ ForceCloseBackend
  PROVE  TransportInv'
<1>0. TransportTypeOK /\ \A r \in Requests : Owns(r) /\ Carries(r)
  BY DEF TransportInv
<1>1. TransportTypeOK'
  <2>1. CASE CloseBackend \/ ClosePools
    BY <1>0, <2>1 DEF TransportTypeOK, CloseBackend, ClosePools
  <2>2. CASE ForceCloseBackend
    <3>1. \A r \in Requests : (slot[r] /\ leased[r] \notin {"open", "cancelling"}) \in BOOLEAN
      OBVIOUS
    <3>2. slot' \in [Requests -> BOOLEAN]
      BY <3>1, <2>2 DEF ForceCloseBackend
    <3> QED BY <1>0, <2>2, <3>2 DEF TransportTypeOK, ForceCloseBackend
  <2> QED BY <2>1, <2>2
<1>2. ASSUME NEW r \in Requests PROVE Owns(r)'
  <2>1. CASE CloseBackend
    BY <1>0, <2>1 DEF TransportTypeOK, CloseBackend, Owns, Owned, Unanswered
  <2>2. CASE ClosePools
    BY <1>0, <2>2 DEF TransportTypeOK, ClosePools, Owns, Owned, Unanswered
  <2>3. CASE ForceCloseBackend
    <3>1. leased'[r] = IF Owned(r) THEN "released" ELSE leased[r]
      BY <2>3 DEF ForceCloseBackend, Owned
    <3>2. slot'[r] = (slot[r] /\ ~Owned(r)) /\ upstream'[r] = FALSE
      BY <2>3 DEF ForceCloseBackend, Owned
    <3>3. slot'[r] <=> step'[r] = "sent" \/ Owned(r)'
      <4>1. step[r] = "sent" => ~Owned(r)
        BY <1>0 DEF Owns, Owned, Unanswered
      <4>2. ~Owned(r)' /\ step'[r] = step[r]
        BY <2>3, <3>1 DEF ForceCloseBackend, Owned
      <4>3. slot[r] <=> step[r] = "sent" \/ Owned(r)
        BY <1>0 DEF Owns
      <4> QED BY <3>2, <4>1, <4>2, <4>3
    <3> QED BY <1>0, <2>3, <3>1, <3>2, <3>3 DEF ForceCloseBackend, Owns, Owned, Unanswered
  <2> QED BY <2>1, <2>2, <2>3
<1>3. ASSUME NEW r \in Requests PROVE Carries(r)'
  BY <1>0 DEF CloseBackend, ClosePools, ForceCloseBackend, Carries
<1> QED BY <1>1, <1>2, <1>3 DEF TransportInv

\* An exchange gives its slot and its body back on every path, a closed backend
\* owns no response, and the token is only shown to the account's own endpoint,
\* for all requests, origins and lengths of redirection.
THEOREM ExchangesSafe == TransportSpec => []ExchangesAreSafe
<1>1. TransportInv /\ [TransportNext]_transportVars => TransportInv'
  <2> SUFFICES ASSUME TransportInv, [TransportNext]_transportVars PROVE TransportInv'
    OBVIOUS
  <2>1. CASE UNCHANGED transportVars
    BY <2>1 DEF TransportInv, TransportTypeOK, transportVars, Owns, Owned, Carries
  <2> QED BY <2>1, ExchangeStep, BackendStep DEF TransportNext
<1>2. TransportInv => ExchangesAreSafe
  BY DEF TransportInv, TransportTypeOK, ExchangesAreSafe, SlotsFollowLeases, ClosedOwnsNothing,
     TokenStaysHome, Owns, Owned, Carries
<1> QED BY <1>1, <1>2, TransportInitInv, PTL DEF TransportSpec

------------------------------------------------------------------------------
(* The lookups of the endpoint: who waits, who is joined, whose answer a lane *)
(* waits for.                                                                 *)

Endpoint == [gen : Generations, born : Nat]
Lane == [gen : Generations, endpoint : Endpoint \cup {None}, operation : Actors \cup {None}]
Lookup == [state : {"none", "running", "aborted", "settled"}, gen : Generations, born : Nat,
           waiters : SUBSET Actors]
Ask == [state : {"idle", "waiting", "done", "failed", "gave_up"},
        on : Actors \cup {None}, lane : Actors \cup {None}]

DiscoveryTypeOK ==
  /\ credential \in Generations /\ epoch \in Nat
  /\ lane \in Actors \cup {None}
  /\ lanes \in [Actors -> Lane]
  /\ joins \in [Generations -> Actors \cup {None}]
  /\ lookups \in [Actors -> Lookup]
  /\ asks \in [Actors -> Ask]
  /\ shut \in BOOLEAN

Running(o) == lookups[o].state = "running"

\* The lookup a caller joins runs for its generation since the last invalidation,
\* and every such lookup can be joined.
Joined ==
  /\ \A g \in Generations : joins[g] # None =>
       Running(joins[g]) /\ lookups[joins[g]].gen = g /\ lookups[joins[g]].born = epoch
  /\ \A o \in Actors : Running(o) =>
       /\ lookups[o].born <= epoch
       /\ lookups[o].born = epoch => joins[lookups[o].gen] = o

\* The account's lane holds a current endpoint, or waits for one.
LaneIsCurrent ==
  lane # None =>
    /\ lanes[lane].endpoint # None =>
         lanes[lane].endpoint = [gen |-> lanes[lane].gen, born |-> epoch]
    /\ \A o \in Actors : lanes[lane].operation = o /\ Running(o) =>
         lookups[o].gen = lanes[lane].gen /\ lookups[o].born = epoch

\* A caller waits on the lookup that counts it among its waiters.
Waiting(a) ==
  /\ asks[a].state = "waiting" =>
       asks[a].on \in Actors /\ asks[a].lane \in Actors /\ a \in lookups[asks[a].on].waiters
  /\ \A o \in Actors : a \in lookups[o].waiters => asks[a].state = "waiting" /\ asks[a].on = o

\* Nothing is in the name of an actor that has not called yet.
Fresh(a) ==
  asks[a].state = "idle" =>
    /\ lookups[a].state = "none" /\ lookups[a].waiters = {}
    /\ \A l \in Actors : lanes[l].operation # a

\* A lookup runs for somebody, and one that is aborted for nobody.
NeededLookups ==
  ~shut => \A o \in Actors : /\ lookups[o].state = "aborted" => lookups[o].waiters = {}
                             /\ lookups[o].state = "running" => lookups[o].waiters # {}

DiscoveryInv ==
  /\ DiscoveryTypeOK /\ Joined /\ LaneIsCurrent /\ NeededLookups /\ SingleFlight
  /\ \A a \in Actors : Waiting(a) /\ Fresh(a)

------------------------------------------------------------------------------
(* The fetches of the catalogue, and the agent they share. *)

FetchStates == {"none", "resolving", "discovering", "connecting", "requesting", "refused", "settled"}
Fetch == [state : FetchStates, gen : Generations, born : Nat, waiters : SUBSET Clients,
          aborted : BOOLEAN]
Call == [state : {"idle", "waiting", "done", "failed", "gave_up"}, on : Clients \cup {None}]

CatalogueTypeOK ==
  /\ generation \in Nat /\ seen \in Nat
  /\ cache \in Endpoint \cup {None}
  /\ inflight \in Clients \cup {None}
  /\ fetches \in [Clients -> Fetch]
  /\ gets \in [Clients -> Call]
  /\ closed \in BOOLEAN

Underway(f) == fetches[f].state \notin {"none", "settled"}

CatalogueIsCurrent == cache # None => cache.born = generation /\ cache.gen <= seen

NeededFetches ==
  ~closed => \A f \in Clients : Underway(f) => (fetches[f].aborted <=> fetches[f].waiters = {})

\* A client waits on the fetch that counts it among its waiters, and nothing is in
\* the name of a client that has not called yet.
Client(c) ==
  /\ gets[c].state = "waiting" => gets[c].on \in Clients /\ c \in fetches[gets[c].on].waiters
  /\ \A f \in Clients : c \in fetches[f].waiters => gets[c].state = "waiting" /\ gets[c].on = f
  /\ gets[c].state = "idle" => fetches[c].waiters = {} /\ inflight # c

CatalogueInv ==
  /\ CatalogueTypeOK /\ CatalogueIsCurrent /\ NeededFetches
  /\ \A c \in Clients : Client(c)

\* A forced source creates no agent it would keep, a closed one none it would use.
AgentInv ==
  /\ source \in [closed : BOOLEAN, forced : BOOLEAN,
                 agent : {"none", "open", "closing", "closed", "destroyed"},
                 making : {"no", "pending", "closing", "forced"}]
  /\ source.forced => /\ source.closed /\ source.agent \notin {"open", "closing"}
                      /\ source.making \in {"no", "forced"}
  /\ source.closed => source.agent # "open" /\ source.making # "pending"

CachesInv == DiscoveryInv /\ CatalogueInv /\ AgentInv

------------------------------------------------------------------------------
(* discover() *)

\* A call that is over waits on nothing and leaves every lookup alone.
LEMMA EndedAsk == \A state \in {"done", "failed", "gave_up"} :
                    Ended(state) \in Ask /\ Ended(state).state = state
BY DEF Ended, Ask

LEMMA DiscoverHits ==
  ASSUME DiscoveryInv, NEW a \in Actors, asks[a].state = "idle",
         asks' = [asks EXCEPT ![a] = Ended("done")],
         UNCHANGED <<credential, epoch, lane, lanes, joins, lookups, shut>>
  PROVE  DiscoveryInv'
<1>1. /\ asks'[a].state = "done" /\ asks' \in [Actors -> Ask]
      /\ \A b \in Actors : b # a => asks'[b] = asks[b]
  BY EndedAsk DEF DiscoveryInv, DiscoveryTypeOK
<1>2. DiscoveryTypeOK'
  BY <1>1 DEF DiscoveryInv, DiscoveryTypeOK
<1>3. Joined' /\ LaneIsCurrent' /\ NeededLookups' /\ SingleFlight'
  BY DEF DiscoveryInv, Joined, LaneIsCurrent, NeededLookups, SingleFlight, Running
<1>4. Waiting(a)' /\ Fresh(a)'
  BY <1>1 DEF DiscoveryInv, Waiting, Fresh
<1>5. ASSUME NEW b \in Actors, b # a PROVE Waiting(b)' /\ Fresh(b)'
  BY <1>1, <1>5 DEF DiscoveryInv, Waiting, Fresh
<1> QED BY <1>2, <1>3, <1>4, <1>5 DEF DiscoveryInv

\* What a call that finds no endpoint does: it has the lookup of its generation,
\* a new one if there is none, and a lane that waits for it.
Asks(a, g, mine, on) ==
  /\ lane' \in {lane, a} /\ (lane' # lane => mine = a)
  /\ mine \in {lane, a} /\ (mine = lane /\ lane # a => lanes[lane].gen = g)
  /\ lane = None => lane' = a /\ mine = a
  /\ lanes'[mine].gen = g /\ lanes'[mine].endpoint = None
  /\ IF on = a THEN lanes'[mine].operation = a
     ELSE lanes'[mine].operation = IF mine = a THEN None ELSE lanes[mine].operation
  /\ lanes' \in [Actors -> Lane] /\ \A l \in Actors : l # mine => lanes'[l] = lanes[l]
  /\ asks' \in [Actors -> Ask] /\ \A b \in Actors : b # a => asks'[b] = asks[b]
  /\ asks'[a] = [state |-> "waiting", on |-> on, lane |-> mine]

LEMMA DiscoverAsks ==
  ASSUME DiscoveryInv, NEW a \in Actors, NEW g \in Generations, Discover(a, g)
  PROVE  \/ /\ asks' = [asks EXCEPT ![a] = Ended("done")]
            /\ UNCHANGED <<lane, lanes, joins, lookups>>
         \/ \E mine, on \in Actors :
              /\ Asks(a, g, mine, on)
              /\ on = IF joins[g] = None THEN a ELSE joins[g]
              /\ joins' = [joins EXCEPT ![g] = on]
              /\ lookups' = IF joins[g] = None
                   THEN [lookups EXCEPT ![a] = [state |-> "running", gen |-> g, born |-> epoch,
                                                waiters |-> {a}]]
                   ELSE [lookups EXCEPT ![on].waiters = @ \cup {a}]
<1> DEFINE fresh == lane = None \/ g > lanes[lane].gen
           mine == IF ~fresh /\ lanes[lane].gen = g THEN lane ELSE a
           starts == joins[g] = None
           on == IF starts THEN a ELSE joins[g]
           op == IF starts THEN a ELSE IF mine = a THEN None ELSE lanes[mine].operation
           new == [gen |-> g, endpoint |-> None, operation |-> op]
<1>0. DiscoveryTypeOK /\ Joined /\ None \notin Actors
  BY CachesAssumption DEF DiscoveryInv, Actors
<1>1. mine \in Actors /\ on \in Actors /\ (lane # None => lane \in Actors)
  BY <1>0 DEF DiscoveryTypeOK
<1>2. CASE UNCHANGED <<lane, lanes, joins, lookups>> /\ asks' = [asks EXCEPT ![a] = Ended("done")]
  BY <1>2
<1>3. CASE /\ lane' = IF fresh THEN a ELSE lane
           /\ lanes' = [lanes EXCEPT ![mine] =
                 [gen |-> g, endpoint |-> None,
                  operation |-> IF starts THEN a ELSE IF mine = a THEN None ELSE @.operation]]
           /\ joins' = [joins EXCEPT ![g] = on]
           /\ lookups' = IF starts
                THEN [lookups EXCEPT ![a] = [state |-> "running", gen |-> g, born |-> epoch, waiters |-> {a}]]
                ELSE [lookups EXCEPT ![on].waiters = @ \cup {a}]
           /\ asks' = [asks EXCEPT ![a] = [state |-> "waiting", on |-> on, lane |-> mine]]
  <2>1. lanes[mine] \in Lane /\ op \in Actors \cup {None}
    BY <1>0, <1>1 DEF DiscoveryTypeOK, Lane
  <2>2. new \in Lane
    BY <2>1 DEF Lane
  <2>3. lanes' = [lanes EXCEPT ![mine] = new]
    BY <1>3
  <2>4. /\ lanes'[mine] = new /\ lanes' \in [Actors -> Lane]
        /\ \A l \in Actors : l # mine => lanes'[l] = lanes[l]
    BY <2>2, <2>3, <1>0, <1>1 DEF DiscoveryTypeOK
  <2>5. [state |-> "waiting", on |-> on, lane |-> mine] \in Ask
    BY <1>1 DEF Ask
  <2>6. /\ asks' \in [Actors -> Ask] /\ \A b \in Actors : b # a => asks'[b] = asks[b]
        /\ asks'[a] = [state |-> "waiting", on |-> on, lane |-> mine]
    BY <1>3, <2>5, <1>0 DEF DiscoveryTypeOK
  <2>7. joins[g] # None => joins[g] # a
    BY <1>0 DEF DiscoveryInv, Fresh, Joined, Running, Discover
  <2>8. Asks(a, g, mine, on)
    BY <1>0, <1>1, <1>3, <2>4, <2>6, <2>7 DEF Asks
  <2> QED BY <1>1, <1>3, <2>8
<1> QED BY <1>2, <1>3 DEF Discover

\* The first caller of a generation starts its lookup.
LEMMA DiscoverStarts ==
  ASSUME DiscoveryInv, NEW a \in Actors, NEW g \in Generations, NEW mine \in Actors,
         asks[a].state = "idle", joins[g] = None, Asks(a, g, mine, a),
         joins' = [joins EXCEPT ![g] = a],
         lookups' = [lookups EXCEPT ![a] = [state |-> "running", gen |-> g, born |-> epoch,
                                            waiters |-> {a}]],
         UNCHANGED <<credential, epoch, shut>>
  PROVE  DiscoveryInv'
<1> DEFINE new == [state |-> "running", gen |-> g, born |-> epoch, waiters |-> {a}]
<1>0. /\ DiscoveryTypeOK /\ Joined /\ LaneIsCurrent /\ NeededLookups /\ SingleFlight
      /\ \A b \in Actors : Waiting(b) /\ Fresh(b)
      /\ None \notin Actors
  BY CachesAssumption DEF DiscoveryInv, Actors
<1>1. new \in Lookup /\ epoch \in Nat
  BY <1>0 DEF Lookup, DiscoveryTypeOK
<1>2. /\ lookups'[a] = new /\ lookups' \in [Actors -> Lookup]
      /\ \A o \in Actors : o # a => lookups'[o] = lookups[o]
      /\ joins'[g] = a /\ joins' \in [Generations -> Actors \cup {None}]
      /\ \A n \in Generations : n # g => joins'[n] = joins[n]
  BY <1>0, <1>1 DEF DiscoveryTypeOK
<1>3. /\ lookups[a].state = "none" /\ lookups[a].waiters = {} /\ ~Running(a)
      /\ \A l \in Actors : lanes[l].operation # a
      /\ \A n \in Generations : joins[n] # a
  BY <1>0 DEF Fresh, Running, Joined
<1>4. Running(a)' /\ \A o \in Actors : o # a => (Running(o)' <=> Running(o))
  BY <1>2 DEF Running
<1>5. lookups \in [Actors -> Lookup] /\ \A o \in Actors : lookups[o].gen \in Generations
  BY <1>0 DEF DiscoveryTypeOK, Lookup
<1>6. DiscoveryTypeOK'
  BY <1>0, <1>2 DEF DiscoveryTypeOK, Asks
<1>7. Joined'
  <2>2. ASSUME NEW n \in Generations, joins'[n] # None
        PROVE  /\ Running(joins[n])'
               /\ lookups'[joins'[n]].gen = n /\ lookups'[joins'[n]].born = epoch'
    <3>1. CASE n = g
      BY <1>2, <1>4, <3>1
    <3>2. CASE n # g
      <4>1. PICK o \in Actors : o = joins[n] /\ o # a /\ joins'[n] = o
        BY <1>0, <1>2, <1>3, <2>2, <3>2 DEF DiscoveryTypeOK
      <4>2. Running(o) /\ lookups[o].gen = n /\ lookups[o].born = epoch
        BY <1>0, <4>1 DEF Joined
      <4> QED BY <1>2, <1>4, <4>1, <4>2
    <3> QED BY <3>1, <3>2
  <2>3. ASSUME NEW o \in Actors, Running(o)'
        PROVE  /\ lookups'[o].born <= epoch'
               /\ lookups'[o].born = epoch' => joins'[lookups'[o].gen] = o
    <3>1. CASE o = a
      BY <1>1, <1>2, <3>1
    <3>2. CASE o # a
      BY <1>0, <1>2, <1>4, <1>5, <2>3, <3>2 DEF Joined
    <3> QED BY <3>1, <3>2
  <2> QED BY <2>2, <2>3 DEF Joined
<1>8. LaneIsCurrent'
  <2>1. CASE lane' = mine
    <3>1. lanes'[mine].gen = g /\ lanes'[mine].endpoint = None /\ lanes'[mine].operation = a
      BY DEF Asks
    <3> QED BY <1>2, <2>1, <3>1 DEF LaneIsCurrent
  <2>2. CASE lane' # mine
    <3>1. lane' = lane /\ lane # None /\ lane \in Actors /\ lanes'[lane] = lanes[lane]
      BY <1>0, <2>2 DEF Asks, DiscoveryTypeOK
    <3>2. \A o \in Actors : lanes[lane].operation = o => o # a
      BY <1>3, <3>1
    <3> QED BY <1>0, <1>2, <1>4, <3>1, <3>2 DEF LaneIsCurrent
  <2> QED BY <2>1, <2>2
<1>9. NeededLookups'
  BY <1>0, <1>2 DEF NeededLookups
<1>10. SingleFlight'
  <2>1. ASSUME NEW o \in Actors, o # a, Running(o), lookups[o].gen = g, lookups[o].born = epoch
        PROVE  FALSE
    BY <1>0, <2>1 DEF Joined
  <2> QED BY <1>0, <1>2, <1>4, <2>1 DEF SingleFlight, Running
<1>11. Waiting(a)' /\ Fresh(a)'
  BY <1>0, <1>2 DEF Waiting, Fresh, Asks
<1>12. ASSUME NEW b \in Actors, b # a PROVE Waiting(b)' /\ Fresh(b)'
  <2>1. asks'[b] = asks[b] /\ lookups'[b] = lookups[b]
    BY <1>2, <1>12 DEF Asks
  <2>2. Waiting(b)'
    BY <1>0, <1>2, <1>3, <1>12, <2>1 DEF Waiting
  <2>3. \A l \in Actors : lanes'[l].operation = b => lanes[l].operation = b
    BY <1>12 DEF Asks
  <2> QED BY <1>0, <2>1, <2>2, <2>3 DEF Fresh
<1> QED BY <1>6, <1>7, <1>8, <1>9, <1>10, <1>11, <1>12 DEF DiscoveryInv

\* The others join it.
LEMMA DiscoverJoins ==
  ASSUME DiscoveryInv, NEW a \in Actors, NEW g \in Generations,
         NEW mine \in Actors, NEW on \in Actors,
         asks[a].state = "idle", joins[g] = on, Asks(a, g, mine, on),
         joins' = [joins EXCEPT ![g] = on],
         lookups' = [lookups EXCEPT ![on].waiters = @ \cup {a}],
         UNCHANGED <<credential, epoch, shut>>
  PROVE  DiscoveryInv'
<1>0. /\ DiscoveryTypeOK /\ Joined /\ LaneIsCurrent /\ NeededLookups /\ SingleFlight
      /\ \A b \in Actors : Waiting(b) /\ Fresh(b)
      /\ None \notin Actors
  BY CachesAssumption DEF DiscoveryInv, Actors
<1>1. /\ on # None /\ Running(on) /\ lookups[on].gen = g /\ lookups[on].born = epoch
      /\ on # a /\ joins' = joins
  BY <1>0 DEF Joined, Fresh, Running, DiscoveryTypeOK
<1>2. lookups[on] \in Lookup /\ lookups'[on] = [lookups[on] EXCEPT !.waiters = @ \cup {a}]
      /\ \A o \in Actors : o # on => lookups'[o] = lookups[o]
  BY <1>0 DEF DiscoveryTypeOK
<1>3. /\ lookups'[on] \in Lookup /\ lookups'[on].waiters = lookups[on].waiters \cup {a}
      /\ lookups'[on].state = lookups[on].state /\ lookups'[on].gen = lookups[on].gen
      /\ lookups'[on].born = lookups[on].born
  BY <1>2 DEF Lookup
<1>4. \A o \in Actors : /\ lookups'[o].state = lookups[o].state /\ lookups'[o].gen = lookups[o].gen
                        /\ lookups'[o].born = lookups[o].born /\ (Running(o)' <=> Running(o))
                        /\ lookups'[o].waiters = lookups[o].waiters \cup (IF o = on THEN {a} ELSE {})
  BY <1>2, <1>3 DEF Running
<1>5. DiscoveryTypeOK'
  <2>1. lookups' \in [Actors -> Lookup]
    BY <1>0, <1>3 DEF DiscoveryTypeOK
  <2> QED BY <2>1, <1>0, <1>1 DEF DiscoveryTypeOK, Asks
<1>6. Joined'
  <2>1. \A n \in Generations : joins[n] \in Actors \cup {None}
    BY <1>0 DEF DiscoveryTypeOK
  <2> QED BY <1>0, <1>1, <1>4, <2>1 DEF Joined
<1>7. LaneIsCurrent'
  <2>1. CASE lane' = mine /\ mine = a
    <3>1. lanes'[mine].endpoint = None /\ lanes'[mine].operation = None
      BY <2>1, <1>1 DEF Asks
    <3> QED BY <1>0, <2>1, <3>1 DEF LaneIsCurrent
  <2>2. CASE lane' = mine /\ mine # a
    <3>1. /\ lane = mine /\ lane # None /\ lanes[lane].gen = g /\ lanes'[mine].gen = g
          /\ lanes'[mine].endpoint = None /\ lanes'[mine].operation = lanes[mine].operation
      BY <1>0, <1>1, <2>2 DEF Asks
    <3> QED BY <1>0, <1>4, <2>2, <3>1 DEF LaneIsCurrent
  <2>3. CASE lane' # mine
    <3>1. lane' = lane /\ lane # None /\ lane \in Actors /\ lanes'[lane] = lanes[lane]
      BY <1>0, <2>3 DEF Asks, DiscoveryTypeOK
    <3> QED BY <1>0, <1>4, <3>1 DEF LaneIsCurrent
  <2> QED BY <2>1, <2>2, <2>3
<1>8. NeededLookups'
  BY <1>0, <1>1, <1>4 DEF NeededLookups, Running
<1>9. SingleFlight'
  BY <1>0, <1>4 DEF SingleFlight, Running
<1>10. Waiting(a)' /\ Fresh(a)'
  BY <1>0, <1>1, <1>4 DEF Waiting, Fresh, Asks
<1>11. ASSUME NEW b \in Actors, b # a PROVE Waiting(b)' /\ Fresh(b)'
  <2>1. /\ asks'[b] = asks[b]
        /\ \A o \in Actors : b \in lookups'[o].waiters <=> b \in lookups[o].waiters
    BY <1>4, <1>11 DEF Asks
  <2>2. Waiting(b)'
    BY <1>0, <2>1 DEF Waiting
  <2>3. \A l \in Actors : lanes'[l].operation = b => lanes[l].operation = b
    BY <1>0, <1>1, <1>11 DEF Asks
  <2>4. asks[b].state = "idle" => b # on
    BY <1>0, <1>1 DEF Fresh, Running
  <2> QED BY <1>0, <1>2, <2>1, <2>2, <2>3, <2>4 DEF Fresh
<1> QED BY <1>5, <1>6, <1>7, <1>8, <1>9, <1>10, <1>11 DEF DiscoveryInv

LEMMA DiscoverInv ==
  ASSUME DiscoveryInv, NEW a \in Actors, NEW g \in Generations, Discover(a, g),
         UNCHANGED <<credential, epoch>>
  PROVE  DiscoveryInv'
<1>0. asks[a].state = "idle" /\ UNCHANGED shut /\ joins \in [Generations -> Actors \cup {None}]
  BY DEF Discover, DiscoveryInv, DiscoveryTypeOK
<1>1. CASE asks' = [asks EXCEPT ![a] = Ended("done")] /\ UNCHANGED <<lane, lanes, joins, lookups>>
  BY <1>0, <1>1, DiscoverHits
<1>2. ASSUME NEW mine \in Actors, NEW on \in Actors, Asks(a, g, mine, on),
             on = IF joins[g] = None THEN a ELSE joins[g],
             joins' = [joins EXCEPT ![g] = on],
             lookups' = IF joins[g] = None
               THEN [lookups EXCEPT ![a] = [state |-> "running", gen |-> g, born |-> epoch,
                                            waiters |-> {a}]]
               ELSE [lookups EXCEPT ![on].waiters = @ \cup {a}]
      PROVE  DiscoveryInv'
  BY <1>0, <1>2, DiscoverStarts, DiscoverJoins
<1> QED BY <1>1, <1>2, DiscoverAsks

------------------------------------------------------------------------------
(* A lookup ends, a caller leaves, the caches are invalidated or closed. *)

LEMMA LookupEndsInv ==
  ASSUME DiscoveryInv, NEW o \in Actors, LookupAnswers(o) \/ LookupFails(o)
  PROVE  DiscoveryInv'
<1> DEFINE over == [state |-> "settled", gen |-> 1, born |-> 0, waiters |-> {}]
<1>0. /\ DiscoveryTypeOK /\ Joined /\ LaneIsCurrent /\ NeededLookups /\ SingleFlight
      /\ \A b \in Actors : Waiting(b) /\ Fresh(b)
      /\ None \notin Actors
  BY CachesAssumption DEF DiscoveryInv, Actors
<1>1. PICK state \in {"done", "failed"} : LookupEnds(o, state)
  BY DEF LookupAnswers, LookupFails
<1>2. /\ lookups' = [lookups EXCEPT ![o] = over]
      /\ joins' = [g \in Generations |-> IF joins[g] = o THEN None ELSE joins[g]]
      /\ asks' = [a \in Actors |-> IF a \in lookups[o].waiters THEN Ended(state) ELSE asks[a]]
      /\ UNCHANGED <<lane, shut, credential, epoch>>
  BY <1>1 DEF LookupEnds
<1>3. over \in Lookup
  BY CachesAssumption DEF Lookup, Generations
<1>4. /\ lookups'[o] = over /\ lookups' \in [Actors -> Lookup]
      /\ \A p \in Actors : p # o => lookups'[p] = lookups[p]
      /\ \A g \in Generations : joins'[g] = IF joins[g] = o THEN None ELSE joins[g]
      /\ joins' \in [Generations -> Actors \cup {None}]
  BY <1>0, <1>2, <1>3 DEF DiscoveryTypeOK
<1>5. ~Running(o)' /\ \A p \in Actors : p # o => (Running(p)' <=> Running(p))
  BY <1>4 DEF Running
<1>6. /\ asks' \in [Actors -> Ask]
      /\ \A a \in Actors : a \in lookups[o].waiters => asks'[a].state \notin {"waiting", "idle"}
      /\ \A a \in Actors : a \notin lookups[o].waiters => asks'[a] = asks[a]
  BY <1>0, <1>2, EndedAsk DEF DiscoveryTypeOK
<1>7. /\ lanes' \in [Actors -> Lane]
      /\ \A l \in Actors :
           /\ lanes'[l].gen = lanes[l].gen
           /\ lanes'[l].operation = IF lanes[l].operation = o THEN None ELSE lanes[l].operation
           /\ \/ lanes'[l].endpoint = lanes[l].endpoint
              \/ /\ l = lane /\ lanes[l].operation = o /\ Running(o)
                 /\ lanes'[l].endpoint = [gen |-> lookups[o].gen, born |-> lookups[o].born]
  <2>1. /\ Released(o) \in [Actors -> Lane]
        /\ \A l \in Actors :
             /\ Released(o)[l].gen = lanes[l].gen /\ Released(o)[l].endpoint = lanes[l].endpoint
             /\ Released(o)[l].operation = IF lanes[l].operation = o THEN None ELSE lanes[l].operation
    <3>1. ASSUME NEW l \in Actors
          PROVE  /\ [lanes[l] EXCEPT !.operation = None] \in Lane
                 /\ [lanes[l] EXCEPT !.operation = None].gen = lanes[l].gen
                 /\ [lanes[l] EXCEPT !.operation = None].endpoint = lanes[l].endpoint
                 /\ [lanes[l] EXCEPT !.operation = None].operation = None
      <4>1. lanes[l] \in Lane
        BY <1>0 DEF DiscoveryTypeOK
      <4> QED BY <4>1 DEF Lane
    <3> QED BY <3>1, <1>0 DEF Released, DiscoveryTypeOK
  <2>2. CASE lanes' = Released(o)
    BY <2>1, <2>2
  <2>3. CASE /\ Running(o) /\ StoresLookup(o)
             /\ lanes' = [Released(o) EXCEPT
                            ![lane].endpoint = [gen |-> lookups[o].gen, born |-> lookups[o].born]]
    <3>1. lane \in Actors /\ lanes[lane].operation = o
      BY <1>0, <2>3 DEF StoresLookup, DiscoveryTypeOK
    <3>2. Released(o)[lane] \in Lane
      BY <2>1, <3>1
    <3>3. [gen |-> lookups[o].gen, born |-> lookups[o].born] \in Endpoint
      <4>1. lookups[o] \in Lookup
        BY <1>0 DEF DiscoveryTypeOK
      <4> QED BY <4>1 DEF Lookup, Endpoint
    <3>4. lanes'[lane] = [Released(o)[lane] EXCEPT
                            !.endpoint = [gen |-> lookups[o].gen, born |-> lookups[o].born]]
      BY <2>1, <2>3, <3>1
    <3>5. /\ lanes'[lane] \in Lane /\ lanes'[lane].gen = lanes[lane].gen
          /\ lanes'[lane].operation = None
          /\ lanes'[lane].endpoint = [gen |-> lookups[o].gen, born |-> lookups[o].born]
      <4>1. lanes'[lane].gen = Released(o)[lane].gen
            /\ lanes'[lane].operation = Released(o)[lane].operation
            /\ lanes'[lane].endpoint = [gen |-> lookups[o].gen, born |-> lookups[o].born]
            /\ lanes'[lane] \in Lane
        BY <3>2, <3>3, <3>4 DEF Lane
      <4> QED BY <2>1, <3>1, <4>1
    <3>6. \A l \in Actors : l # lane => lanes'[l] = Released(o)[l]
      BY <2>1, <2>3
    <3>7. lanes' \in [Actors -> Lane]
      BY <2>1, <2>3, <3>5
    <3> QED BY <2>1, <2>3, <3>1, <3>5, <3>6, <3>7
  <2> QED BY <2>2, <2>3 DEF LookupAnswers, LookupFails, Running
<1>8. DiscoveryTypeOK'
  BY <1>0, <1>2, <1>4, <1>6, <1>7 DEF DiscoveryTypeOK
<1>9. Joined'
  <2>1. ASSUME NEW g \in Generations, joins'[g] # None
        PROVE  Running(joins[g])' /\ joins'[g] = joins[g]
               /\ lookups'[joins[g]].gen = g /\ lookups'[joins[g]].born = epoch'
    <3>1. joins'[g] = joins[g] /\ joins[g] # o /\ joins[g] \in Actors
      BY <1>0, <1>4, <2>1 DEF DiscoveryTypeOK
    <3> QED BY <1>0, <1>2, <1>4, <1>5, <2>1, <3>1 DEF Joined
  <2>2. ASSUME NEW p \in Actors, Running(p)'
        PROVE  /\ lookups'[p].born <= epoch'
               /\ lookups'[p].born = epoch' => joins'[lookups'[p].gen] = p
    <3>1. p # o /\ Running(p) /\ lookups'[p] = lookups[p] /\ lookups[p].gen \in Generations
      BY <1>0, <1>4, <1>5, <2>2 DEF DiscoveryTypeOK, Lookup
    <3> QED BY <1>0, <1>2, <1>4, <3>1 DEF Joined
  <2> QED BY <2>1, <2>2 DEF Joined
<1>10. LaneIsCurrent'
  <2> SUFFICES ASSUME lane # None
               PROVE  /\ lanes'[lane].endpoint # None =>
                           lanes'[lane].endpoint = [gen |-> lanes'[lane].gen, born |-> epoch]
                      /\ \A p \in Actors : lanes'[lane].operation = p /\ Running(p)' =>
                           lookups'[p].gen = lanes'[lane].gen /\ lookups'[p].born = epoch
    BY <1>2 DEF LaneIsCurrent
  <2>1. lane \in Actors
    BY <1>0 DEF DiscoveryTypeOK
  <2> QED BY <1>0, <1>4, <1>5, <1>7, <2>1 DEF LaneIsCurrent
<1>11. NeededLookups'
  BY <1>0, <1>2, <1>4 DEF NeededLookups
<1>12. SingleFlight'
  BY <1>0, <1>4, <1>5 DEF SingleFlight, Running
<1>13. ASSUME NEW b \in Actors PROVE Waiting(b)' /\ Fresh(b)'
  <2>1. Waiting(b)'
    BY <1>0, <1>4, <1>6, SMTT(40) DEF Waiting
  <2>2. \A l \in Actors : lanes'[l].operation = b => lanes[l].operation = b
    BY <1>0, <1>7
  <2>3. CASE b \in lookups[o].waiters
    BY <1>6, <2>1, <2>3 DEF Fresh
  <2>4. CASE b \notin lookups[o].waiters
    <3>1. asks[b].state = "idle" => b # o
      BY <1>0 DEF Fresh, LookupAnswers, LookupFails
    <3> QED BY <1>0, <1>4, <1>6, <2>1, <2>2, <2>4, <3>1 DEF Fresh
  <2> QED BY <2>3, <2>4
<1> QED BY <1>8, <1>9, <1>10, <1>11, <1>12, <1>13 DEF DiscoveryInv

\* The last caller to leave takes the lookup out of the table and its lane out of
\* the account's place.
LEMMA GiveUpInv ==
  ASSUME DiscoveryInv, NEW a \in Actors, GiveUp(a)
  PROVE  DiscoveryInv'
<1>0. /\ DiscoveryTypeOK /\ Joined /\ LaneIsCurrent /\ NeededLookups /\ SingleFlight
      /\ \A b \in Actors : Waiting(b) /\ Fresh(b)
      /\ None \notin Actors
  BY CachesAssumption DEF DiscoveryInv, Actors
<1>1. PICK o \in Actors, l \in Actors : o = asks[a].on /\ l = asks[a].lane /\ a \in lookups[o].waiters
  BY <1>0 DEF GiveUp, Waiting
<1>2. /\ asks[a].state = "waiting"
      /\ asks' = [asks EXCEPT ![a] = Ended("gave_up")]
      /\ lookups' = [lookups EXCEPT ![o].waiters = @ \ {a},
                                    ![o].state = IF lookups[o].waiters = {a} THEN "aborted" ELSE @]
      /\ joins' = IF lookups[o].waiters = {a}
                  THEN [g \in Generations |-> IF joins[g] = o THEN None ELSE joins[g]] ELSE joins
      /\ lane' = IF lookups[o].waiters = {a} /\ lane = l THEN None ELSE lane
      /\ lanes' = IF lookups[o].waiters = {a} /\ lanes[l].operation = o
                  THEN [lanes EXCEPT ![l].operation = None] ELSE lanes
      /\ UNCHANGED <<shut, credential, epoch>>
  BY <1>1 DEF GiveUp, Orphans
<1>3. PICK orphan \in BOOLEAN : orphan <=> lookups[o].waiters = {a}
  OBVIOUS
<1>4. lookups[o] \in Lookup
      /\ lookups'[o] = [lookups[o] EXCEPT !.waiters = lookups[o].waiters \ {a},
                                          !.state = IF orphan THEN "aborted" ELSE lookups[o].state]
      /\ \A p \in Actors : p # o => lookups'[p] = lookups[p]
  BY <1>0, <1>2, <1>3 DEF DiscoveryTypeOK
<1>5. /\ lookups'[o] \in Lookup /\ lookups'[o].waiters = lookups[o].waiters \ {a}
      /\ lookups'[o].gen = lookups[o].gen /\ lookups'[o].born = lookups[o].born
      /\ lookups'[o].state = IF orphan THEN "aborted" ELSE lookups[o].state
  BY <1>4 DEF Lookup
<1>6. lookups' \in [Actors -> Lookup]
  BY <1>0, <1>2, <1>5 DEF DiscoveryTypeOK
<1>7. /\ asks'[a].state = "gave_up" /\ asks' \in [Actors -> Ask]
      /\ \A b \in Actors : b # a => asks'[b] = asks[b]
  BY <1>0, <1>2, EndedAsk DEF DiscoveryTypeOK
<1>8. /\ joins' \in [Generations -> Actors \cup {None}]
      /\ \A g \in Generations : joins'[g] = IF orphan /\ joins[g] = o THEN None ELSE joins[g]
  BY <1>0, <1>2, <1>3 DEF DiscoveryTypeOK
<1>9. /\ lanes' \in [Actors -> Lane]
      /\ \A k \in Actors :
           /\ lanes'[k].gen = lanes[k].gen /\ lanes'[k].endpoint = lanes[k].endpoint
           /\ lanes'[k].operation \in {lanes[k].operation, None}
  <2>1. CASE lanes' = lanes
    BY <1>0, <2>1 DEF DiscoveryTypeOK
  <2>2. CASE lanes' = [lanes EXCEPT ![l].operation = None]
    <3>1. lanes[l] \in Lane /\ lanes'[l] = [lanes[l] EXCEPT !.operation = None]
      BY <1>0, <2>2 DEF DiscoveryTypeOK
    <3>2. /\ lanes'[l] \in Lane /\ lanes'[l].gen = lanes[l].gen
          /\ lanes'[l].endpoint = lanes[l].endpoint /\ lanes'[l].operation = None
      BY <3>1 DEF Lane
    <3> QED BY <1>0, <2>2, <3>2 DEF DiscoveryTypeOK
  <2> QED BY <1>2, <2>1, <2>2
<1>10. \A p \in Actors : Running(p)' <=> Running(p) /\ ~(p = o /\ orphan)
  BY <1>4, <1>5 DEF Running
<1>11. \A p \in Actors : lookups'[p].gen = lookups[p].gen /\ lookups'[p].born = lookups[p].born
  BY <1>4, <1>5
<1>12. DiscoveryTypeOK'
  BY <1>0, <1>2, <1>6, <1>7, <1>8, <1>9 DEF DiscoveryTypeOK
<1>13. Joined'
  <2>1. ASSUME NEW g \in Generations, joins'[g] # None
        PROVE  /\ Running(joins[g])' /\ joins'[g] = joins[g]
               /\ lookups'[joins[g]].gen = g /\ lookups'[joins[g]].born = epoch'
    <3>1. joins'[g] = joins[g] /\ joins[g] \in Actors /\ ~(joins[g] = o /\ orphan)
      BY <1>0, <1>8, <2>1 DEF DiscoveryTypeOK
    <3> QED BY <1>0, <1>2, <1>10, <1>11, <3>1 DEF Joined
  <2>2. ASSUME NEW p \in Actors, Running(p)'
        PROVE  /\ lookups'[p].born <= epoch'
               /\ lookups'[p].born = epoch' => joins'[lookups'[p].gen] = p
    <3>1. Running(p) /\ ~(p = o /\ orphan) /\ lookups[p].gen \in Generations
      BY <1>0, <1>10, <2>2 DEF DiscoveryTypeOK, Lookup
    <3>2. lookups[p].born <= epoch /\ (lookups[p].born = epoch => joins[lookups[p].gen] = p)
      BY <1>0, <3>1 DEF Joined
    <3>3. joins[lookups[p].gen] = p => joins'[lookups[p].gen] = p
      BY <1>8, <3>1
    <3>4. lookups'[p].gen = lookups[p].gen /\ lookups'[p].born = lookups[p].born
      BY <1>11
    <3> QED BY <1>2, <3>2, <3>3, <3>4
  <2> QED BY <2>1, <2>2 DEF Joined
<1>14. LaneIsCurrent'
  <2> SUFFICES ASSUME lane' # None
               PROVE  /\ lanes'[lane].endpoint # None =>
                           lanes'[lane].endpoint = [gen |-> lanes'[lane].gen, born |-> epoch]
                      /\ \A p \in Actors : lanes'[lane].operation = p /\ Running(p)' =>
                           lookups'[p].gen = lanes'[lane].gen /\ lookups'[p].born = epoch
    BY <1>2 DEF LaneIsCurrent
  <2>1. lane \in Actors
    BY <1>0, <1>2 DEF DiscoveryTypeOK
  <2> QED BY <1>0, <1>9, <1>10, <1>11, <2>1 DEF LaneIsCurrent
<1>15. NeededLookups'
  <2> SUFFICES ASSUME ~shut, NEW p \in Actors
               PROVE  /\ lookups'[p].state = "aborted" => lookups'[p].waiters = {}
                      /\ lookups'[p].state = "running" => lookups'[p].waiters # {}
    BY <1>2 DEF NeededLookups
  <2>1. /\ lookups[p].state = "aborted" => lookups[p].waiters = {}
        /\ lookups[p].state = "running" => lookups[p].waiters # {}
    BY <1>0 DEF NeededLookups
  <2>2. CASE p # o
    BY <1>4, <2>1, <2>2
  <2>3. CASE p = o /\ orphan
    BY <1>3, <1>5, <2>3
  <2>4. CASE p = o /\ ~orphan
    BY <1>1, <1>3, <1>5, <2>1, <2>4
  <2> QED BY <2>2, <2>3, <2>4
<1>16. SingleFlight'
  BY <1>0, <1>10, <1>11 DEF SingleFlight, Running
<1>17. Waiting(a)' /\ Fresh(a)'
  <2>1. ASSUME NEW p \in Actors PROVE a \notin lookups'[p].waiters
    <3>1. a \in lookups[p].waiters => p = o
      BY <1>0, <1>1 DEF Waiting
    <3>2. CASE p = o
      BY <1>5, <3>2
    <3>3. CASE p # o
      BY <1>4, <3>1, <3>3
    <3> QED BY <3>2, <3>3
  <2> QED BY <1>7, <2>1 DEF Waiting, Fresh
<1>18. ASSUME NEW b \in Actors, b # a PROVE Waiting(b)' /\ Fresh(b)'
  <2>1. \A p \in Actors : b \in lookups'[p].waiters <=> b \in lookups[p].waiters
    BY <1>4, <1>5, <1>18
  <2>2. Waiting(b)'
    BY <1>0, <1>7, <1>18, <2>1 DEF Waiting
  <2>3. \A k \in Actors : lanes'[k].operation = b => lanes[k].operation = b
    BY <1>0, <1>9
  <2>4. asks[b].state = "idle" => b # o
    BY <1>0, <1>1 DEF Fresh
  <2> QED BY <1>0, <1>4, <1>7, <1>18, <2>2, <2>3, <2>4 DEF Fresh
<1> QED BY <1>12, <1>13, <1>14, <1>15, <1>16, <1>17, <1>18 DEF DiscoveryInv

LEMMA InvalidateInv ==
  ASSUME DiscoveryInv, Invalidate
  PROVE  DiscoveryInv'
<1>0. /\ DiscoveryTypeOK /\ Joined /\ NeededLookups /\ SingleFlight
      /\ \A b \in Actors : Waiting(b) /\ Fresh(b)
  BY DEF DiscoveryInv
<1>1. /\ epoch' = epoch + 1 /\ lane' = None /\ joins' = [g \in Generations |-> None]
      /\ UNCHANGED <<credential, lanes, lookups, asks, shut>>
  BY DEF Invalidate
<1>2. epoch \in Nat /\ epoch' \in Nat
  BY <1>0, <1>1 DEF DiscoveryTypeOK
<1>3. DiscoveryTypeOK'
  BY <1>0, <1>1, <1>2 DEF DiscoveryTypeOK
<1>4. Joined'
  <2>1. \A o \in Actors : lookups[o].born \in Nat
    BY <1>0 DEF DiscoveryTypeOK, Lookup
  <2> QED BY <1>0, <1>1, <1>2, <2>1 DEF Joined, Running
<1>5. LaneIsCurrent' /\ NeededLookups' /\ SingleFlight'
  BY <1>0, <1>1 DEF LaneIsCurrent, NeededLookups, SingleFlight
<1>6. \A b \in Actors : Waiting(b)' /\ Fresh(b)'
  BY <1>0, <1>1 DEF Waiting, Fresh
<1> QED BY <1>3, <1>4, <1>5, <1>6 DEF DiscoveryInv

LEMMA ShutInv ==
  ASSUME DiscoveryInv, ShutDiscovery, UNCHANGED <<credential, epoch>>
  PROVE  DiscoveryInv'
<1>0. /\ DiscoveryTypeOK /\ \A b \in Actors : Waiting(b) /\ Fresh(b)
  BY DEF DiscoveryInv
<1>1. /\ shut' = TRUE /\ lane' = None /\ joins' = [g \in Generations |-> None]
      /\ UNCHANGED <<lanes, asks>>
      /\ lookups' = [o \in Actors |-> IF lookups[o].state = "running"
                                      THEN [lookups[o] EXCEPT !.state = "aborted"] ELSE lookups[o]]
  BY DEF ShutDiscovery
<1>2. ASSUME NEW o \in Actors
      PROVE  /\ lookups'[o] \in Lookup /\ lookups'[o].waiters = lookups[o].waiters
             /\ lookups'[o].state # "running"
             /\ lookups[o].state = "none" => lookups'[o].state = "none"
  <2>1. lookups[o] \in Lookup
    BY <1>0 DEF DiscoveryTypeOK
  <2>2. CASE lookups[o].state = "running"
    <3>1. lookups'[o] = [lookups[o] EXCEPT !.state = "aborted"]
      BY <1>1, <2>2
    <3> QED BY <2>1, <2>2, <3>1 DEF Lookup
  <2>3. CASE lookups[o].state # "running"
    BY <1>1, <2>1, <2>3
  <2> QED BY <2>2, <2>3
<1>3. DiscoveryTypeOK'
  <2>1. lookups' \in [Actors -> Lookup]
    BY <1>1, <1>2
  <2> QED BY <1>0, <1>1, <2>1 DEF DiscoveryTypeOK
<1>4. Joined' /\ SingleFlight'
  BY <1>1, <1>2 DEF Joined, SingleFlight, Running
<1>5. LaneIsCurrent' /\ NeededLookups'
  BY <1>1 DEF LaneIsCurrent, NeededLookups
<1>6. \A b \in Actors : Waiting(b)' /\ Fresh(b)'
  BY <1>0, <1>1, <1>2 DEF Waiting, Fresh
<1> QED BY <1>3, <1>4, <1>5, <1>6 DEF DiscoveryInv

\* The steps that only touch the catalogue or its source.
LEMMA DiscoveryRests ==
  ASSUME DiscoveryInv, UNCHANGED <<credential, epoch, discovery>>
  PROVE  DiscoveryInv'
BY DEF DiscoveryInv, discovery, DiscoveryTypeOK, Joined, LaneIsCurrent, NeededLookups, SingleFlight,
   Running, Waiting, Fresh

LEMMA NewCredentialInv ==
  ASSUME DiscoveryInv, NewCredential
  PROVE  DiscoveryInv'
<1>1. credential' \in Generations /\ UNCHANGED <<epoch, lane, lanes, joins, lookups, asks, shut>>
  BY CachesAssumption DEF DiscoveryInv, DiscoveryTypeOK, NewCredential, Generations, discovery
<1> QED BY <1>1 DEF DiscoveryInv, DiscoveryTypeOK, Joined, LaneIsCurrent, NeededLookups, SingleFlight,
           Running, Waiting, Fresh

------------------------------------------------------------------------------
(* The catalogue: get(), the fetch, and those who wait for it. *)

\* The credential generation the catalogue has seen never falls.
LEMMA SeenGrows == \A m, n \in Nat : Max({m, n}) \in Nat /\ Max({m, n}) >= m
<1> SUFFICES ASSUME NEW m \in Nat, NEW n \in Nat
             PROVE  Max({m, n}) \in Nat /\ Max({m, n}) >= m
  OBVIOUS
<1>1. \E x \in {m, n} : \A y \in {m, n} : x >= y
  <2>1. CASE m >= n
    BY <2>1
  <2>2. CASE n >= m
    BY <2>2
  <2> QED BY <2>1, <2>2
<1>2. Max({m, n}) \in {m, n} /\ \A y \in {m, n} : Max({m, n}) >= y
  BY <1>1 DEF Max
<1> QED BY <1>2

\* A step of a fetch that changes neither its waiters nor its abort.
LEMMA FetchMoves ==
  ASSUME CatalogueInv, fetches' \in [Clients -> Fetch],
         \A f \in Clients : /\ fetches'[f].waiters = fetches[f].waiters
                            /\ fetches'[f].aborted = fetches[f].aborted
                            /\ Underway(f)' => Underway(f),
         UNCHANGED <<generation, cache, seen, inflight, gets, closed>>
  PROVE  CatalogueInv'
<1>1. CatalogueTypeOK' /\ CatalogueIsCurrent'
  BY DEF CatalogueInv, CatalogueTypeOK, CatalogueIsCurrent
<1>2. NeededFetches'
  BY DEF CatalogueInv, NeededFetches
<1>3. ASSUME NEW c \in Clients PROVE Client(c)'
  <2>1. Client(c) /\ (gets[c].state = "waiting" => gets[c].on \in Clients)
    BY DEF CatalogueInv, Client
  <2> QED BY <2>1 DEF Client
<1> QED BY <1>1, <1>2, <1>3 DEF CatalogueInv

LEMMA JoinedFetch == \A r \in Fetch, w \in SUBSET Clients :
                       /\ [r EXCEPT !.waiters = w] \in Fetch
                       /\ [r EXCEPT !.waiters = w].waiters = w
                       /\ [r EXCEPT !.waiters = w].aborted = r.aborted
BY DEF Fetch

\* One fetch goes from one state to another.
LEMMA FetchSteps ==
  ASSUME CatalogueInv, NEW f \in Clients, NEW state \in FetchStates \ {"none", "settled"},
         Underway(f), fetches' = [fetches EXCEPT ![f].state = state],
         UNCHANGED <<generation, cache, seen, inflight, gets, closed>>
  PROVE  CatalogueInv'
<1>1. fetches[f] \in Fetch /\ fetches'[f] = [fetches[f] EXCEPT !.state = state]
      /\ \A e \in Clients : e # f => fetches'[e] = fetches[e]
  BY DEF CatalogueInv, CatalogueTypeOK
<1>2. /\ fetches'[f] \in Fetch /\ fetches'[f].waiters = fetches[f].waiters
      /\ fetches'[f].aborted = fetches[f].aborted
  BY <1>1 DEF Fetch
<1>3. fetches' \in [Clients -> Fetch]
  BY <1>2 DEF CatalogueInv, CatalogueTypeOK
<1>4. \A e \in Clients : Underway(e)' => Underway(e)
  BY <1>1 DEF Underway
<1>5. \A e \in Clients : /\ fetches'[e].waiters = fetches[e].waiters
                         /\ fetches'[e].aborted = fetches[e].aborted
  BY <1>1, <1>2
<1> QED BY <1>3, <1>4, <1>5, FetchMoves

LEMMA GetHits ==
  ASSUME CatalogueInv, NEW c \in Clients, gets[c].state = "idle",
         seen' \in Nat, seen' >= seen, gets' = [gets EXCEPT ![c].state = "done"],
         UNCHANGED <<generation, cache, inflight, fetches, closed>>
  PROVE  CatalogueInv'
<1>0. CatalogueTypeOK /\ CatalogueIsCurrent /\ NeededFetches /\ \A d \in Clients : Client(d)
  BY DEF CatalogueInv
<1>1. gets[c] \in Call /\ gets'[c] = [gets[c] EXCEPT !.state = "done"]
      /\ \A d \in Clients : d # c => gets'[d] = gets[d]
  BY <1>0 DEF CatalogueTypeOK
<1>2. gets'[c] \in Call /\ gets'[c].state = "done"
  BY <1>1 DEF Call
<1>3. CatalogueTypeOK'
  BY <1>0, <1>2 DEF CatalogueTypeOK
<1>4. CatalogueIsCurrent'
  <2>1. cache # None => cache.gen \in Nat
    BY <1>0 DEF CatalogueTypeOK, Endpoint, Generations
  <2> QED BY <1>0, <2>1 DEF CatalogueIsCurrent, CatalogueTypeOK
<1>5. NeededFetches'
  BY <1>0 DEF NeededFetches, Underway
<1>6. ASSUME NEW d \in Clients PROVE Client(d)'
  <2>1. CASE d = c
    BY <1>0, <1>2, <2>1 DEF Client
  <2>2. CASE d # c
    BY <1>0, <1>1, <2>2 DEF Client
  <2> QED BY <2>1, <2>2
<1> QED BY <1>3, <1>4, <1>5, <1>6 DEF CatalogueInv

\* A call that finds no catalogue waits for a fetch of its own or for another's.
LEMMA GetWaits ==
  ASSUME CatalogueInv, NEW c \in Clients, NEW g \in Generations, NEW on \in Clients,
         gets[c].state = "idle", on # c => Joins(g) /\ on = inflight,
         seen' \in Nat, seen' >= seen, inflight' = on,
         fetches' = IF on = c
                    THEN [fetches EXCEPT ![c] = [state |-> "resolving", gen |-> g, born |-> generation,
                                                 waiters |-> {c}, aborted |-> FALSE]]
                    ELSE [fetches EXCEPT ![on].waiters = @ \cup {c}],
         gets' = [gets EXCEPT ![c] = [state |-> "waiting", on |-> on]],
         UNCHANGED <<generation, cache, closed>>
  PROVE  CatalogueInv'
<1>0. CatalogueTypeOK /\ CatalogueIsCurrent /\ NeededFetches /\ \A d \in Clients : Client(d)
  BY DEF CatalogueInv
<1> DEFINE call == [state |-> "waiting", on |-> on]
<1>1. call \in Call
  BY DEF Call
<1>2. gets'[c] = call /\ gets' \in [Clients -> Call] /\ \A d \in Clients : d # c => gets'[d] = gets[d]
  BY <1>0, <1>1 DEF CatalogueTypeOK
<1>3. \A f \in Clients : c \notin fetches[f].waiters
  BY <1>0 DEF Client
<1>4. /\ fetches'[on] \in Fetch /\ ~fetches'[on].aborted
      /\ fetches'[on].waiters = fetches[on].waiters \cup {c}
      /\ \A f \in Clients : f # on => fetches'[f] = fetches[f]
  <2>1. CASE on = c
    <3>1. [state |-> "resolving", gen |-> g, born |-> generation, waiters |-> {c}, aborted |-> FALSE]
            \in Fetch
      BY <1>0 DEF Fetch, FetchStates, CatalogueTypeOK
    <3>2. fetches[c].waiters = {}
      BY <1>0 DEF Client
    <3> QED BY <1>0, <2>1, <3>1, <3>2 DEF CatalogueTypeOK
  <2>2. CASE on # c
    <3>1. PICK w \in SUBSET Clients : w = fetches[on].waiters \cup {c}
      <4>1. fetches[on] \in Fetch
        BY <1>0 DEF CatalogueTypeOK
      <4>2. fetches[on].waiters \cup {c} \in SUBSET Clients
        BY <4>1 DEF Fetch
      <4> QED BY <4>2
    <3>2. fetches[on] \in Fetch /\ fetches'[on] = [fetches[on] EXCEPT !.waiters = w]
          /\ \A f \in Clients : f # on => fetches'[f] = fetches[f]
      BY <1>0, <2>2, <3>1 DEF CatalogueTypeOK
    <3>3. /\ fetches'[on] \in Fetch /\ fetches'[on].waiters = w
          /\ fetches'[on].aborted = fetches[on].aborted
      <4>1. PICK r \in Fetch : r = fetches[on]
        BY <3>2
      <4>2. /\ [r EXCEPT !.waiters = w] \in Fetch
            /\ [r EXCEPT !.waiters = w].waiters = w
            /\ [r EXCEPT !.waiters = w].aborted = r.aborted
        BY <3>1, <4>1, JoinedFetch
      <4>3. fetches'[on] = [r EXCEPT !.waiters = w]
        BY <3>2, <4>1
      <4> QED BY <4>1, <4>2, <4>3
    <3>4. ~fetches[on].aborted
      BY <2>2 DEF Joins
    <3> QED BY <3>1, <3>2, <3>3, <3>4
  <2> QED BY <2>1, <2>2
<1>5. CatalogueTypeOK'
  <2>1. fetches' \in [Clients -> Fetch]
    BY <1>0, <1>4 DEF CatalogueTypeOK
  <2> QED BY <1>0, <1>2, <2>1 DEF CatalogueTypeOK
<1>6. CatalogueIsCurrent'
  <2>1. cache # None => cache.gen \in Nat
    BY <1>0 DEF CatalogueTypeOK, Endpoint, Generations
  <2> QED BY <1>0, <2>1 DEF CatalogueIsCurrent, CatalogueTypeOK
<1>7. NeededFetches'
  <2> SUFFICES ASSUME ~closed, NEW f \in Clients, Underway(f)'
               PROVE  fetches'[f].aborted <=> fetches'[f].waiters = {}
    BY DEF NeededFetches
  <2>1. CASE f = on
    BY <1>4, <2>1
  <2>2. CASE f # on
    BY <1>0, <1>4, <2>2 DEF NeededFetches, Underway
  <2> QED BY <2>1, <2>2
<1>8. Client(c)'
  <2>1. \A f \in Clients : c \in fetches'[f].waiters <=> f = on
    BY <1>3, <1>4
  <2> QED BY <1>2, <2>1 DEF Client
<1>9. ASSUME NEW d \in Clients, d # c PROVE Client(d)'
  <2>1. \A f \in Clients : d \in fetches'[f].waiters <=> d \in fetches[f].waiters
    BY <1>4, <1>9
  <2>2. Client(d) /\ gets'[d] = gets[d]
    BY <1>0, <1>2, <1>9
  <2>3. fetches[d].waiters = {} => (fetches'[d].waiters = {} \/ d = on)
    BY <1>4
  <2>4. gets[d].state = "idle" => d # on
    BY <2>2, <1>9 DEF Client
  <2> QED BY <2>1, <2>2, <2>3, <2>4 DEF Client
<1> QED BY <1>5, <1>6, <1>7, <1>8, <1>9 DEF CatalogueInv

LEMMA GetInv ==
  ASSUME CatalogueInv, credential \in Generations, NEW c \in Clients, Get(c)
  PROVE  CatalogueInv'
<1>1. PICK g \in 1 .. credential :
        /\ gets[c].state = "idle" /\ seen' = Max({seen, g})
        /\ LET on == IF Joins(g) THEN inflight ELSE c
           IN IF cache # None /\ cache.gen = g
              THEN gets' = [gets EXCEPT ![c].state = "done"] /\ UNCHANGED <<inflight, fetches>>
              ELSE /\ inflight' = on
                   /\ fetches' = IF on = c
                         THEN [fetches EXCEPT ![c] = [state |-> "resolving", gen |-> g, born |-> generation,
                                                      waiters |-> {c}, aborted |-> FALSE]]
                         ELSE [fetches EXCEPT ![on].waiters = @ \cup {c}]
                   /\ gets' = [gets EXCEPT ![c] = [state |-> "waiting", on |-> on]]
        /\ UNCHANGED <<generation, cache, closed>>
  BY DEF Get
<1>2. g \in Generations /\ g \in Nat /\ seen \in Nat
  BY CachesAssumption DEF Generations, CatalogueInv, CatalogueTypeOK
<1>3. seen' \in Nat /\ seen' >= seen
  BY <1>1, <1>2, SeenGrows
<1>4. CASE cache # None /\ cache.gen = g
  BY <1>1, <1>3, <1>4, GetHits
<1>5. CASE ~(cache # None /\ cache.gen = g)
  <2>1. PICK on \in Clients : on = IF Joins(g) THEN inflight ELSE c
    BY DEF Joins, CatalogueInv, CatalogueTypeOK
  <2>2. on # c => Joins(g) /\ on = inflight
    BY <2>1
  <2> QED BY <1>1, <1>2, <1>3, <1>5, <2>1, <2>2, GetWaits
<1> QED BY <1>4, <1>5

LEMMA FetchEndsInv ==
  ASSUME CatalogueInv, NEW f \in Clients, FetchSucceeds(f) \/ FetchFails(f)
  PROVE  CatalogueInv'
<1> DEFINE over == [state |-> "settled", gen |-> 1, born |-> 0, waiters |-> {}, aborted |-> FALSE]
<1>0. /\ CatalogueTypeOK /\ CatalogueIsCurrent /\ NeededFetches /\ \A d \in Clients : Client(d)
      /\ None \notin Clients
  BY CachesAssumption DEF CatalogueInv
<1>1. PICK state \in {"done", "failed"} : FetchEnds(f, state)
  BY DEF FetchSucceeds, FetchFails
<1>2. /\ fetches' = [fetches EXCEPT ![f] = over]
      /\ inflight' \in {inflight, None}
      /\ gets' = [c \in Clients |-> IF c \in fetches[f].waiters
                                    THEN [state |-> state, on |-> None] ELSE gets[c]]
      /\ UNCHANGED <<generation, seen, closed>>
  BY <1>1 DEF FetchEnds
<1>3. over \in Fetch
  BY CachesAssumption DEF Fetch, FetchStates, Generations
<1>4. /\ fetches'[f] = over /\ fetches' \in [Clients -> Fetch]
      /\ \A e \in Clients : e # f => fetches'[e] = fetches[e]
  BY <1>0, <1>2, <1>3 DEF CatalogueTypeOK
<1>5. [state |-> state, on |-> None] \in Call
  BY DEF Call
<1>6. /\ gets' \in [Clients -> Call]
      /\ \A c \in Clients : c \in fetches[f].waiters => gets'[c].state = state
      /\ \A c \in Clients : c \notin fetches[f].waiters => gets'[c] = gets[c]
  BY <1>0, <1>2, <1>5 DEF CatalogueTypeOK
<1>7. cache' = cache \/ (cache' = [gen |-> fetches[f].gen, born |-> fetches[f].born] /\ StoresFetch(f))
  BY DEF FetchSucceeds, FetchFails
<1>8. fetches[f] \in Fetch
  BY <1>0 DEF CatalogueTypeOK
<1>9. [gen |-> fetches[f].gen, born |-> fetches[f].born] \in Endpoint
  BY <1>8 DEF Fetch, Endpoint
<1>10. CatalogueTypeOK'
  BY <1>0, <1>2, <1>4, <1>6, <1>7, <1>9 DEF CatalogueTypeOK
<1>11. CatalogueIsCurrent'
  <2>1. CASE cache' = cache
    BY <1>0, <1>2, <2>1 DEF CatalogueIsCurrent
  <2>2. CASE cache' = [gen |-> fetches[f].gen, born |-> fetches[f].born] /\ StoresFetch(f)
    <3>1. cache'.gen = seen' /\ cache'.born = generation' /\ seen' \in Nat
      BY <1>0, <1>2, <2>2 DEF StoresFetch, CatalogueTypeOK
    <3> QED BY <3>1 DEF CatalogueIsCurrent
  <2> QED BY <1>7, <2>1, <2>2
<1>12. NeededFetches'
  BY <1>0, <1>2, <1>4 DEF NeededFetches, Underway
<1>13. ASSUME NEW d \in Clients PROVE Client(d)'
  <2>1. CASE d \in fetches[f].waiters
    <3>1. \A e \in Clients : d \notin fetches'[e].waiters
      BY <1>0, <1>4, <2>1 DEF Client
    <3>2. gets'[d].state \notin {"idle", "waiting"}
      BY <1>6, <2>1
    <3> QED BY <3>1, <3>2 DEF Client
  <2>2. CASE d \notin fetches[f].waiters
    <3>1. \A e \in Clients : d \in fetches'[e].waiters <=> d \in fetches[e].waiters
      BY <1>4, <2>2
    <3>2. gets'[d] = gets[d] /\ (fetches[d].waiters = {} => fetches'[d].waiters = {})
      BY <1>4, <1>6, <2>2
    <3> QED BY <1>0, <1>2, <3>1, <3>2 DEF Client
  <2> QED BY <2>1, <2>2
<1> QED BY <1>10, <1>11, <1>12, <1>13 DEF CatalogueInv

\* The last client to leave aborts the fetch.
LEMMA ClientGivesUpInv ==
  ASSUME CatalogueInv, NEW c \in Clients, ClientGivesUp(c)
  PROVE  CatalogueInv'
<1>0. /\ CatalogueTypeOK /\ CatalogueIsCurrent /\ NeededFetches /\ \A d \in Clients : Client(d)
      /\ None \notin Clients
  BY CachesAssumption DEF CatalogueInv
<1>1. PICK f \in Clients : f = gets[c].on /\ c \in fetches[f].waiters
  BY <1>0 DEF ClientGivesUp, Client
<1>2. PICK orphan \in BOOLEAN : orphan <=> fetches[f].waiters = {c}
  OBVIOUS
<1>3. /\ gets' = [gets EXCEPT ![c] = [state |-> "gave_up", on |-> None]]
      /\ fetches' = [fetches EXCEPT ![f].waiters = @ \ {c},
                                    ![f].aborted = @ \/ (fetches[f].waiters = {c})]
      /\ inflight' \in {inflight, None}
      /\ UNCHANGED <<generation, cache, seen, closed>>
  BY <1>1 DEF ClientGivesUp
<1>4. fetches[f] \in Fetch
  BY <1>0 DEF CatalogueTypeOK
<1>5. PICK aborted \in BOOLEAN : aborted = (fetches[f].aborted \/ fetches[f].waiters = {c})
  OBVIOUS
<1>6. fetches'[f] = [fetches[f] EXCEPT !.waiters = fetches[f].waiters \ {c}, !.aborted = aborted]
      /\ \A e \in Clients : e # f => fetches'[e] = fetches[e]
  BY <1>0, <1>3, <1>5 DEF CatalogueTypeOK
<1>7. /\ fetches'[f] \in Fetch /\ fetches'[f].waiters = fetches[f].waiters \ {c}
      /\ fetches'[f].aborted = aborted /\ fetches'[f].state = fetches[f].state
  BY <1>4, <1>6 DEF Fetch
<1>8. fetches' \in [Clients -> Fetch]
  BY <1>0, <1>3, <1>7 DEF CatalogueTypeOK
<1>9. [state |-> "gave_up", on |-> None] \in Call
  BY DEF Call
<1>10. /\ gets' \in [Clients -> Call] /\ gets'[c].state = "gave_up"
       /\ \A d \in Clients : d # c => gets'[d] = gets[d]
  BY <1>0, <1>3, <1>9 DEF CatalogueTypeOK
<1>11. CatalogueTypeOK' /\ CatalogueIsCurrent'
  BY <1>0, <1>3, <1>8, <1>10 DEF CatalogueTypeOK, CatalogueIsCurrent
<1>12. NeededFetches'
  <2> SUFFICES ASSUME ~closed, NEW e \in Clients, Underway(e)'
               PROVE  fetches'[e].aborted <=> fetches'[e].waiters = {}
    BY <1>3 DEF NeededFetches
  <2>1. CASE e # f
    BY <1>0, <1>6, <2>1 DEF NeededFetches, Underway
  <2>2. CASE e = f
    <3>1. Underway(f)
      BY <1>7, <2>2 DEF Underway
    <3>2. ~fetches[f].aborted
      BY <1>0, <1>1, <3>1 DEF NeededFetches
    <3>3. (fetches[f].waiters \ {c} = {}) <=> fetches[f].waiters = {c}
      BY <1>1
    <3>4. aborted <=> fetches[f].waiters = {c}
      BY <1>5, <3>2
    <3> QED BY <1>7, <2>2, <3>3, <3>4
  <2> QED BY <2>1, <2>2
<1>13. Client(c)'
  <2>1. ASSUME NEW e \in Clients PROVE c \notin fetches'[e].waiters
    <3>1. c \in fetches[e].waiters => e = f
      BY <1>0, <1>1 DEF Client
    <3>2. CASE e = f
      BY <1>7, <3>2
    <3>3. CASE e # f
      BY <1>6, <3>1, <3>3
    <3> QED BY <3>2, <3>3
  <2> QED BY <1>10, <2>1 DEF Client
<1>14. ASSUME NEW d \in Clients, d # c PROVE Client(d)'
  <2>1. \A e \in Clients : d \in fetches'[e].waiters <=> d \in fetches[e].waiters
    BY <1>6, <1>7, <1>14
  <2>2. Client(d) /\ gets'[d] = gets[d]
    BY <1>0, <1>10, <1>14
  <2>3. fetches[d].waiters = {} => fetches'[d].waiters = {}
    BY <1>6, <1>7
  <2>4. inflight # d => inflight' # d
    BY <1>0, <1>3
  <2>5. gets[d].state = "waiting" => gets[d].on \in Clients /\ d \in fetches'[gets[d].on].waiters
    BY <2>1, <2>2 DEF Client
  <2>6. \A e \in Clients : d \in fetches'[e].waiters => gets[d].state = "waiting" /\ gets[d].on = e
    BY <2>1, <2>2 DEF Client
  <2> QED BY <2>2, <2>3, <2>4, <2>5, <2>6 DEF Client
<1> QED BY <1>11, <1>12, <1>13, <1>14 DEF CatalogueInv

\* Both invalidations, and the close of the catalogue, which aborts every fetch.
LEMMA CatalogueDropped ==
  ASSUME CatalogueInv, cache' = None, generation' \in Nat,
         UNCHANGED <<seen, inflight, fetches, gets, closed>>
  PROVE  CatalogueInv'
<1>1. CatalogueTypeOK' /\ CatalogueIsCurrent' /\ NeededFetches'
  BY DEF CatalogueInv, CatalogueTypeOK, CatalogueIsCurrent, NeededFetches, Underway
<1>2. ASSUME NEW c \in Clients PROVE Client(c)'
  BY DEF CatalogueInv, Client
<1> QED BY <1>1, <1>2 DEF CatalogueInv

LEMMA CloseCatalogueInv ==
  ASSUME CatalogueInv, CloseCatalogue
  PROVE  CatalogueInv'
<1>0. CatalogueTypeOK /\ \A d \in Clients : Client(d) /\ None \notin Clients
  BY CachesAssumption DEF CatalogueInv
<1>1. /\ closed' = TRUE /\ cache' = None /\ generation' \in {generation + 1, 0} /\ inflight' = None
      /\ fetches' = [f \in Clients |-> [fetches[f] EXCEPT !.aborted = @ \/ fetches[f].state \notin {"none", "settled"}]]
      /\ UNCHANGED <<seen, gets>>
  BY DEF CloseCatalogue
<1>2. ASSUME NEW f \in Clients
      PROVE  fetches'[f] \in Fetch /\ fetches'[f].waiters = fetches[f].waiters
  <2>1. PICK aborted \in BOOLEAN : aborted = (fetches[f].aborted \/ fetches[f].state \notin {"none", "settled"})
    OBVIOUS
  <2>2. fetches[f] \in Fetch /\ fetches'[f] = [fetches[f] EXCEPT !.aborted = aborted]
    BY <1>0, <1>1, <2>1 DEF CatalogueTypeOK
  <2> QED BY <2>2 DEF Fetch
<1>3. CatalogueTypeOK'
  <2>1. fetches' \in [Clients -> Fetch]
    BY <1>1, <1>2
  <2> QED BY <1>0, <1>1, <2>1 DEF CatalogueTypeOK
<1>4. CatalogueIsCurrent' /\ NeededFetches'
  BY <1>1 DEF CatalogueIsCurrent, NeededFetches
<1>5. ASSUME NEW c \in Clients PROVE Client(c)'
  BY <1>0, <1>1, <1>2, SMTT(40) DEF Client
<1> QED BY <1>3, <1>4, <1>5 DEF CatalogueInv

LEMMA CatalogueRests ==
  ASSUME CatalogueInv, UNCHANGED <<generation, catalogue>>
  PROVE  CatalogueInv'
<1>1. CatalogueTypeOK' /\ CatalogueIsCurrent' /\ NeededFetches'
  BY DEF CatalogueInv, CatalogueTypeOK, CatalogueIsCurrent, NeededFetches, Underway, catalogue
<1>2. ASSUME NEW c \in Clients PROVE Client(c)'
  BY DEF CatalogueInv, Client, catalogue
<1> QED BY <1>1, <1>2 DEF CatalogueInv

------------------------------------------------------------------------------
(* The source's agent. *)

\* Creation, its end, close() and forceClose(), whoever comes first.
LEMMA AgentStepsInv ==
  ASSUME AgentInv,
         \/ AgentMade \/ AgentFails \/ AgentClosed \/ ForceClose \/ CloseCatalogue
         \/ \E f \in Clients : Connect(f)
  PROVE  AgentInv'
<1> DEFINE Agents == {"none", "open", "closing", "closed", "destroyed"}
           Makings == {"no", "pending", "closing", "forced"}
<1>0. /\ source \in [closed : BOOLEAN, forced : BOOLEAN, agent : Agents, making : Makings]
      /\ source.forced => /\ source.closed /\ source.agent \notin {"open", "closing"}
                          /\ source.making \in {"no", "forced"}
      /\ source.closed => source.agent # "open" /\ source.making # "pending"
  BY DEF AgentInv
<1>1. CASE AgentMade
  <2>1. PICK agent \in Agents : agent = CASE source.making = "pending" -> "open"
                                          [] source.making = "closing" -> "closing"
                                          [] source.making = "forced" -> "destroyed"
    BY <1>0, <1>1 DEF AgentMade
  <2>2. source' = [source EXCEPT !.making = "no", !.agent = agent]
    BY <1>1, <2>1 DEF AgentMade
  <2>3. /\ agent = "open" => source.making = "pending"
        /\ agent = "closing" => source.making = "closing"
    BY <1>0, <1>1, <2>1 DEF AgentMade
  <2> QED BY <1>0, <2>1, <2>2, <2>3 DEF AgentInv
<1>2. CASE AgentFails
  <2>1. source' = [source EXCEPT !.making = "no"]
    BY <1>2 DEF AgentFails
  <2> QED BY <1>0, <2>1 DEF AgentInv
<1>3. CASE AgentClosed
  <2>1. source' = [source EXCEPT !.agent = "closed"]
    BY <1>3 DEF AgentClosed
  <2> QED BY <1>0, <2>1 DEF AgentInv
<1>4. CASE ForceClose
  BY <1>0, <1>4 DEF ForceClose, SourceForced, AgentInv
<1>5. CASE CloseCatalogue
  <2>1. PICK agent \in Agents, making \in Makings :
          /\ agent = IF source.agent = "open" THEN "closing" ELSE source.agent
          /\ making = IF source.making = "pending" THEN "closing" ELSE source.making
    BY <1>0
  <2>2. source' = [source EXCEPT !.closed = TRUE, !.agent = agent, !.making = making]
    BY <1>5, <2>1 DEF CloseCatalogue, SourceClosed
  <2> QED BY <1>0, <2>1, <2>2 DEF AgentInv
<1>6. ASSUME NEW f \in Clients, Connect(f) PROVE AgentInv'
  <2>1. PICK making \in Makings : making = IF source.agent = "none" THEN "pending" ELSE source.making
    BY <1>0
  <2>2. source' = [source EXCEPT !.making = making] /\ ~source.closed
    BY <1>6, <2>1 DEF Connect
  <2> QED BY <1>0, <2>1, <2>2 DEF AgentInv
<1> QED BY <1>1, <1>2, <1>3, <1>4, <1>5, <1>6

------------------------------------------------------------------------------
(* The caches together. *)

LEMMA CachesInit == Init => CachesInv
<1> SUFFICES ASSUME Init PROVE CachesInv
  OBVIOUS
<1>0. None \notin Actors /\ 1 \in Generations /\ Clients \subseteq Actors
  BY CachesAssumption DEF Actors, Generations
<1>1. DiscoveryTypeOK
  BY <1>0 DEF Init, DiscoveryTypeOK, Lane, Lookup, Ask
<1>2. Joined /\ LaneIsCurrent /\ NeededLookups /\ SingleFlight
  BY <1>0 DEF Init, Joined, LaneIsCurrent, NeededLookups, SingleFlight, Running
<1>3. \A a \in Actors : Waiting(a) /\ Fresh(a)
  BY <1>0 DEF Init, Waiting, Fresh
<1>4. CatalogueTypeOK
  BY <1>0 DEF Init, CatalogueTypeOK, Fetch, FetchStates, Call
<1>5. CatalogueIsCurrent /\ NeededFetches
  BY DEF Init, CatalogueIsCurrent, NeededFetches, Underway
<1>6. \A c \in Clients : Client(c)
  BY <1>0 DEF Init, Client
<1>7. AgentInv
  BY DEF Init, AgentInv
<1> QED BY <1>1, <1>2, <1>3, <1>4, <1>5, <1>6, <1>7 DEF CachesInv, DiscoveryInv, CatalogueInv

\* The fetch asks for its endpoint, and makes its request.
LEMMA FetchWorks ==
  ASSUME CachesInv, NEW f \in Clients,
         \/ Resolve(f) \/ FetchGivesUpDiscovery(f) \/ Connect(f) \/ Connected(f)
  PROVE  CachesInv'
<1>0. DiscoveryInv /\ CatalogueInv /\ AgentInv /\ f \in Actors
  BY DEF CachesInv, Actors
<1>1. CASE Resolve(f)
  <2>1. fetches[f].gen \in Generations
    BY <1>0 DEF CatalogueInv, CatalogueTypeOK, Fetch
  <2>2. DiscoveryInv'
    BY <1>0, <1>1, <2>1, DiscoverInv DEF Resolve
  <2>3. CatalogueInv'
    BY <1>0, <1>1, FetchSteps DEF Resolve, Underway, FetchStates
  <2>4. AgentInv'
    BY <1>0, <1>1 DEF Resolve, AgentInv
  <2> QED BY <2>2, <2>3, <2>4 DEF CachesInv
<1>2. CASE FetchGivesUpDiscovery(f)
  <2>1. DiscoveryInv'
    BY <1>0, <1>2, GiveUpInv DEF FetchGivesUpDiscovery
  <2>2. CatalogueInv'
    BY <1>0, <1>2, CatalogueRests DEF FetchGivesUpDiscovery, GiveUp
  <2>3. AgentInv'
    BY <1>0, <1>2 DEF FetchGivesUpDiscovery, GiveUp, AgentInv
  <2> QED BY <2>1, <2>2, <2>3 DEF CachesInv
<1>3. CASE Connect(f)
  <2>1. PICK state \in FetchStates \ {"none", "settled"} :
          state = IF source.agent = "open" THEN "requesting" ELSE "connecting"
    BY DEF FetchStates
  <2>2. fetches' = [fetches EXCEPT ![f].state = state]
    BY <1>3, <2>1 DEF Connect
  <2>3. CatalogueInv'
    BY <1>0, <1>3, <2>1, <2>2, FetchSteps DEF Connect, Underway
  <2>4. DiscoveryInv'
    BY <1>0, <1>3, DiscoveryRests DEF Connect
  <2>5. AgentInv'
    BY <1>0, <1>3, AgentStepsInv
  <2> QED BY <2>3, <2>4, <2>5 DEF CachesInv
<1>4. CASE Connected(f)
  <2>1. CatalogueInv'
    BY <1>0, <1>4, FetchSteps DEF Connected, Underway, FetchStates
  <2>2. DiscoveryInv'
    BY <1>0, <1>4, DiscoveryRests DEF Connected
  <2>3. AgentInv'
    BY <1>0, <1>4 DEF Connected, AgentInv
  <2> QED BY <2>1, <2>2, <2>3 DEF CachesInv
<1> QED BY <1>1, <1>2, <1>3, <1>4

\* An agent that cannot be made refuses the fetches that wait for it.
LEMMA AgentFailsInv ==
  ASSUME CatalogueInv, AgentFails
  PROVE  CatalogueInv'
<1>1. fetches' = [f \in Clients |-> IF fetches[f].state = "connecting"
                                    THEN [fetches[f] EXCEPT !.state = "refused"] ELSE fetches[f]]
      /\ UNCHANGED <<generation, cache, seen, inflight, gets, closed>>
  BY DEF AgentFails
<1>2. ASSUME NEW f \in Clients
      PROVE  /\ fetches'[f] \in Fetch /\ fetches'[f].waiters = fetches[f].waiters
             /\ fetches'[f].aborted = fetches[f].aborted
             /\ Underway(f)' => Underway(f)
  <2>1. fetches[f] \in Fetch
    BY DEF CatalogueInv, CatalogueTypeOK
  <2>2. CASE fetches[f].state = "connecting"
    <3>1. fetches'[f] = [fetches[f] EXCEPT !.state = "refused"]
      BY <1>1, <2>2
    <3> QED BY <2>1, <2>2, <3>1 DEF Fetch, FetchStates, Underway
  <2>3. CASE fetches[f].state # "connecting"
    BY <1>1, <2>1, <2>3 DEF Underway
  <2> QED BY <2>2, <2>3
<1>3. fetches' \in [Clients -> Fetch]
  BY <1>1, <1>2
<1> QED BY <1>1, <1>2, <1>3, FetchMoves

LEMMA CachesStep == CachesInv /\ [Next]_vars => CachesInv'
<1> SUFFICES ASSUME CachesInv, [Next]_vars PROVE CachesInv'
  OBVIOUS
<1>0. DiscoveryInv /\ CatalogueInv /\ AgentInv /\ Binders \subseteq Actors /\ Clients \subseteq Actors
  BY DEF CachesInv, Actors
<1>1. ASSUME NEW b \in Binders, Bind(b) PROVE CachesInv'
  <2>1. PICK g \in 1 .. credential : Discover(b, g)
    BY <1>1 DEF Bind
  <2>2. g \in Generations
    BY <1>0, CachesAssumption DEF DiscoveryInv, DiscoveryTypeOK, Generations
  <2>3. DiscoveryInv'
    BY <1>0, <1>1, <2>1, <2>2, DiscoverInv DEF Bind
  <2> QED BY <1>0, <1>1, <2>3, CatalogueRests DEF Bind, CachesInv, AgentInv
<1>2. ASSUME NEW b \in Binders, BinderGivesUp(b) PROVE CachesInv'
  <2>1. DiscoveryInv'
    BY <1>0, <1>2, GiveUpInv DEF BinderGivesUp
  <2> QED BY <1>0, <1>2, <2>1, CatalogueRests DEF BinderGivesUp, GiveUp, CachesInv, AgentInv
<1>3. ASSUME NEW o \in Actors, LookupAnswers(o) \/ LookupFails(o) PROVE CachesInv'
  <2>1. DiscoveryInv'
    BY <1>0, <1>3, LookupEndsInv
  <2>2. UNCHANGED <<generation, catalogue, source>>
    BY <1>3 DEF LookupAnswers, LookupFails, LookupEnds
  <2> QED BY <1>0, <2>1, <2>2, CatalogueRests DEF CachesInv, AgentInv
<1>4. ASSUME NEW c \in Clients, Get(c) PROVE CachesInv'
  <2>1. CatalogueInv'
    BY <1>0, <1>4, GetInv DEF DiscoveryInv, DiscoveryTypeOK
  <2>2. UNCHANGED <<credential, epoch, discovery, source>>
    BY <1>4 DEF Get
  <2> QED BY <1>0, <2>1, <2>2, DiscoveryRests DEF CachesInv, AgentInv
<1>5. ASSUME NEW c \in Clients, ClientGivesUp(c) PROVE CachesInv'
  <2>1. CatalogueInv'
    BY <1>0, <1>5, ClientGivesUpInv
  <2>2. UNCHANGED <<credential, epoch, discovery, source>>
    BY <1>5 DEF ClientGivesUp
  <2> QED BY <1>0, <2>1, <2>2, DiscoveryRests DEF CachesInv, AgentInv
<1>6. ASSUME NEW f \in Clients, FetchSucceeds(f) \/ FetchFails(f) PROVE CachesInv'
  <2>1. CatalogueInv'
    BY <1>0, <1>6, FetchEndsInv
  <2>2. UNCHANGED <<credential, epoch, discovery, source>>
    BY <1>6 DEF FetchSucceeds, FetchFails, FetchEnds
  <2> QED BY <1>0, <2>1, <2>2, DiscoveryRests DEF CachesInv, AgentInv
<1>7. CASE Invalidate
  <2>1. generation' \in Nat /\ cache' = None /\ UNCHANGED <<seen, inflight, fetches, gets, closed, source>>
    BY <1>0, <1>7 DEF Invalidate, CatalogueInv, CatalogueTypeOK
  <2> QED BY <1>0, <1>7, <2>1, InvalidateInv, CatalogueDropped DEF CachesInv, AgentInv
<1>8. CASE InvalidateCatalogue
  <2>1. /\ generation' \in Nat /\ cache' = None
        /\ UNCHANGED <<credential, epoch, discovery, seen, inflight, fetches, gets, closed, source>>
    BY <1>0, <1>8 DEF InvalidateCatalogue, CatalogueInv, CatalogueTypeOK
  <2> QED BY <1>0, <2>1, DiscoveryRests, CatalogueDropped DEF CachesInv, AgentInv
<1>9. CASE NewCredential
  <2>1. UNCHANGED <<generation, catalogue, source>>
    BY <1>9 DEF NewCredential
  <2> QED BY <1>0, <1>9, <2>1, NewCredentialInv, CatalogueRests DEF CachesInv, AgentInv
<1>10. CASE AgentMade \/ AgentClosed
  <2>1. UNCHANGED <<credential, epoch, discovery, generation, catalogue>>
    BY <1>10 DEF AgentMade, AgentClosed
  <2> QED BY <1>0, <1>10, <2>1, AgentStepsInv, DiscoveryRests, CatalogueRests DEF CachesInv
<1>11. CASE AgentFails
  <2>1. UNCHANGED <<credential, epoch, discovery>>
    BY <1>11 DEF AgentFails
  <2> QED BY <1>0, <1>11, <2>1, AgentStepsInv, DiscoveryRests, AgentFailsInv DEF CachesInv
<1>12. CASE CloseCatalogue
  <2>1. UNCHANGED <<credential, epoch, discovery>>
    BY <1>12 DEF CloseCatalogue
  <2> QED BY <1>0, <1>12, <2>1, AgentStepsInv, DiscoveryRests, CloseCatalogueInv DEF CachesInv
<1>13. CASE CloseDiscovery
  <2>1. ShutDiscovery /\ UNCHANGED <<credential, epoch, generation, catalogue, source>>
    BY <1>13 DEF CloseDiscovery
  <2> QED BY <1>0, <2>1, ShutInv, CatalogueRests DEF CachesInv, AgentInv
<1>14. CASE ForceClose
  <2>1. ShutDiscovery /\ UNCHANGED <<credential, epoch, generation, catalogue>>
    BY <1>14 DEF ForceClose
  <2> QED BY <1>0, <1>14, <2>1, AgentStepsInv, ShutInv, CatalogueRests DEF CachesInv
<1>15. CASE UNCHANGED vars
  BY <1>0, <1>15, DiscoveryRests, CatalogueRests DEF vars, CachesInv, AgentInv
<1> QED BY <1>1, <1>2, <1>3, <1>4, <1>5, <1>6, <1>7, <1>8, <1>9, <1>10, <1>11, <1>12, <1>13, <1>14, <1>15,
           FetchWorks DEF Next

\* Whatever callers, answers, invalidations, sign-ins and closes come together, the
\* lookups, the fetches and the agent are those that somebody waits for.
THEOREM CachesCorrect == Spec => []CachesInv
<1> QED BY CachesInit, CachesStep, PTL DEF Spec

\* Neither cache ever serves the answer to a question older than the last
\* invalidation or of another credential generation: an endpoint is stored only in
\* the lane that waits for it (endpoint_discovery.ts:132), a catalogue only if both
\* generations are still those of its fetch (model_catalog.ts:151).
THEOREM CachesCurrent == Spec => []CachedIsCurrent
<1>1. CachesInv => CachedIsCurrent
  BY DEF CachesInv, DiscoveryInv, CatalogueInv, LaneIsCurrent, CatalogueIsCurrent, CachedIsCurrent
<1> QED BY <1>1, CachesCorrect, PTL

\* A shared lookup or fetch is aborted when, and only when, its last caller leaves
\* (endpoint_discovery.ts:188, model_catalog.ts:123), two callers of a generation
\* never make two lookups (endpoint_discovery.ts:60), and a source that is closed or
\* forced while its agent is made keeps none of it (models_source.ts:146).
THEOREM SharedWorkReleased == Spec => []SharedWorkIsReleased
<1>1. CachesInv => AbortedForNobody
  BY DEF CachesInv, DiscoveryInv, CatalogueInv, NeededLookups, NeededFetches, Underway, AbortedForNobody
<1>2. CachesInv => SingleFlight
  BY DEF CachesInv, DiscoveryInv
<1>3. CachesInv => NoAgentSurvives
  BY DEF CachesInv, AgentInv, NoAgentSurvives
<1>4. CachesInv => SharedWorkIsReleased
  BY <1>1, <1>2, <1>3 DEF SharedWorkIsReleased
<1> QED BY <1>4, CachesCorrect, PTL

================================================================================
