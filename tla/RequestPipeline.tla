-------------------------- MODULE RequestPipeline --------------------------
(***************************************************************************)
(* One inference request after another through the gateway: the handler of *)
(* gateway/hono_app.ts and the endpoints of the three wire protocols, from  *)
(* admission to the answer.  Every await of the code is a step; between two *)
(* of them the client may leave, the total time may run out, the gateway    *)
(* may shut down, and the accounts, their upstreams, the catalogue and the  *)
(* stored history may change.  A stream is followed until it is handed to   *)
(* its owner (module StreamDelivery); what an answer contains is the        *)
(* business of BufferedConversion and StreamConversion.                     *)
(***************************************************************************)
EXTENDS Integers, FiniteSets

CONSTANTS Accounts, Models, Origins,
          Absent,         \* no such thing
          Catalogues,     \* what an account's catalogue may list: functions from Models
          MAX_REQUESTS,   \* bound: requests one after another
          MAX_CHANGES     \* bound: changes of the surroundings

Protocols == {"chat", "messages", "responses"}

\* What a catalogue entry says of a model; a stored response's id, the upstream's own or one the
\* gateway manages; what reasoning carriers are bound to; a receipt; a call of the upstream.
Declaration == [state : {"missing", "malformed"}] \cup [state : {"value"}, value : SUBSET Protocols]
Listing == [listed : BOOLEAN, live : Declaration, builtin : Declaration]
Ids == [kind : {"native", "managed"}, number : Nat]
CarrierBinding == [account : Accounts, model : Models, origin : Origins, source : Protocols, wire : Protocols]
Receipt == [id : Ids, number : Nat, account : Accounts, model : Models, origin : Origins,
            protocol : Protocols, complete : BOOLEAN]
Call == [account : Accounts, model : Models, origin : Origins, protocol : Protocols,
         previous : Ids \cup {Absent}]

ASSUME CataloguesAssumption == Catalogues \subseteq [Models -> Listing]
ASSUME AbsentAssumption ==
    /\ Absent \notin Accounts \cup Models \cup Origins \cup Protocols
    /\ Absent \notin Ids /\ Absent \notin CarrierBinding /\ Absent \notin Receipt /\ Absent \notin Call

VARIABLES
    world,    \* default account, each account's upstream, catalogue and preferred model
    store,    \* continuation receipts and reasoning carriers
    issued,   \* history: under which account, model, upstream and protocol each response was made
    req,      \* the request in progress
    served,   \* number of requests begun
    changes   \* number of changes of the surroundings

pipelineVars == <<world, store, issued, req, served, changes>>

(***************************************************************************)
(* The catalogue: a live declaration wins, a malformed one makes the        *)
(* protocols unknown, a missing one falls back to the built-in table.       *)
(***************************************************************************)
EffectiveProtocols(entry) ==
    IF entry.live.state = "value" THEN entry.live.value
    ELSE IF entry.live.state = "missing" /\ entry.builtin.state = "value" THEN entry.builtin.value
    ELSE {"unknown"}

ListedModels(catalogue) == {m \in Models : catalogue[m].listed}

ResolveModel(catalogue, requested, preferred) ==
    IF requested # Absent
    THEN [model |-> requested, failure |-> IF requested \in ListedModels(catalogue) THEN Absent ELSE "model_not_found"]
    ELSE [model |-> preferred, failure |-> IF preferred \in ListedModels(catalogue) THEN Absent ELSE "invalid_request"]

(***************************************************************************)
(* Reasoning carriers: what a token stands for, bound to account, model,    *)
(* upstream and protocols.  Only a completed response's carriers count.     *)
(***************************************************************************)
Binding(account, model, origin, source, wire) ==
    [account |-> account, model |-> model, origin |-> origin, source |-> source, wire |-> wire]

BindingOf(c) == Binding(c.account, c.model, c.origin, c.source, c.wire)

Available(tokens, account, wire) ==
    \A t \in tokens : \E c \in store.carriers :
        c.token = t /\ c.account = account /\ c.wire = wire /\ c.state = "complete"

Bindings(tokens) == {BindingOf(c) : c \in {d \in store.carriers : d.token \in tokens}}

\* claimReasoningCarriers: the one binding all tokens of a body share, or a refusal.
Claim(tokens, account, wire) ==
    IF tokens = {} THEN [failure |-> Absent, binding |-> Absent]
    ELSE IF Available(tokens, account, wire) /\ Cardinality(Bindings(tokens)) = 1
    THEN [failure |-> Absent, binding |-> CHOOSE b \in Bindings(tokens) : TRUE]
    ELSE [failure |-> "invalid_request", binding |-> Absent]

CarriersAfter(carriers, tokens, completed) ==
    {c \in carriers : c.token \notin tokens \/ c.state = "complete"}
        \cup IF completed THEN {[c EXCEPT !.state = "complete"] : c \in {d \in carriers : d.token \in tokens}} ELSE {}

(***************************************************************************)
(* The request.                                                            *)
(***************************************************************************)
FinishedRequest == [at |-> "done", wire |-> Absent, stream |-> FALSE, asked |-> Absent, previous |-> Absent, tokens |-> {},
          work |-> "live", gone |-> FALSE, permit |-> FALSE, timer |-> FALSE,
          account |-> Absent, claim |-> Absent, receipt |-> Absent, requested |-> Absent, preferred |-> Absent,
          protocols |-> {}, model |-> Absent, origin |-> Absent, restored |-> FALSE,
          sent |-> Absent, created |-> {}, terminal |-> Absent, recorded |-> Absent, answer |-> Absent]

PipelineInit ==
    /\ \E first \in Accounts, c \in Catalogues, o \in Origins, m \in Models :
           world = [default |-> first, origin |-> [a \in Accounts |-> o],
                    catalogue |-> [a \in Accounts |-> c], preferred |-> [a \in Accounts |-> m]]
    /\ store = [receipts |-> {}, carriers |-> {}]
    /\ issued = {}
    /\ req = FinishedRequest
    /\ served = 0
    /\ changes = 0

Arrive(wire, stream, asked, previous, tokens) ==
    /\ req.at = "done" /\ served < MAX_REQUESTS
    /\ previous = Absent \/ wire = "responses"
    /\ previous = Absent \/ \E i \in issued : i.id = previous
    /\ \A t \in tokens : \E i \in issued : i.number = t
    /\ served' = served + 1
    /\ req' = [FinishedRequest EXCEPT !.at = "admission", !.wire = wire, !.stream = stream, !.asked = asked,
                            !.previous = previous, !.tokens = tokens]
    /\ UNCHANGED <<world, store, issued, changes>>

(***************************************************************************)
(* Outcomes and answers.                                                   *)
(***************************************************************************)
FAILURE_POLICY == [
    invalid_request |-> "client_error", body_too_large |-> "client_error", unsupported_media_type |-> "client_error",
    unsupported_semantics |-> "client_error", model_not_found |-> "client_error",
    continuation_conflict |-> "client_error", continuation_unavailable |-> "client_error",
    authentication |-> "authentication_error", queue_full |-> "overloaded", queue_timeout |-> "overloaded",
    continuation_persistence |-> "internal_error", internal |-> "internal_error",
    upstream_timeout |-> "timeout", upstream_network |-> "upstream_error", upstream_http |-> "upstream_error",
    invalid_upstream_response |-> "upstream_error", aborted |-> "aborted"]

FailureKinds == DOMAIN FAILURE_POLICY
Outcomes == {"success"} \cup {FAILURE_POLICY[kind] : kind \in FailureKinds}
Answers == {"body", "stream", "empty"} \cup FailureKinds

ASSUME NoAnswerAssumption == Absent \notin Outcomes \cup Answers \cup {"completed", "incomplete"}

\* Defect: a later outcome replaces the recorded one.
Record_Latest(r, outcome) == [r EXCEPT !.recorded = outcome]

\* The attempt's finish: the first outcome claimed is the one recorded.
Record(r, outcome) == IF r.recorded = Absent THEN [r EXCEPT !.recorded = outcome] ELSE r

\* A request without a body to deliver is cleaned up at once, the others when it is delivered.
Cleaned(r) == [FinishedRequest EXCEPT !.recorded = r.recorded, !.answer = r.answer]

Answered(r, answer) ==
    IF answer = "empty" THEN Cleaned([r EXCEPT !.answer = answer])
    ELSE [FinishedRequest EXCEPT !.at = "answering", !.answer = answer, !.recorded = r.recorded,
                       !.work = r.work, !.gone = r.gone, !.permit = r.permit, !.timer = r.timer]

SignalFailure(r) == IF r.work = "timeout" THEN "upstream_timeout" ELSE "aborted"

\* The catch of handleRoute.
Caught(r, kind) ==
    IF r.work = "timeout" /\ ~r.gone
    THEN Answered(Record(r, FAILURE_POLICY.upstream_timeout), "upstream_timeout")
    ELSE Answered(Record(r, FAILURE_POLICY[kind]),
                  IF r.gone \/ (kind = "aborted" /\ r.work # "live") THEN "empty" ELSE kind)

\* Defect: the carriers made before the failure stay.
Thrown_KeepsCarriers(kind) ==
    /\ req' = Caught(req, kind)
    /\ UNCHANGED store

\* An endpoint that fails after it made carriers discards those still partial.
Thrown(kind) ==
    /\ req' = Caught(req, kind)
    /\ store' = [store EXCEPT !.carriers = CarriersAfter(@, req.created, FALSE)]

\* The endpoint has returned an answer; a request aborted meanwhile does not deliver it.
Returned(r, outcome, answer) ==
    LET recorded == IF outcome = Absent THEN r ELSE Record(r, outcome)
    IN IF r.work = "live" THEN Answered(recorded, answer)
       ELSE IF r.work = "timeout" /\ ~r.gone
       THEN Answered(Record(recorded, FAILURE_POLICY.upstream_timeout), "upstream_timeout")
       ELSE Answered(recorded, "empty")

(***************************************************************************)
(* The steps.                                                              *)
(***************************************************************************)
AwaitFails(at, kinds) ==
    /\ req.at = at
    /\ \E kind \in kinds \cup IF req.work = "live" THEN {} ELSE {SignalFailure(req)} : Thrown(kind)
    /\ UNCHANGED <<world, issued, served, changes>>

Proceed(r) == req' = r /\ UNCHANGED <<world, store, issued, served, changes>>

FailWith(kind) == Thrown(kind) /\ UNCHANGED <<world, issued, served, changes>>

Refused == AwaitFails("admission", {"queue_full", "queue_timeout", "invalid_request"})

Admitted ==
    /\ req.at = "admission"
    /\ Proceed([req EXCEPT !.at = "body", !.permit = TRUE, !.timer = TRUE])

BodyRefused == AwaitFails("body", {"unsupported_media_type", "body_too_large", "invalid_request"})

BodyRead ==
    /\ req.at = "body"
    /\ req.work = "live"
    /\ Proceed([req EXCEPT !.at = "account"])

AccountUnbound == AwaitFails("account", {"authentication", "internal"})

\* The account is bound and, in the same turn, the carriers of the body are claimed for it.
Bind(wire, next) ==
    /\ req.at = "account" /\ req.wire = wire
    /\ LET claim == Claim(req.tokens, world.default, wire)
           requested == IF claim.binding = Absent THEN req.asked ELSE claim.binding.model
       IN IF world.default = Absent THEN FailWith("authentication")
          ELSE IF claim.failure # Absent THEN FailWith(claim.failure)
          ELSE IF claim.binding # Absent /\ req.asked \notin {Absent, claim.binding.model} THEN FailWith("invalid_request")
          ELSE Proceed([req EXCEPT !.account = world.default, !.claim = claim.binding, !.requested = requested,
                                   !.preferred = IF requested = Absent THEN world.preferred[world.default] ELSE Absent,
                                   !.at = next])

BindChat == Bind("chat", "catalogue")

BindMessages == Bind("messages", "catalogue")

BindResponses == Bind("responses", "continuation")

ContinuationFails == AwaitFails("continuation", {"continuation_persistence"})

\* resolveResponsesContinuation, ownedContinuationReceipt and continuationModel.
ResolveContinuation ==
    /\ req.at = "continuation"
    /\ LET owned == {r \in store.receipts : r.account = req.account /\ r.id = req.previous}
           receipt == IF owned = {} THEN Absent ELSE CHOOSE r \in owned : TRUE
           requested == IF receipt = Absent THEN req.requested ELSE receipt.model
       IN IF receipt # Absent /\ req.requested \notin {Absent, receipt.model} THEN FailWith("continuation_conflict")
          ELSE Proceed([req EXCEPT !.receipt = receipt, !.requested = requested,
                                   !.preferred = world.preferred[req.account], !.at = "catalogue"])

CatalogueFails == AwaitFails("catalogue", {"authentication", "upstream_http", "upstream_network", "internal"})

Resolved(wire, failed(_)) ==
    /\ req.at = "catalogue" /\ req.wire = wire
    /\ LET catalogue == world.catalogue[req.account]
           resolved == ResolveModel(catalogue, req.requested, req.preferred)
       IN IF resolved.failure # Absent THEN FailWith(failed(resolved.failure))
          ELSE Proceed([req EXCEPT !.model = resolved.model, !.at = "copilot",
                                   !.protocols = EffectiveProtocols(catalogue[resolved.model])])

ResolveChat == Resolved("chat", LAMBDA failure : failure)

ResolveMessages == Resolved("messages", LAMBDA failure : failure)

\* A continuation whose model is gone is a conflict.
ResolveResponses ==
    Resolved("responses", LAMBDA failure : IF req.receipt = Absent THEN failure ELSE "continuation_conflict")

CopilotFails == AwaitFails("copilot", {"authentication", "upstream_network", "internal"}
                                      \cup IF req.wire = "chat" THEN {"upstream_timeout"} ELSE {})

\* Defect: the upstream of the receipt is not compared.
ContinuationTarget_AnyOrigin(receipt, origin, protocols) ==
    receipt = Absent \/ "unknown" \in protocols \/ receipt.protocol \in protocols

\* The receipt's upstream and protocol must be those the request is now bound to.
ContinuationTarget(receipt, origin, protocols) ==
    \/ receipt = Absent
    \/ receipt.origin = origin /\ ("unknown" \in protocols \/ receipt.protocol \in protocols)

\* Responses also checks the continuation; one that was converted needs its history.
BindCopilot ==
    /\ req.at = "copilot"
    /\ LET origin == world.origin[req.account]
       IN IF ~ContinuationTarget(req.receipt, origin, req.protocols) THEN FailWith("continuation_conflict")
          ELSE Proceed([req EXCEPT !.origin = origin,
                            !.at = IF req.receipt # Absent /\ req.receipt.protocol # "responses" THEN "history" ELSE "plan"])

HistoryFails == AwaitFails("history", {"continuation_persistence"})

\* enrich(): the items of the previous response, its carriers among them, join the body; what
\* cannot be restored is left out.
RestoreHistory ==
    /\ req.at = "history"
    /\ \/ /\ req.receipt \in store.receipts /\ req.receipt.complete
          /\ Proceed([req EXCEPT !.restored = TRUE, !.at = "plan",
                          !.tokens = @ \cup {c.token : c \in {d \in store.carriers : d.token = req.receipt.number}}])
       \/ Proceed([req EXCEPT !.at = "plan"])

CarrierContinuation(first, second, receipt) ==
    LET claim == IF second = Absent THEN first ELSE second
    IN claim = Absent \/ ( /\ (first = Absent \/ second = Absent \/ first = second)
                         /\ (receipt = Absent \/ ( /\ receipt.model = claim.model
                                                 /\ receipt.origin = claim.origin
                                                 /\ receipt.protocol = claim.source )) )

ForcedTarget(receipt, claim) ==
    IF receipt # Absent THEN receipt.protocol ELSE IF claim # Absent THEN claim.source ELSE Absent

PlansNative(protocols, wire, forced) == wire \in protocols /\ forced \in {Absent, wire}

Candidates(protocols, wire, forced) ==
    IF forced # Absent THEN {forced} \cap protocols ELSE protocols \ {"unknown"}

\* A gateway-managed id, and any id a converted request carries, is not sent on.
ForwardedId(previous, receipt, native) ==
    IF native /\ previous # Absent /\ (receipt # Absent \/ previous.kind = "native") THEN previous ELSE Absent

\* Everything between binding the upstream (or restoring the history) and calling it: the carriers
\* must be bound to what the request is now bound to, and the planner finds a protocol or refuses.
Planned(claim, previous) ==
    LET forced == ForcedTarget(req.receipt, claim)
        bound == IF claim = Absent THEN Absent
                 ELSE Binding(req.account, req.model, req.origin, claim.source, req.wire)
        native == PlansNative(req.protocols, req.wire, forced)
        sent(target) == [account |-> req.account, model |-> req.model, origin |-> req.origin, protocol |-> target,
                         previous |-> ForwardedId(previous, req.receipt, native)]
    IN IF claim # bound THEN FailWith("invalid_request")
       ELSE \/ FailWith("unsupported_semantics")
            \/ \E target \in IF native THEN {req.wire} ELSE Candidates(req.protocols, req.wire, forced) :
                   Proceed([req EXCEPT !.sent = sent(target), !.at = "upstream"])

\* Chat and Messages: the claim made when the account was bound is looked up again.
Replan(wire) ==
    /\ req.at = "plan" /\ req.wire = wire
    /\ LET again == Claim(req.tokens, req.account, wire)
       IN IF again.failure # Absent THEN FailWith(again.failure) ELSE Planned(req.claim, Absent)

PlanChat == Replan("chat")

PlanMessages == Replan("messages")

\* Responses: the restored body is claimed anew.
PlanResponses ==
    /\ req.at = "plan" /\ req.wire = "responses"
    /\ LET second == Claim(req.tokens, req.account, "responses")
           converted == req.receipt # Absent /\ req.receipt.protocol # "responses"
       IN IF second.failure # Absent THEN FailWith(second.failure)
          ELSE IF ~CarrierContinuation(req.claim, second.binding, req.receipt) THEN FailWith("continuation_conflict")
          ELSE Planned(second.binding, IF converted THEN Absent ELSE req.previous)

UpstreamFails == AwaitFails("upstream", {"upstream_http", "upstream_network", "upstream_timeout", "invalid_upstream_response"})

Native == req.sent.protocol = req.wire

\* A stream is handed to its owner with its first bytes read.
Opened(wire, native) ==
    /\ req.at = "upstream" /\ req.stream /\ req.wire = wire /\ native = Native
    /\ Proceed(Returned(req, Absent, "stream"))

OpenChat == Opened("chat", TRUE)

OpenMessages == Opened("messages", TRUE)

OpenResponses == Opened("responses", TRUE)

OpenConvertedChat == Opened("chat", FALSE)

OpenConvertedMessages == Opened("messages", FALSE)

OpenConvertedResponses == Opened("responses", FALSE)

\* What the request made: an id the gateway manages when it converted, the upstream's own otherwise.
Identified ==
    [id |-> [kind |-> IF Native THEN "native" ELSE "managed", number |-> served], number |-> served,
     account |-> req.account, model |-> req.model, origin |-> req.origin, protocol |-> req.sent.protocol]

\* Reasoning is carried by the gateway only where the protocols differ, and in a completed call.
Carries == "responses" \in {req.wire, req.sent.protocol}

\* A native body is passed on as it is.
PassedOn(wire, outcomes) ==
    /\ req.at = "upstream" /\ ~req.stream /\ Native /\ req.wire = wire
    /\ \E outcome \in outcomes : Proceed(Returned(req, outcome, "body"))

NativeChat == PassedOn("chat", {"success"})

NativeMessages == PassedOn("messages", {"success"})

\* A Responses body says itself whether the response failed.
NativeOutcomes == {"success", "upstream_error"}

\* A native Responses body leaves a receipt if it names itself.
NativeResponses(named) ==
    IF ~named THEN PassedOn("responses", NativeOutcomes)
    ELSE /\ req.at = "upstream" /\ ~req.stream /\ Native /\ req.wire = "responses"
         /\ issued' = issued \cup {Identified}
         /\ req' = [req EXCEPT !.at = "checkpoint", !.terminal = "completed"]
         /\ UNCHANGED <<world, store, served, changes>>

Made(carried) ==
    IF carried
    THEN {[token |-> served, account |-> req.account, model |-> req.model, origin |-> req.origin,
           source |-> req.sent.protocol, wire |-> req.wire, state |-> "partial"]} ELSE {}

\* Any other buffered answer is converted in the turn it arrives, and its carriers are created
\* there; outside Responses they are promoted or discarded there too.
Converts(wire, completed, carried) ==
    /\ req.at = "upstream" /\ ~req.stream /\ ~Native /\ req.wire = wire
    /\ carried => Carries /\ completed
    /\ issued' = issued \cup {Identified}
    /\ req' = Returned(req, "success", "body")
    /\ store' = [store EXCEPT !.carriers = CarriersAfter(@ \cup Made(carried), {c.token : c \in Made(carried)}, completed)]
    /\ UNCHANGED <<world, served, changes>>

ConvertChat(completed, carried) == Converts("chat", completed, carried)

ConvertMessages(completed, carried) == Converts("messages", completed, carried)

ConvertResponses(completed, carried) ==
    /\ req.at = "upstream" /\ ~req.stream /\ ~Native /\ req.wire = "responses"
    /\ carried => Carries /\ completed
    /\ issued' = issued \cup {Identified}
    /\ req' = [req EXCEPT !.at = "checkpoint", !.created = {c.token : c \in Made(carried)},
                          !.terminal = IF completed THEN "completed" ELSE "incomplete"]
    /\ store' = [store EXCEPT !.carriers = @ \cup Made(carried)]
    /\ UNCHANGED <<world, served, changes>>

CheckpointFails == AwaitFails("checkpoint", {"continuation_persistence", "continuation_conflict"})

\* The checkpoint and the promotion of the carriers it names are one transaction.
PersistCheckpoint ==
    /\ req.at = "checkpoint"
    /\ \A t \in req.created : \E c \in store.carriers : c.token = t
    /\ LET completed == req.terminal = "completed"
           receipt == [id |-> Identified.id, number |-> served, account |-> req.account, model |-> req.model,
                       origin |-> req.origin, protocol |-> req.sent.protocol, complete |-> completed]
       IN store' = [receipts |-> store.receipts \cup {receipt},
                    carriers |-> CarriersAfter(store.carriers, req.created, completed)]
    /\ \E outcome \in IF Native THEN NativeOutcomes ELSE {"success"} :
           req' = Returned(req, outcome, "body")
    /\ UNCHANGED <<world, issued, served, changes>>

BodyDelivered ==
    /\ req.at = "answering"
    /\ Proceed(Cleaned(req))

(***************************************************************************)
(* Interruptions.                                                          *)
(***************************************************************************)
ClientLeaves ==
    /\ req.at # "done" /\ ~req.gone
    /\ Proceed([Record(req, FAILURE_POLICY.aborted) EXCEPT !.gone = TRUE, !.work = IF @ = "live" THEN "aborted" ELSE @])

TotalTimeout ==
    /\ req.timer /\ req.work = "live"
    /\ Proceed([Record(req, FAILURE_POLICY.upstream_timeout) EXCEPT !.work = "timeout"])

Shutdown ==
    /\ req.at # "done" /\ req.work = "live"
    /\ Proceed([Record(req, FAILURE_POLICY.aborted) EXCEPT !.work = "aborted"])

(***************************************************************************)
(* The surroundings.                                                       *)
(***************************************************************************)
Change(w, s) ==
    /\ changes < MAX_CHANGES
    /\ changes' = changes + 1
    /\ world' = w /\ store' = s
    /\ UNCHANGED <<issued, req, served>>

UseAccount(a) == a # world.default /\ Change([world EXCEPT !.default = a], store)

MoveUpstream(a, o) == o # world.origin[a] /\ Change([world EXCEPT !.origin[a] = o], store)

RelistModels(a, c) == c # world.catalogue[a] /\ Change([world EXCEPT !.catalogue[a] = c], store)

PreferModel(a, m) == m # world.preferred[a] /\ Change([world EXCEPT !.preferred[a] = m], store)

ForgetHistory(a) ==
    Change(world, [receipts |-> {r \in store.receipts : r.account # a}, carriers |-> {c \in store.carriers : c.account # a}])

Interruption == ClientLeaves \/ TotalTimeout \/ Shutdown

Surroundings ==
    \/ \E a \in Accounts \cup {Absent} : UseAccount(a)
    \/ \E a \in Accounts, o \in Origins : MoveUpstream(a, o)
    \/ \E a \in Accounts, c \in Catalogues : RelistModels(a, c)
    \/ \E a \in Accounts, m \in Models : PreferModel(a, m)
    \/ \E a \in Accounts : ForgetHistory(a)

Endpoint ==
    \/ BindChat \/ BindMessages \/ BindResponses \/ AccountUnbound \/ ResolveContinuation \/ ContinuationFails
    \/ ResolveChat \/ ResolveMessages \/ ResolveResponses \/ CatalogueFails
    \/ BindCopilot \/ CopilotFails \/ RestoreHistory \/ HistoryFails
    \/ PlanChat \/ PlanMessages \/ PlanResponses \/ UpstreamFails
    \/ OpenChat \/ OpenMessages \/ OpenResponses
    \/ OpenConvertedChat \/ OpenConvertedMessages \/ OpenConvertedResponses
    \/ NativeChat \/ NativeMessages \/ (\E named \in BOOLEAN : NativeResponses(named))
    \/ (\E completed, carried \in BOOLEAN :
           ConvertChat(completed, carried) \/ ConvertMessages(completed, carried) \/ ConvertResponses(completed, carried))
    \/ PersistCheckpoint \/ CheckpointFails

PipelineNext ==
    \/ \E wire \in Protocols, stream \in BOOLEAN, asked \in Models \cup {Absent},
          previous \in {i.id : i \in issued} \cup {Absent}, tokens \in SUBSET {i.number : i \in issued} :
              Arrive(wire, stream, asked, previous, tokens)
    \/ Admitted \/ Refused \/ BodyRead \/ BodyRefused \/ Endpoint \/ BodyDelivered
    \/ Interruption \/ Surroundings

PipelineSpec == PipelineInit /\ [][PipelineNext]_pipelineVars

(***************************************************************************)
(* Properties.                                                             *)
(***************************************************************************)

\* Whatever earlier response a request builds on was made under the account, the model, the
\* upstream and the protocol it is now sent to: restored history (openai_responses/endpoint.ts
\* 193-206) and reasoning carriers (reasoning_carrier_preflight.ts 47-60) never cross over, however
\* the default account, the upstreams, the catalogue and the history change while it is prepared;
\* and an id of the gateway's own making is never sent upstream (continuation.ts 102-111).
BuildsOnItsOwn ==
    req.sent # Absent =>
        /\ \A i \in issued : (i.number \in req.tokens \/ (req.restored /\ i.id = req.previous)) =>
               /\ i.account = req.sent.account /\ i.model = req.sent.model
               /\ i.origin = req.sent.origin /\ i.protocol = req.sent.protocol
        /\ req.sent.previous # Absent => req.sent.previous.kind = "native" /\ req.sent.protocol = "responses"

\* What telemetry records is what the client was told: a body is recorded as the outcome it
\* carries and a failure under its own outcome, whatever races the request; the one exception is
\* a request cut off by a shutdown or by its client while a failure was on its way
\* (hono_app.ts 345-371, request_attempt.ts 71-98).
AnswerMatchesRecord ==
    /\ req.answer = "body" => req.recorded \in {"success", "upstream_error"}
    /\ req.recorded = "success" => req.answer = "body"
    /\ req.answer \in DOMAIN FAILURE_POLICY => req.recorded \in {FAILURE_POLICY[req.answer], "aborted"}

\* A request that is over holds nothing: its permit and its timer are gone, and every reasoning
\* carrier left in the store is complete, so that none waits for a request that will not come back
\* (hono_app.ts 253-264, openai_responses/endpoint.ts 379-397).
NothingLeftBehind ==
    req.at = "done" => /\ ~req.permit /\ ~req.timer
                       /\ \A c \in store.carriers : c.state = "complete"
=============================================================================
