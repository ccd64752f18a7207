----------------------------- MODULE StreamDelivery -----------------------------
(***************************************************************************)
(* One streaming request from the endpoint to the client: the execution    *)
(* owner (gateway/stream_execution_owner.ts), the response writer with its *)
(* one-chunk lookahead (gateway/stream_response.ts), and the delivery      *)
(* adapter and cleanup of handleRoute (gateway/hono_app.ts).               *)
(*                                                                         *)
(* Actors: the handler, which awaits the endpoint and attaches the adapter;*)
(* the producer, which moves emissions of the upstream into the writer; the*)
(* barrier, the asynchronous tail that the first call of finish() starts;  *)
(* the adapter, which reads the writer's stream for the client; and the    *)
(* client, the total timer and the shutdown, which may interrupt anywhere. *)
(* An action is what the code runs between two awaits.                     *)
(***************************************************************************)
EXTENDS Naturals, Sequences

CONSTANTS MaxWires          \* bound on the wire emissions of the upstream
ASSUME MaxWiresAssumption == MaxWires \in Nat \ {0}

VARIABLES
  handler,     \* where handleRoute is
  work,        \* workController: "live" or the reason of its abort
  aborted,     \* deliveryController.signal.aborted
  client,      \* "there", or "gone" once it cancelled or disconnected
  owner,       \* [state, cause] of the execution
  barrier,     \* the step of finish()'s barrier, "none" before finish()
  writerMode,  \* how the barrier leaves the writer: "close" or "abort"
  stream,      \* the writer's ReadableStream; "none" before it exists
  lookahead,   \* a chunk is held in the writer for the next pull
  pulls,       \* the writer's outstandingPulls
  producer,    \* where produce() is
  adapter,     \* the delivery adapter's pull, "none" before it is attached
  first,       \* firstDelivered
  settled,     \* deliverySettled
  emitted,     \* wire emissions taken from the upstream
  sent,        \* chunks enqueued for the client
  observed,    \* the results given to onTerminal, in order
  upstream,    \* is the upstream response still open?
  cleaned      \* handleRoute's cleanup ran: the permit is released

streamVars == <<handler, work, aborted, client, owner, barrier, writerMode, stream,
          lookahead, pulls, producer, adapter, first, settled, emitted, sent,
          observed, upstream, cleaned>>

ownerVars == <<owner, barrier, writerMode, observed>>
writerVars == <<stream, lookahead, pulls>>
signalVars == <<work, aborted, client>>

FailureCauses == {"precommit_failure", "postcommit_failure", "client_cancel",
  "request_abort", "total_timeout", "first_byte_timeout", "idle_timeout", "shutdown"}
Causes == FailureCauses \cup {"none", "semantic_success"}

FlagsOK == {lookahead, first, settled, upstream, cleaned, aborted} \subseteq BOOLEAN

StreamTypeOK ==
  /\ FlagsOK
  /\ handler \in {"endpoint", "creating", "created", "throwing", "dropping",
                  "failure_body", "attached", "returned"}
  /\ work \in {"live", "client", "timeout", "gateway"}
  /\ client \in {"there", "gone"}
  /\ owner \in [state : {"none", "precommit", "committed", "terminating", "completed"},
                cause : Causes]
  /\ barrier \in {"none", "finalize", "cleanup", "join", "deliver", "done"}
  /\ writerMode \in {"close", "abort"}
  /\ stream \in {"none", "open", "closed", "errored"}
  /\ pulls \in 0..1
  /\ producer \in {"off", "offer", "lookahead", "first", "next", "done"}
  /\ adapter \in {"none", "idle", "reading", "got", "closing", "closed"}
  /\ emitted \in 0..MaxWires /\ sent \in 0..emitted
  /\ observed \in Seq({"success", "failure"})

StreamInit ==
  /\ handler = "endpoint" /\ work = "live" /\ aborted = FALSE /\ client = "there"
  /\ owner = [state |-> "none", cause |-> "none"]
  /\ barrier = "none" /\ writerMode = "abort" /\ observed = <<>>
  /\ stream = "none" /\ lookahead = FALSE /\ pulls = 0
  /\ producer = "off" /\ adapter = "none"
  /\ first = FALSE /\ settled = FALSE /\ emitted = 0 /\ sent = 0
  /\ upstream = TRUE /\ cleaned = FALSE

Claimed == adapter # "none"
Running == owner.state # "none"

------------------------------------------------------------------------------
(* finish(), the synchronous part *)

\* finish() decides the outcome only for a running execution without barrier.
Decides == Running /\ barrier = "none"

\* finish(c, failure): the first caller decides; later ones only wait.
OwnerFails(c) ==
  IF Decides
  THEN /\ owner' = [state |-> "terminating", cause |-> c]
       /\ barrier' = "cleanup" /\ writerMode' = "abort"
       /\ observed' = Append(observed, "failure")
  ELSE UNCHANGED ownerVars

\* What such a finish() does to the writer, followed by reader.cancel() if the
\* body is cancelled too: the stream ends and a held chunk is dropped.
WriterEnds(cancelled) ==
  /\ stream' = IF stream # "open" \/ ~(Decides \/ cancelled) THEN stream
               ELSE IF Decides THEN "errored" ELSE "closed"
  /\ lookahead' = (lookahead /\ ~Decides /\ ~cancelled)
  /\ UNCHANGED pulls

\* A producer whose held chunk was dropped is told so and returns.
ProducerTold == producer' = IF producer = "lookahead" /\ ~lookahead' THEN "done" ELSE producer

------------------------------------------------------------------------------
(* The handler *)

\* The endpoint has its upstream and creates the execution.  If the work signal
\* is already aborted the owner finishes at once and throws.
StartOwner ==
  /\ handler = "endpoint"
  /\ IF work = "live"
     THEN /\ owner' = [owner EXCEPT !.state = "precommit"]
          /\ handler' = "creating"
          /\ UNCHANGED <<barrier, writerMode, observed>>
     ELSE /\ owner' = [state |-> "terminating",
                       cause |-> IF work = "timeout" THEN "total_timeout" ELSE "request_abort"]
          /\ barrier' = "cleanup" /\ writerMode' = "abort"
          /\ observed' = Append(observed, "failure")
          /\ handler' = "throwing"
  /\ UNCHANGED <<signalVars, writerVars, producer, adapter, first, settled, emitted,
                 sent, upstream, cleaned>>

\* The first emission is a wire: the writer exists and the producer offers it.
\* An abort may already have started the barrier.
FirstWire ==
  /\ handler = "creating"
  /\ handler' = "created"
  /\ stream' = "open" /\ producer' = "offer" /\ emitted' = 1
  /\ UNCHANGED <<signalVars, ownerVars, lookahead, pulls, adapter, first, settled, sent,
                 upstream, cleaned>>

\* The first emission is late, missing, a terminal, or an error.
FirstFails ==
  /\ handler = "creating"
  /\ handler' = "throwing"
  /\ \E c \in {"precommit_failure", "first_byte_timeout"} : OwnerFails(c)
  /\ UNCHANGED <<signalVars, writerVars, producer, adapter, first, settled, emitted, sent, upstream, cleaned>>

\* The owner has thrown, or its response is dropped.  A client that is gone, and
\* the client of a closing gateway whose failure is the abort itself, gets nothing
\* and the finally block cleans up; the others get a failure response.
HandlerEnds ==
  /\ handler \in {"throwing", "dropping"}
  /\ owner.state = "completed"
  /\ \/ /\ client = "gone" \/ work = "gateway"
        /\ handler' = "returned" /\ cleaned' = TRUE
     \/ /\ client = "there"
        /\ work # "gateway" \/ handler = "throwing"
        /\ handler' = "failure_body" /\ UNCHANGED cleaned
  /\ UNCHANGED <<signalVars, ownerVars, writerVars, producer, adapter, first, settled,
                 emitted, sent, upstream>>

\* The failure response has been read, or its delivery is aborted.
FailureBodyRead ==
  /\ handler = "failure_body" /\ client = "there"
  /\ handler' = "returned" /\ cleaned' = TRUE
  /\ UNCHANGED <<signalVars, ownerVars, writerVars, producer, adapter, first, settled,
                 emitted, sent, upstream>>

FailureBodyAborted ==
  /\ handler = "failure_body" /\ aborted
  /\ handler' = "returned" /\ cleaned' = TRUE
  /\ UNCHANGED <<signalVars, ownerVars, writerVars, producer, adapter, first, settled,
                 emitted, sent, upstream>>

\* The response is there.  The handler looks at the work signal once more and
\* then attaches the adapter, which claims the delivery of the execution.
DropResponse ==
  /\ handler = "created" /\ work # "live"
  /\ handler' = "dropping"
  /\ UNCHANGED <<signalVars, ownerVars, writerVars, producer, adapter, first, settled,
                 emitted, sent, upstream, cleaned>>

Attach ==
  /\ handler = "created" /\ work = "live"
  /\ handler' = "attached" /\ adapter' = "idle"
  /\ settled' = (settled \/ owner.state = "terminating")
  /\ cleaned' = (owner.state = "completed")
  /\ UNCHANGED <<signalVars, ownerVars, writerVars, producer, first, emitted, sent, upstream>>

------------------------------------------------------------------------------
(* The producer *)

AfterAccepted == IF first THEN "next" ELSE "first"

\* Defect: enqueue() returns before the chunk has been pulled.
Offer_NoBackpressure ==
  /\ producer = "offer"
  /\ producer' = IF stream = "open" THEN AfterAccepted ELSE "done"
  /\ lookahead' = (stream = "open")
  /\ UNCHANGED <<handler, signalVars, ownerVars, stream, pulls, adapter, first, settled,
                 emitted, sent, upstream, cleaned>>

\* enqueue(): a closed writer refuses, a pending pull takes the chunk at once,
\* otherwise the chunk waits in the lookahead.
Offer ==
  /\ producer = "offer"
  /\ \/ /\ stream # "open"
        /\ producer' = "done" /\ UNCHANGED <<lookahead, pulls, adapter>>
     \/ /\ stream = "open" /\ pulls > 0
        /\ pulls' = pulls - 1 /\ adapter' = "got" /\ producer' = AfterAccepted
        /\ UNCHANGED lookahead
     \/ /\ stream = "open" /\ pulls = 0
        /\ lookahead' = TRUE /\ producer' = "lookahead" /\ UNCHANGED <<pulls, adapter>>
  /\ UNCHANGED <<handler, signalVars, ownerVars, stream, first, settled, emitted, sent,
                 upstream, cleaned>>

\* The producer waits until the first chunk is with the client, and stops if
\* the execution ended meanwhile.
AwaitFirst ==
  /\ producer = "first" /\ first
  /\ producer' = IF barrier = "none" THEN "next" ELSE "done"
  /\ UNCHANGED <<handler, signalVars, ownerVars, writerVars, adapter, first, settled,
                 emitted, sent, upstream, cleaned>>

NextWire ==
  /\ producer = "next" /\ emitted < MaxWires
  /\ emitted' = emitted + 1 /\ producer' = "offer"
  /\ UNCHANGED <<handler, signalVars, ownerVars, writerVars, adapter, first, settled, sent,
                 upstream, cleaned>>

\* A terminal of success: finish() starts with the host's finalizeSuccess.
NextSuccess ==
  /\ producer = "next"
  /\ producer' = "done"
  /\ IF barrier = "none"
     THEN /\ owner' = [state |-> "terminating", cause |-> "semantic_success"]
          /\ barrier' = "finalize" /\ writerMode' = "close"
     ELSE UNCHANGED <<owner, barrier, writerMode>>
  /\ UNCHANGED <<handler, signalVars, observed, writerVars, adapter, first, settled, emitted,
                 sent, upstream, cleaned>>

\* A terminal of failure whose error event is already on the wire: the writer
\* is closed, not aborted.
NextFailureEvent ==
  /\ producer = "next"
  /\ producer' = "done"
  /\ IF barrier = "none"
     THEN /\ owner' = [state |-> "terminating", cause |-> "postcommit_failure"]
          /\ barrier' = "cleanup" /\ writerMode' = "close"
          /\ observed' = Append(observed, "failure")
     ELSE UNCHANGED ownerVars
  /\ UNCHANGED <<handler, signalVars, writerVars, adapter, first, settled, emitted, sent,
                 upstream, cleaned>>

\* The upstream ends early, fails, or stays silent past the idle deadline.
NextError ==
  /\ producer = "next"
  /\ producer' = "done"
  /\ \E c \in {"postcommit_failure", "idle_timeout"} : OwnerFails(c)
  /\ WriterEnds(FALSE)
  /\ UNCHANGED <<handler, signalVars, adapter, first, settled, emitted, sent, upstream, cleaned>>

------------------------------------------------------------------------------
(* The barrier *)

\* finalizeSuccess stores what the response must leave behind.
FinalizeOk ==
  /\ barrier = "finalize"
  /\ barrier' = "cleanup"
  /\ observed' = Append(observed, "success")
  /\ UNCHANGED <<handler, signalVars, owner, writerMode, writerVars, producer, adapter,
                 first, settled, emitted, sent, upstream, cleaned>>

\* It fails: the success becomes a failure and the writer is aborted.
FinalizeFails ==
  /\ barrier = "finalize"
  /\ owner' = [owner EXCEPT !.cause = "postcommit_failure"]
  /\ barrier' = "cleanup" /\ writerMode' = "abort"
  /\ observed' = Append(observed, "failure")
  /\ stream' = IF stream = "open" THEN "errored" ELSE stream
  /\ lookahead' = FALSE
  /\ ProducerTold
  /\ UNCHANGED <<handler, signalVars, pulls, adapter, first, settled, emitted, sent, upstream, cleaned>>

\* upstream.cancel() and iterator.return(), each within cleanupTimeoutMs.
CleanUpstream ==
  /\ barrier = "cleanup"
  /\ barrier' = "join" /\ upstream' = FALSE
  /\ UNCHANGED <<handler, signalVars, owner, writerMode, observed, writerVars, producer,
                 adapter, first, settled, emitted, sent, cleaned>>

\* The producer is joined, or its time is up; a stream that succeeded is
\* closed; without an adapter there is no delivery to wait for.
JoinProducer ==
  /\ barrier = "join"
  /\ barrier' = "deliver"
  /\ stream' = IF writerMode = "close" /\ stream = "open" THEN "closed" ELSE stream
  /\ settled' = (settled \/ ~Claimed)
  /\ UNCHANGED <<handler, signalVars, owner, writerMode, observed, lookahead, pulls, producer,
                 adapter, first, emitted, sent, upstream, cleaned>>

\* The delivery is settled: the host's finalizer, handleRoute's cleanup, runs.
Complete ==
  /\ barrier = "deliver" /\ settled
  /\ barrier' = "done"
  /\ owner' = [owner EXCEPT !.state = "completed"]
  /\ cleaned' = (cleaned \/ Claimed)
  /\ UNCHANGED <<handler, signalVars, writerMode, observed, writerVars, producer, adapter,
                 first, settled, emitted, sent, upstream>>

------------------------------------------------------------------------------
(* The adapter, and the client that pulls it *)

\* Defect: the lookahead is not cleared when it is delivered.
Pull_KeepsLookahead ==
  /\ adapter = "idle" /\ client = "there" /\ ~aborted /\ stream = "open" /\ lookahead
  /\ adapter' = "got" /\ producer' = AfterAccepted
  /\ UNCHANGED <<handler, signalVars, ownerVars, writerVars, first, settled, emitted, sent,
                 upstream, cleaned>>

\* The client reads: pull() reads the writer's stream, or gives up a delivery
\* that is aborted.
Pull ==
  /\ adapter = "idle" /\ client = "there"
  /\ \/ /\ aborted
        /\ settled' = TRUE /\ adapter' = "closing"
        /\ WriterEnds(TRUE) /\ ProducerTold
     \/ /\ ~aborted /\ stream = "open" /\ lookahead
        /\ lookahead' = FALSE /\ adapter' = "got" /\ producer' = AfterAccepted
        /\ UNCHANGED <<stream, pulls, settled>>
     \/ /\ ~aborted /\ stream = "open" /\ ~lookahead
        /\ pulls' = pulls + 1 /\ adapter' = "reading"
        /\ UNCHANGED <<stream, lookahead, producer, settled>>
     \/ /\ ~aborted /\ stream # "open"
        /\ adapter' = "reading" /\ UNCHANGED <<writerVars, producer, settled>>
  /\ UNCHANGED <<handler, signalVars, ownerVars, first, emitted, sent, upstream, cleaned>>

\* The chunk is enqueued for the client and the delivery marked: the first one
\* commits the execution.
HandOver ==
  /\ adapter = "got"
  /\ adapter' = "idle" /\ sent' = sent + 1 /\ first' = TRUE
  /\ owner' = IF ~first /\ owner.state = "precommit"
              THEN [owner EXCEPT !.state = "committed"] ELSE owner
  /\ UNCHANGED <<handler, signalVars, barrier, writerMode, observed, writerVars, producer,
                 settled, emitted, upstream, cleaned>>

\* Defect: the end of the body does not settle the delivery.
ReadEnds_NoSettle ==
  /\ adapter = "reading" /\ stream # "open"
  /\ adapter' = "closing"
  /\ UNCHANGED <<handler, signalVars, ownerVars, writerVars, producer, first, settled,
                 emitted, sent, upstream, cleaned>>

\* The read finds the stream closed or failed.
ReadEnds ==
  /\ adapter = "reading" /\ stream # "open"
  /\ adapter' = "closing" /\ settled' = TRUE
  /\ UNCHANGED <<handler, signalVars, ownerVars, writerVars, producer, first, emitted, sent,
                 upstream, cleaned>>

\* The client's stream ends once the owner has completed.
AdapterEnds ==
  /\ adapter = "closing" /\ owner.state = "completed"
  /\ adapter' = "closed"
  /\ UNCHANGED <<handler, signalVars, ownerVars, writerVars, producer, first, settled, emitted,
                 sent, upstream, cleaned>>

------------------------------------------------------------------------------
(* Interruptions *)

WorkAborted(reason) == work' = IF work = "live" THEN reason ELSE work

\* The client cancels the response body.
ClientCancel ==
  /\ adapter \in {"idle", "reading", "got"}
  /\ client' = "gone" /\ aborted' = TRUE /\ WorkAborted("client")
  /\ OwnerFails("client_cancel")
  /\ WriterEnds(TRUE) /\ ProducerTold
  /\ settled' = TRUE /\ adapter' = "closing"
  /\ UNCHANGED <<handler, first, emitted, sent, upstream, cleaned>>

\* The request's own signal aborts: the client has disconnected.
RequestAbort ==
  /\ client = "there" /\ ~cleaned
  /\ client' = "gone" /\ aborted' = TRUE /\ WorkAborted("client")
  /\ OwnerFails("request_abort")
  /\ WriterEnds(Claimed) /\ ProducerTold
  /\ settled' = (settled \/ Claimed)
  /\ UNCHANGED <<handler, adapter, first, emitted, sent, upstream, cleaned>>

\* The total timer aborts the work, not the delivery.
TotalTimeout ==
  /\ work = "live" /\ ~cleaned
  /\ work' = "timeout" /\ UNCHANGED <<aborted, client>>
  /\ OwnerFails("total_timeout")
  /\ WriterEnds(FALSE) /\ ProducerTold
  /\ UNCHANGED <<handler, adapter, first, settled, emitted, sent, upstream, cleaned>>

\* closeGateway calls abortForShutdown on every request in flight.
Shutdown ==
  /\ ~cleaned /\ ~aborted
  /\ aborted' = TRUE /\ WorkAborted("gateway") /\ UNCHANGED client
  /\ OwnerFails(IF Claimed THEN "shutdown" ELSE "request_abort")
  /\ WriterEnds(Claimed) /\ ProducerTold
  /\ settled' = (settled \/ Claimed)
  /\ UNCHANGED <<handler, adapter, first, emitted, sent, upstream, cleaned>>

------------------------------------------------------------------------------
HandlerStep == StartOwner \/ FirstWire \/ FirstFails \/ HandlerEnds \/ FailureBodyAborted
               \/ DropResponse \/ Attach
NextEmission == NextWire \/ NextSuccess \/ NextFailureEvent \/ NextError
ProducerStep == Offer \/ AwaitFirst \/ NextEmission
BarrierStep == FinalizeOk \/ FinalizeFails \/ CleanUpstream \/ JoinProducer \/ Complete
AdapterStep == HandOver \/ ReadEnds \/ AdapterEnds
ClientStep == Pull \/ FailureBodyRead
Interruption == ClientCancel \/ RequestAbort \/ TotalTimeout \/ Shutdown

StreamNext == HandlerStep \/ ProducerStep \/ BarrierStep \/ AdapterStep \/ ClientStep \/ Interruption

\* Continuations run; the upstream answers or a deadline does (first byte, idle);
\* every await of the barrier but the delivery is bounded by a timer.
Workers == {"handler", "producer", "barrier", "adapter"}
WorkerStep(w) == CASE w = "handler" -> HandlerStep [] w = "producer" -> ProducerStep
                   [] w = "barrier" -> BarrierStep [] w = "adapter" -> AdapterStep

StreamFairness == \A w \in Workers : WF_streamVars(WorkerStep(w))
\* A client that keeps reading what is there.
ClientFairness == WF_streamVars(ClientStep)

StreamSpec == StreamInit /\ [][StreamNext]_streamVars
------------------------------------------------------------------------------
(* Safety *)

\* However many of the abort, cancel, timeout, shutdown and producer paths call
\* finish(), the host is told one result, a completed execution told it, and it
\* agrees with the cause the owner keeps.
OneOutcome ==
  /\ Len(observed) <= 1
  /\ owner.state = "completed" => Len(observed) = 1
  /\ observed = <<"success">> => owner.cause = "semantic_success" /\ writerMode = "close"
  /\ observed = <<"failure">> => owner.cause \in FailureCauses

\* A request leaves the inflight set, and gives its permit back, only when its
\* execution has completed and the upstream response is closed.
CleanupIsLast ==
  cleaned => \/ owner.state = "completed" /\ ~upstream /\ barrier = "done"
             \/ ~Running

\* The permit of a request whose client is reading is not given back before the
\* body has ended for that client.
DeliveryBeforeCleanup ==
  cleaned /\ handler = "attached" /\ ~aborted => adapter \in {"closing", "closed"}

\* Until the first chunk is with the client the upstream is not read further, so
\* a failure can still be answered with a status of its own.
FirstChunkGate == emitted > 1 \/ owner.state = "committed" => sent > 0

\* No chunk is lost or duplicated on the way: what was taken from the upstream
\* is with the client, in the writer, in a hand, or was dropped by an ending.
NoChunkLost ==
  stream = "open" =>
    emitted = sent + (IF adapter = "got" THEN 1 ELSE 0)
                   + (IF lookahead \/ producer = "offer" THEN 1 ELSE 0)

\* The five together: one outcome, told once, behind everything it depends on.
DeliveryIsSafe == OneOutcome /\ CleanupIsLast /\ DeliveryBeforeCleanup /\ FirstChunkGate /\ NoChunkLost

------------------------------------------------------------------------------
(* Action properties *)

\* The first cause stands: only a success whose finalization fails is replaced.
CauseStable ==
  owner.cause # "none" /\ owner'.cause # owner.cause =>
    /\ owner.cause = "semantic_success" /\ observed = <<>>
    /\ owner'.cause = "postcommit_failure"

\* A response counts as a success only if every chunk has been taken out of the
\* writer and nobody had aborted the delivery before.
SuccessTookEverything ==
  owner.cause = "none" /\ owner'.cause = "semantic_success" =>
    /\ ~lookahead /\ ~aborted /\ work = "live"
    /\ emitted = sent + (IF adapter = "got" THEN 1 ELSE 0)

\* The cause of an ending is decided once, and success only for a whole stream
\* (stream_execution_owner.ts:88, :106, stream_response.ts:74).
CauseIsRight == [][CauseStable /\ SuccessTookEverything]_streamVars

------------------------------------------------------------------------------
(* Liveness *)

\* A client that disconnects does not keep its permit, however the upstream, the
\* host's finalization and the body behave.
GoneIsReleased == client = "gone" ~> cleaned

\* Shutdown ends every request in flight without help from its client.
ShutdownReleases == work = "gateway" ~> cleaned

\* A client that keeps reading gets its response ended and its permit released.
EveryRequestEnds == ClientFairness => <>cleaned

\* No way of ending a request keeps its permit (hono_app.ts:328, :461).
RequestsEnd == GoneIsReleased /\ ShutdownReleases /\ EveryRequestEnds

===============================================================================
