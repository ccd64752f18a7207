------------------------------ MODULE EndingProofs ------------------------------
(***************************************************************************)
(* Proofs about how things end.                                            *)
(*                                                                         *)
(* A streaming request (gateway/stream_execution_owner.ts,                 *)
(* gateway/stream_response.ts, gateway/hono_app.ts): however the endpoint, *)
(* the producer, the barrier, the adapter and the interruptions interleave *)
(* and however many chunks the upstream has, the request ends with one     *)
(* outcome, its cleanup comes last, and no chunk is lost before that.      *)
(*                                                                         *)
(* What /v1/responses remembers (protocols/openai_responses/history.ts):   *)
(* however receipts, checkpoints and carriers end, by expiry, overflow,    *)
(* removal or failure, no recorded response is taken for one that never    *)
(* was, and no carrier outlives the checkpoint that backs it.              *)
(*                                                                         *)
(* Device sign-in (accounts/device_flow.ts): a flow that was told to have  *)
(* ended adds no account, and the flows kept are bounded.                  *)
(*                                                                         *)
(* Gateway.close() (gateway/create_gateway.ts, main.ts): no account        *)
(* operation loses its database, and a close() that returns without an     *)
(* error leaves nothing, for all requests and account operations, and      *)
(* wherever the timer strikes.                                             *)
(***************************************************************************)
EXTENDS StreamDelivery, GatewayShutdown, DeviceFlow, ResponsesHistory, QueueLemmas

------------------------------------------------------------------------------
(* The stream. *)

\* Where the handler is says what exists: the execution, the writer with its
\* producer, and the adapter.
Exists ==
  /\ handler = "endpoint" <=> ~Running
  /\ handler \in {"endpoint", "creating", "throwing"} => stream = "none"
  /\ stream = "none" <=> producer = "off"
  /\ stream = "none" => ~lookahead /\ emitted = 0
  /\ handler \in {"created", "attached"} => stream # "none"
  /\ Claimed <=> handler = "attached"
  /\ ~Claimed => ~first /\ sent = 0 /\ pulls = 0

\* The step of the barrier says what is decided, told and closed.
Decided ==
  /\ barrier = "none" => /\ owner.state \in {"none", "precommit", "committed"}
                         /\ owner.cause = "none" /\ observed = <<>>
  /\ barrier = "finalize" => /\ owner.cause = "semantic_success" /\ observed = <<>>
                             /\ writerMode = "close"
  /\ barrier \in {"finalize", "cleanup", "join", "deliver"} => owner.state = "terminating"
  /\ barrier = "done" => owner.state = "completed"
  /\ barrier \notin {"none", "finalize"} => observed # <<>>
  /\ observed \in {<<>>, <<"success">>, <<"failure">>}
  /\ observed = <<"success">> => owner.cause = "semantic_success" /\ writerMode = "close"
  /\ observed = <<"failure">> => owner.cause \in FailureCauses
  /\ upstream <=> barrier \in {"none", "finalize", "cleanup"}

\* An abort of the work has reached the execution, and before the adapter is
\* there nothing else ends it.
Interrupted ==
  /\ aborted => work # "live"
  /\ work # "live" /\ Running => barrier # "none"
  /\ work = "live" /\ handler \in {"creating", "created"} => barrier = "none"
  /\ handler \in {"failure_body", "returned"} => barrier = "done"

\* The delivery is settled by the end of the body, by an abort, or because nobody
\* claimed it; the barrier ends behind it, and the cleanup behind the barrier.
SettledThenCleaned ==
  /\ settled /\ ~Claimed => barrier \in {"deliver", "done"}
  /\ settled /\ Claimed => aborted \/ adapter \in {"closing", "closed"}
  /\ barrier = "done" => settled
  /\ cleaned => barrier = "done"

\* The producer waits behind the chunk it holds, the adapter behind its pull, and
\* the writer ends only with the execution.
WriterAgrees ==
  /\ lookahead <=> producer = "lookahead"
  /\ lookahead => stream = "open"
  /\ pulls > 0 /\ stream = "open" => adapter = "reading"
  /\ writerMode = "close" => producer = "done"
  /\ stream \in {"closed", "errored"} => barrier # "none"

\* A chunk in the adapter's hand, and one in the writer or the producer's hand.
InHand == (IF adapter = "got" THEN 1 ELSE 0) + (IF lookahead \/ producer = "offer" THEN 1 ELSE 0)

ChunksCounted ==
  /\ sent + InHand <= emitted
  /\ stream = "open" => emitted = sent + InHand
  /\ first => sent > 0
  /\ producer = "next" \/ emitted > 1 \/ owner.state = "committed" => first

StreamInv == /\ StreamTypeOK /\ Exists /\ Decided /\ Interrupted
             /\ SettledThenCleaned /\ WriterAgrees /\ ChunksCounted

------------------------------------------------------------------------------
(* finish() *)

\* A result told to a host that was told nothing is the only one.
LEMMA OneResult ==
  /\ Append(<<>>, "success") = <<"success">> /\ Append(<<>>, "failure") = <<"failure">>
  /\ <<"success">> # <<>> /\ <<"failure">> # <<>> /\ <<"success">> # <<"failure">>
OBVIOUS

LEMMA ResultsTyped ==
  ASSUME NEW o \in {<<>>, <<"success">>, <<"failure">>}
  PROVE  o \in Seq({"success", "failure"}) /\ Len(o) <= 1 /\ (o # <<>> => Len(o) = 1)
<1> DEFINE Results == {"success", "failure"}
<1>1. "success" \in Results /\ "failure" \in Results
  OBVIOUS
<1> HIDE DEF Results
<1>2. /\ <<>> \in Seq(Results)
      /\ Append(<<>>, "success") \in Seq(Results) /\ Append(<<>>, "failure") \in Seq(Results)
  BY <1>1
<1>3. Len(<<>>) = 0 /\ Len(<<"success">>) = 1 /\ Len(<<"failure">>) = 1
  OBVIOUS
<1>4. CASE o = <<>>
  BY <1>2, <1>3, <1>4
<1>5. CASE o = <<"success">>
  BY <1>2, <1>3, <1>5, OneResult
<1>6. CASE o = <<"failure">>
  BY <1>2, <1>3, <1>6, OneResult
<1> QED BY <1>4, <1>5, <1>6 DEF Results

\* The failure that is told first, while nothing is decided, is the outcome.
LEMMA FailureTold ==
  ASSUME StreamInv, barrier = "none", NEW c \in FailureCauses,
         owner' = [state |-> "terminating", cause |-> c], barrier' = "cleanup",
         observed' = Append(observed, "failure"), UNCHANGED upstream
  PROVE  Decided'
<1>1. observed' = <<"failure">> /\ upstream
  BY OneResult DEF StreamInv, Decided
<1> QED BY <1>1, OneResult DEF Decided

\* finish() with a failure decides once, whoever calls it and how often.
LEMMA FinishDecides ==
  ASSUME StreamInv, NEW c \in FailureCauses, OwnerFails(c), UNCHANGED upstream
  PROVE  Decided' /\ (IF Decides THEN owner'.cause = c ELSE owner' = owner)
<1>1. CASE Decides
  BY <1>1, FailureTold DEF Decides, OwnerFails
<1>2. CASE ~Decides
  BY <1>2 DEF StreamInv, Decided, OwnerFails, ownerVars
<1> QED BY <1>1, <1>2

\* A step that does not touch the execution leaves it as decided as it was.
LEMMA FrameDecides ==
  ASSUME StreamInv, UNCHANGED <<ownerVars, upstream>>
  PROVE  Decided'
BY DEF StreamInv, Decided, ownerVars

------------------------------------------------------------------------------
(* Init and the steps of the actors keep the invariant. *)

LEMMA InitStream == StreamInit => StreamInv
<1> SUFFICES ASSUME StreamInit PROVE StreamInv
  OBVIOUS
<1>1. Exists /\ Decided /\ Interrupted /\ SettledThenCleaned /\ WriterAgrees /\ ChunksCounted
  BY DEF StreamInit, Exists, Decided, Interrupted, SettledThenCleaned, WriterAgrees,
         ChunksCounted, InHand, Running, Claimed
<1>2. observed \in Seq({"success", "failure"})
  BY <1>1, ResultsTyped DEF Decided
<1>3. FlagsOK
  BY DEF StreamInit, FlagsOK
<1>4. StreamTypeOK
  BY <1>2, <1>3, MaxWiresAssumption DEF StreamInit, StreamTypeOK, Causes
<1> QED BY <1>1, <1>4 DEF StreamInv

\* The handler: it creates the execution, attaches the adapter, or cleans up what
\* was thrown or dropped.
LEMMA HandlerStepInv ==
  ASSUME StreamInv, HandlerStep
  PROVE  StreamInv'
<1>1. Decided'
  <2>1. CASE StartOwner
    <3>1. CASE work = "live"
      BY <2>1, <3>1 DEF StartOwner, StreamInv, StreamTypeOK, Exists, Decided, Running
    <3>2. CASE work # "live"
      <4>1. PICK c \in FailureCauses : owner' = [state |-> "terminating", cause |-> c]
        BY <2>1, <3>2 DEF StartOwner, FailureCauses
      <4>2. barrier = "none"
        BY <2>1, <3>2 DEF StartOwner, StreamInv, StreamTypeOK, Exists, Decided, Running
      <4> QED BY <2>1, <3>2, <4>1, <4>2, FailureTold DEF StartOwner
    <3> QED BY <3>1, <3>2
  <2>2. CASE FirstFails
    BY <2>2, FinishDecides DEF FirstFails, FailureCauses
  <2>3. CASE FirstWire \/ HandlerEnds \/ FailureBodyAborted \/ DropResponse \/ Attach
    BY <2>3, FrameDecides DEF FirstWire, HandlerEnds, FailureBodyAborted, DropResponse, Attach
  <2> QED BY <2>1, <2>2, <2>3 DEF HandlerStep
<1>2. observed' \in Seq({"success", "failure"})
  BY <1>1, ResultsTyped DEF Decided
<1> USE DEF HandlerStep, StartOwner, FirstWire, FirstFails, HandlerEnds,
           FailureBodyAborted, DropResponse, Attach, Decides, OwnerFails, InHand,
           Causes, FailureCauses, ownerVars, writerVars, signalVars, Claimed, Running
<1>3. FlagsOK'
  BY DEF StreamInv, StreamTypeOK, FlagsOK
<1>4. StreamTypeOK'
  BY <1>2, <1>3, MaxWiresAssumption DEF StreamInv, StreamTypeOK, Exists
<1>5. Exists'
  BY DEF StreamInv, StreamTypeOK, FlagsOK, Exists, WriterAgrees
<1>6. Interrupted'
  BY DEF StreamInv, StreamTypeOK, FlagsOK, Exists, Decided, Interrupted
<1>7. SettledThenCleaned'
  BY DEF StreamInv, StreamTypeOK, FlagsOK, Exists, Decided, Interrupted,
     SettledThenCleaned
<1>8. WriterAgrees'
  BY DEF StreamInv, FlagsOK, Exists, WriterAgrees
<1>9. ChunksCounted'
  BY DEF StreamInv, StreamTypeOK, FlagsOK, Exists, Interrupted, WriterAgrees,
     ChunksCounted
<1> QED BY <1>1, <1>4, <1>5, <1>6, <1>7, <1>8, <1>9 DEF StreamInv

\* The producer moves emissions into the writer, one at a time, and ends with the
\* terminal, which decides unless something else did.
LEMMA ProducerStepInv ==
  ASSUME StreamInv, ProducerStep
  PROVE  StreamInv'
<1>1. Decided'
  <2>1. CASE NextSuccess
    BY <2>1 DEF NextSuccess, StreamInv, Decided
  <2>2. CASE NextFailureEvent
    BY <2>2, FailureTold, FrameDecides DEF NextFailureEvent, FailureCauses
  <2>3. CASE NextError
    BY <2>3, FinishDecides DEF NextError, FailureCauses
  <2>4. CASE Offer \/ AwaitFirst \/ NextWire
    BY <2>4, FrameDecides DEF Offer, AwaitFirst, NextWire
  <2> QED BY <2>1, <2>2, <2>3, <2>4 DEF ProducerStep, NextEmission
<1>2. observed' \in Seq({"success", "failure"})
  BY <1>1, ResultsTyped DEF Decided
<1> USE DEF ProducerStep, NextEmission, Offer, AwaitFirst, NextWire, NextSuccess,
           NextFailureEvent, NextError, Decides, OwnerFails, WriterEnds, AfterAccepted,
           InHand, Causes, FailureCauses, ownerVars, writerVars, signalVars, Claimed,
           Running
<1>3. FlagsOK'
  BY DEF StreamInv, StreamTypeOK, FlagsOK
<1>4. StreamTypeOK'
  BY <1>2, <1>3, MaxWiresAssumption DEF StreamInv, StreamTypeOK
<1>5. Exists'
  BY DEF StreamInv, FlagsOK, Exists
<1>6. Interrupted'
  BY DEF StreamInv, FlagsOK, Exists, Interrupted, ChunksCounted
<1>7. SettledThenCleaned'
  BY DEF StreamInv, FlagsOK, SettledThenCleaned, WriterAgrees
<1>8. WriterAgrees'
  BY DEF StreamInv, StreamTypeOK, FlagsOK, WriterAgrees
<1>9. ChunksCounted'
  BY DEF StreamInv, StreamTypeOK, FlagsOK, WriterAgrees, ChunksCounted
<1> QED BY <1>1, <1>4, <1>5, <1>6, <1>7, <1>8, <1>9 DEF StreamInv

\* The barrier goes on to its next step, and keeps what the steps before it have
\* promised.
LEMMA BarrierStepInv ==
  ASSUME StreamInv, BarrierStep
  PROVE  StreamInv'
<1>1. Decided'
  <2>1. CASE FinalizeOk
    BY <2>1, OneResult DEF FinalizeOk, StreamInv, Decided
  <2>2. CASE FinalizeFails
    BY <2>2, OneResult DEF FinalizeFails, StreamInv, Decided, FailureCauses
  <2>3. CASE CleanUpstream \/ JoinProducer \/ Complete
    BY <2>3 DEF CleanUpstream, JoinProducer, Complete, StreamInv, StreamTypeOK, Decided
  <2> QED BY <2>1, <2>2, <2>3 DEF BarrierStep
<1>2. observed' \in Seq({"success", "failure"})
  BY <1>1, ResultsTyped DEF Decided
<1> USE DEF BarrierStep, FinalizeOk, FinalizeFails, CleanUpstream, JoinProducer,
           Complete, ProducerTold, InHand, Causes, FailureCauses, writerVars,
           signalVars, Claimed, Running
<1>3. FlagsOK'
  BY DEF StreamInv, StreamTypeOK, FlagsOK
<1>4. StreamTypeOK'
  BY <1>2, <1>3, MaxWiresAssumption DEF StreamInv, StreamTypeOK
<1>5. Exists'
  BY DEF StreamInv, StreamTypeOK, FlagsOK, Exists, Decided
<1>6. Interrupted'
  BY DEF StreamInv, FlagsOK, Interrupted
<1>7. SettledThenCleaned'
  BY DEF StreamInv, StreamTypeOK, FlagsOK, SettledThenCleaned
<1>8. WriterAgrees'
  BY DEF StreamInv, FlagsOK, WriterAgrees
<1>9. ChunksCounted'
  BY DEF StreamInv, StreamTypeOK, FlagsOK, ChunksCounted
<1> QED BY <1>1, <1>4, <1>5, <1>6, <1>7, <1>8, <1>9 DEF StreamInv

\* The adapter hands a chunk over, or reads the end.
LEMMA AdapterStepInv ==
  ASSUME StreamInv, AdapterStep
  PROVE  StreamInv'
<1>1. Decided'
  <2>1. CASE HandOver
    BY <2>1 DEF HandOver, StreamInv, StreamTypeOK, Decided
  <2>2. CASE ReadEnds \/ AdapterEnds
    BY <2>2, FrameDecides DEF ReadEnds, AdapterEnds
  <2> QED BY <2>1, <2>2 DEF AdapterStep
<1>2. observed' \in Seq({"success", "failure"})
  BY <1>1, ResultsTyped DEF Decided
<1> USE DEF AdapterStep, HandOver, ReadEnds, AdapterEnds, InHand, Causes, ownerVars,
           writerVars, signalVars, Claimed, Running
<1>3. FlagsOK'
  BY DEF StreamInv, StreamTypeOK, FlagsOK
<1>4. StreamTypeOK'
  BY <1>2, <1>3, MaxWiresAssumption DEF StreamInv, StreamTypeOK, ChunksCounted
<1>5. Exists'
  BY DEF StreamInv, StreamTypeOK, FlagsOK, Exists
<1>6. Interrupted'
  BY DEF StreamInv, FlagsOK, Interrupted
<1>7. SettledThenCleaned'
  BY DEF StreamInv, FlagsOK, SettledThenCleaned
<1>8. WriterAgrees'
  BY DEF StreamInv, FlagsOK, WriterAgrees
<1>9. ChunksCounted'
  BY DEF StreamInv, StreamTypeOK, FlagsOK, ChunksCounted
<1> QED BY <1>1, <1>4, <1>5, <1>6, <1>7, <1>8, <1>9 DEF StreamInv

\* The client pulls the body, or reads a failure response.
LEMMA ClientStepInv ==
  ASSUME StreamInv, ClientStep
  PROVE  StreamInv'
<1>1. Decided'
  BY FrameDecides DEF ClientStep, Pull, FailureBodyRead
<1>2. observed' \in Seq({"success", "failure"})
  BY <1>1, ResultsTyped DEF Decided
<1> USE DEF ClientStep, Pull, FailureBodyRead, Decides, WriterEnds, ProducerTold,
           AfterAccepted, InHand, Causes, ownerVars, writerVars, signalVars, Claimed,
           Running
<1>3. FlagsOK'
  BY DEF StreamInv, StreamTypeOK, FlagsOK
<1>4. StreamTypeOK'
  BY <1>2, <1>3, MaxWiresAssumption DEF StreamInv, StreamTypeOK, WriterAgrees
<1>5. Exists'
  BY DEF StreamInv, FlagsOK, Exists
<1>6. Interrupted'
  BY DEF StreamInv, FlagsOK, Interrupted
<1>7. SettledThenCleaned'
  BY DEF StreamInv, FlagsOK, Exists, Interrupted, SettledThenCleaned
<1>8. WriterAgrees'
  BY DEF StreamInv, StreamTypeOK, FlagsOK, Exists, Decided, Interrupted,
     SettledThenCleaned, WriterAgrees
<1>9. ChunksCounted'
  <2>1. CASE FailureBodyRead
    BY <2>1 DEF StreamInv, StreamTypeOK, FlagsOK, ChunksCounted
  <2>2. CASE Pull /\ aborted
    BY <2>2 DEF StreamInv, StreamTypeOK, FlagsOK, ChunksCounted
  <2>3. CASE Pull /\ ~aborted
    BY <2>3 DEF StreamInv, StreamTypeOK, FlagsOK, ChunksCounted
  <2> QED BY <2>1, <2>2, <2>3
<1> QED BY <1>1, <1>4, <1>5, <1>6, <1>7, <1>8, <1>9 DEF StreamInv

\* The client, the timer and the shutdown interrupt: whoever comes first decides.
LEMMA InterruptionInv ==
  ASSUME StreamInv, Interruption
  PROVE  StreamInv'
<1>1. Decided'
  BY FinishDecides
     DEF Interruption, ClientCancel, RequestAbort, TotalTimeout, Shutdown, FailureCauses
<1>2. observed' \in Seq({"success", "failure"})
  BY <1>1, ResultsTyped DEF Decided
<1> USE DEF Interruption, ClientCancel, RequestAbort, TotalTimeout, Shutdown, Decides,
           OwnerFails, WriterEnds, ProducerTold, WorkAborted, InHand, Causes,
           FailureCauses, ownerVars, Claimed, Running
<1>3. FlagsOK'
  BY DEF StreamInv, StreamTypeOK, FlagsOK
<1>4. StreamTypeOK'
  BY <1>2, <1>3, MaxWiresAssumption DEF StreamInv, StreamTypeOK
<1>5. Exists'
  BY DEF StreamInv, StreamTypeOK, FlagsOK, Exists
<1>6. Interrupted'
  BY DEF StreamInv, FlagsOK, Interrupted
<1>7. SettledThenCleaned'
  BY DEF StreamInv, StreamTypeOK, FlagsOK, SettledThenCleaned
<1>8. WriterAgrees'
  BY DEF StreamInv, FlagsOK, Exists, WriterAgrees
<1>9. ChunksCounted'
  BY DEF StreamInv, StreamTypeOK, FlagsOK, ChunksCounted
<1> QED BY <1>1, <1>4, <1>5, <1>6, <1>7, <1>8, <1>9 DEF StreamInv

LEMMA NextStream == StreamInv /\ [StreamNext]_streamVars => StreamInv'
<1> SUFFICES ASSUME StreamInv, [StreamNext]_streamVars PROVE StreamInv'
  OBVIOUS
<1>1. CASE UNCHANGED streamVars
  BY <1>1 DEF streamVars, StreamInv, StreamTypeOK, FlagsOK, Exists, Decided, Interrupted,
              SettledThenCleaned, WriterAgrees, ChunksCounted, InHand, Claimed, Running
<1> QED BY <1>1, HandlerStepInv, ProducerStepInv, BarrierStepInv, AdapterStepInv, ClientStepInv,
           InterruptionInv DEF StreamNext

------------------------------------------------------------------------------
(* The theorems. *)

\* The inductive invariant, the type invariant with it.
THEOREM DeliveryCorrect == StreamSpec => []StreamInv
BY InitStream, NextStream, PTL DEF StreamSpec

\* However many paths call finish(), the host is told one result and the cleanup
\* comes behind it, the body and the upstream; a first chunk gates the stream and no
\* chunk is lost while it is open.
THEOREM DeliverySafe == StreamSpec => []DeliveryIsSafe
<1>1. StreamInv => DeliveryIsSafe
  <2> SUFFICES ASSUME StreamInv PROVE DeliveryIsSafe
    OBVIOUS
  <2>1. OneOutcome
    <3>1. observed \in {<<>>, <<"success">>, <<"failure">>}
      BY DEF StreamInv, Decided
    <3>2. owner.state = "completed" => observed # <<>>
      BY DEF StreamInv, StreamTypeOK, Decided
    <3>3. Len(observed) <= 1 /\ (owner.state = "completed" => Len(observed) = 1)
      BY <3>1, <3>2, ResultsTyped
    <3> QED BY <3>3 DEF OneOutcome, StreamInv, Decided
  <2>2. CleanupIsLast
    BY DEF CleanupIsLast, StreamInv, SettledThenCleaned, Decided
  <2>3. DeliveryBeforeCleanup
    BY DEF DeliveryBeforeCleanup, StreamInv, SettledThenCleaned, Exists
  <2>4. FirstChunkGate
    BY DEF FirstChunkGate, StreamInv, ChunksCounted
  <2>5. NoChunkLost
    BY DEF NoChunkLost, StreamInv, ChunksCounted, InHand, StreamTypeOK
  <2> QED BY <2>1, <2>2, <2>3, <2>4, <2>5 DEF DeliveryIsSafe
<1> QED BY <1>1, DeliveryCorrect, PTL

\* The first cause of an ending stands, but for a success whose finalization
\* fails; and a success is decided only when every chunk has left the writer and
\* nobody had aborted the delivery.
THEOREM CauseRight == StreamSpec => CauseIsRight
<1>1. StreamInv /\ [StreamNext]_streamVars => [CauseStable /\ SuccessTookEverything]_streamVars
  <2> SUFFICES ASSUME StreamInv, StreamNext PROVE CauseStable /\ SuccessTookEverything
    OBVIOUS
  <2>1. ASSUME owner'.cause # owner.cause
        PROVE  \/ owner.cause = "none" /\ owner'.cause # "semantic_success"
               \/ NextSuccess /\ barrier = "none"
               \/ FinalizeFails
    <3>1. CASE HandlerStep
      <4>1. CASE StartOwner
        BY <2>1, <4>1 DEF StartOwner, StreamInv, StreamTypeOK, Exists, Decided, Running
      <4>2. CASE FirstFails
        BY <2>1, <4>2, FinishDecides DEF FirstFails, StreamInv, Decided, Decides, FailureCauses
      <4> QED BY <2>1, <3>1, <4>1, <4>2 DEF HandlerStep, FirstWire, HandlerEnds,
                                            FailureBodyAborted, DropResponse, Attach, ownerVars
    <3>2. CASE ProducerStep
      <4>1. CASE NextSuccess
        BY <2>1, <4>1 DEF NextSuccess
      <4>2. CASE NextFailureEvent
        BY <2>1, <4>2 DEF NextFailureEvent, StreamInv, Decided, ownerVars
      <4>3. CASE NextError
        BY <2>1, <4>3, FinishDecides DEF NextError, StreamInv, Decided, Decides, FailureCauses
      <4> QED BY <2>1, <3>2, <4>1, <4>2, <4>3 DEF ProducerStep, NextEmission, Offer, AwaitFirst,
                                                  NextWire, ownerVars
    <3>3. CASE BarrierStep
      BY <2>1, <3>3 DEF BarrierStep, FinalizeOk, CleanUpstream, JoinProducer, Complete, StreamInv,
                        StreamTypeOK
    <3>4. CASE AdapterStep
      BY <2>1, <3>4 DEF AdapterStep, HandOver, ReadEnds, AdapterEnds, StreamInv, StreamTypeOK,
                        ownerVars
    <3>5. CASE ClientStep
      BY <2>1, <3>5 DEF ClientStep, Pull, FailureBodyRead, ownerVars
    <3>6. CASE Interruption
      BY <2>1, <3>6, FinishDecides DEF Interruption, ClientCancel, RequestAbort, TotalTimeout,
                                       Shutdown, StreamInv, Decided, Decides, FailureCauses
    <3> QED BY <3>1, <3>2, <3>3, <3>4, <3>5, <3>6 DEF StreamNext
  <2>2. CASE owner'.cause = owner.cause
    BY <2>2 DEF CauseStable, SuccessTookEverything
  <2>3. CASE owner.cause = "none" /\ owner'.cause # "semantic_success"
    BY <2>3 DEF CauseStable, SuccessTookEverything
  <2>4. CASE NextSuccess /\ barrier = "none"
    <3>1. owner.cause = "none" /\ ~lookahead /\ stream # "none" /\ Running
      BY <2>4 DEF NextSuccess, StreamInv, Decided, WriterAgrees, Exists
    <3>2. stream = "open" /\ work = "live" /\ ~aborted
      BY <2>4, <3>1 DEF StreamInv, StreamTypeOK, WriterAgrees, Interrupted
    <3>3. emitted = sent + (IF adapter = "got" THEN 1 ELSE 0)
      BY <2>4, <3>1, <3>2 DEF StreamInv, ChunksCounted, InHand, NextSuccess
    <3> QED BY <3>1, <3>2, <3>3 DEF CauseStable, SuccessTookEverything
  <2>5. CASE FinalizeFails
    BY <2>5 DEF FinalizeFails, StreamInv, Decided, CauseStable, SuccessTookEverything
  <2> QED BY <2>1, <2>2, <2>3, <2>4, <2>5
<1> QED BY <1>1, DeliveryCorrect, PTL DEF StreamSpec, CauseIsRight

------------------------------------------------------------------------------
(* Gateway.close() *)

\* The graceful close goes through its stages in this order.
Stage ==
    [none |-> 0, listener |-> 1, requests |-> 2, flows |-> 3, copilot |-> 4, registry |-> 5,
     discovery |-> 6, coordinator |-> 7, telemetry |-> 8, database |-> 9, end |-> 10]
Stages == {"none", "listener", "requests", "database", "end"} \cup Resources

\* The graceful close has left the stage s behind.
Passed(s) == Stage[s] < Stage[graceful]

ShutdownTypeOK ==
    /\ shutdown \in {"none", "closing", "forced", "failed", "clean"}
    /\ graceful \in Stages
    /\ closeFailed \in BOOLEAN
    /\ calls \in [Calls -> {"idle", "served", "aborted", "over"}]
    /\ resource \in [Resources -> {"open", "closing", "closed", "forced"}]
    /\ mutations \in [Mutations -> {"idle", "running", "over"}]
    /\ database \in {"open", "closed"} /\ draining \in BOOLEAN

\* The graceful close begins with close(), and only the end of either ends it.
CloseHasBegun == /\ shutdown = "none" <=> graceful = "none"
                 /\ shutdown = "clean" => graceful = "end"

\* An aborted request is one that was in flight, and is over once the graceful
\* close has waited for the requests.
RequestsAreAwaited ==
    \A q \in Calls :
        calls[q] = "aborted" => q \in awaited /\ ~Passed("requests") /\ shutdown # "none"

\* What the graceful close has passed is closed; only the timer, or an error that
\* is thrown, forces a resource.
ResourcesAreClosed ==
    \A r \in Resources :
        /\ Passed(r) => resource[r] \in {"closed", "forced"}
        /\ resource[r] = "forced" => shutdown \in {"forced", "failed"}

\* Account operations are over, for good, once the coordinator has drained, and
\* none begins any more once somebody waits for that to close the database.
OperationsEndFirst ==
    /\ Passed("coordinator") => Idle
    /\ draining => resource["coordinator"] # "open"
    /\ database = "closed" => resource["coordinator"] # "open" /\ Idle
    /\ Passed("database") => database = "closed"

ShutdownInv == /\ ShutdownTypeOK /\ CloseHasBegun /\ RequestsAreAwaited
               /\ ResourcesAreClosed /\ OperationsEndFirst

------------------------------------------------------------------------------
\* The stage after another is one further: nothing but the stage itself becomes
\* passed when the graceful close goes on.
LEMMA FollowingStage ==
    ASSUME NEW s \in Stages \ {"none", "end"}
    PROVE  /\ Following[s] \in Stages \ {"none"} /\ (Following[s] = "end" <=> s = "database")
           /\ Stage[s] \in Nat /\ Stage[s] > 0 /\ Stage[Following[s]] = Stage[s] + 1
           /\ \A t \in Stages : Stage[t] \in Nat /\ (Stage[t] = Stage[s] => t = s)
BY DEF Following, Stage, Stages, Resources

\* So it is with what it has passed.
LEMMA GracefulGoesOn ==
    ASSUME graceful \in Stages \ {"none", "end"}, graceful' = Following[graceful]
    PROVE  /\ graceful' \in Stages \ {"none"}
           /\ \A s \in Stages : Passed(s)' => Passed(s) \/ s = graceful
BY FollowingStage DEF Passed

\* A step that leaves the graceful close where it is has passed the same stages.
LEMMA GracefulStays ==
    ASSUME UNCHANGED graceful
    PROVE  \A s \in Stages : Passed(s)' <=> Passed(s)
BY DEF Passed

\* Nothing is passed before the requests when close() begins.
LEMMA NothingPassed ==
    ASSUME graceful' = "listener"
    PROVE  \A s \in Resources \cup {"requests", "database"} : ~Passed(s)'
BY DEF Passed, Stage, Resources

------------------------------------------------------------------------------
(* Init and the steps of ShutdownNext keep the invariant. *)

LEMMA InitShutdown == ShutdownInit => ShutdownInv
<1> SUFFICES ASSUME ShutdownInit PROVE ShutdownInv
  OBVIOUS
<1>1. ShutdownTypeOK /\ CloseHasBegun
  BY DEF ShutdownInit, ShutdownTypeOK, CloseHasBegun, Stages
<1>2. \A s \in Stages : ~Passed(s)
  BY DEF ShutdownInit, Passed, Stage, Stages, Resources
<1>3. RequestsAreAwaited /\ ResourcesAreClosed
  BY <1>2 DEF ShutdownInit, RequestsAreAwaited, ResourcesAreClosed, Stages
<1>4. OperationsEndFirst
  BY <1>2 DEF ShutdownInit, OperationsEndFirst, Stages, Resources
<1> QED BY <1>1, <1>3, <1>4 DEF ShutdownInv

\* Requests come and end; the rest of the gateway does not move.
LEMMA CallStep ==
    ASSUME ShutdownInv, NEW q \in Calls, ServeCall(q) \/ CallEnds(q)
    PROVE  ShutdownInv'
<1>1. /\ UNCHANGED <<shutdown, graceful, closeFailed, awaited, resource, mutations, database,
                     draining>>
      /\ calls' \in [Calls -> {"idle", "served", "aborted", "over"}]
      /\ \A p \in Calls : calls'[p] = "aborted" => calls[p] = "aborted"
  BY DEF ServeCall, CallEnds, ShutdownInv, ShutdownTypeOK
<1> QED BY <1>1 DEF ShutdownInv, ShutdownTypeOK, CloseHasBegun, RequestsAreAwaited,
                    ResourcesAreClosed, OperationsEndFirst, Passed, Idle

\* An account operation begins only while the coordinator is open, and then nobody
\* waits for the operations to be over.
LEMMA MutationStep ==
    ASSUME ShutdownInv, NEW m \in Mutations, Mutate(m) \/ MutationEnds(m)
    PROVE  ShutdownInv'
<1>1. /\ UNCHANGED <<shutdown, graceful, closeFailed, awaited, calls, resource, database, draining>>
      /\ mutations' \in [Mutations -> {"idle", "running", "over"}]
  BY DEF Mutate, MutationEnds, ShutdownInv, ShutdownTypeOK
<1>2. resource["coordinator"] # "open" => (Idle => Idle')
  BY DEF Mutate, MutationEnds, ShutdownInv, ShutdownTypeOK, Idle
<1>3. Passed("coordinator") => resource["coordinator"] # "open"
  BY DEF ShutdownInv, ResourcesAreClosed, Resources
<1>4. OperationsEndFirst'
  BY <1>1, <1>2, <1>3 DEF ShutdownInv, OperationsEndFirst, Passed
<1> QED BY <1>1, <1>4 DEF ShutdownInv, ShutdownTypeOK, CloseHasBegun, RequestsAreAwaited,
                         ResourcesAreClosed, Passed

\* close() is called: every request in flight is aborted, and awaited.
LEMMA BeginCloseStep ==
    ASSUME ShutdownInv, BeginClose
    PROVE  ShutdownInv'
<1>1. \A s \in Resources \cup {"requests", "database"} : ~Passed(s)'
  BY NothingPassed DEF BeginClose
<1>2. /\ shutdown' = "closing" /\ graceful' = "listener"
      /\ UNCHANGED <<resource, mutations, database, draining>>
  BY DEF BeginClose
<1>3. ShutdownTypeOK'
  BY <1>2 DEF BeginClose, ShutdownInv, ShutdownTypeOK, Stages
<1>4. RequestsAreAwaited'
  <2>1. \A q \in Calls : ~(calls[q] = "aborted")
    BY DEF BeginClose, ShutdownInv, CloseHasBegun, RequestsAreAwaited
  <2>2. \A q \in Calls : calls'[q] = "aborted" => q \in awaited'
    BY <2>1 DEF BeginClose
  <2> QED BY <1>1, <1>2, <2>2 DEF RequestsAreAwaited
<1>5. ResourcesAreClosed'
  BY <1>1, <1>2 DEF BeginClose, ShutdownInv, ResourcesAreClosed
<1>6. OperationsEndFirst'
  BY <1>1, <1>2 DEF ShutdownInv, OperationsEndFirst, Resources, Idle
<1>7. CloseHasBegun'
  BY <1>2 DEF CloseHasBegun
<1> QED BY <1>3, <1>4, <1>5, <1>6, <1>7 DEF ShutdownInv

\* The graceful close passes its stage: what that stage promises holds, and what
\* the stages before it promise still does.
LEMMA PassStep ==
    ASSUME ShutdownInv, graceful \in Stages \ {"none", "end"}, graceful' = Following[graceful],
           closeFailed' \in BOOLEAN, shutdown # "clean",
           UNCHANGED <<shutdown, awaited, calls, mutations, draining>>,
           graceful = "requests" => \A q \in awaited : calls[q] = "over",
           resource' \in [Resources -> {"open", "closing", "closed", "forced"}],
           \A r \in Resources : /\ resource'[r] # resource[r] => resource'[r] = "closed"
                                /\ resource[r] \in {"closed", "forced"} =>
                                     resource'[r] = resource[r],
           graceful \in Resources => resource'[graceful] \in {"closed", "forced"},
           graceful = "coordinator" => Idle,
           database' \in {"open", "closed"},
           database' = IF graceful = "database" THEN "closed" ELSE database
    PROVE  ShutdownInv'
<1>1. /\ graceful' \in Stages \ {"none"}
      /\ \A s \in Stages : Passed(s)' => Passed(s) \/ s = graceful
  BY GracefulGoesOn
<1>2. Idle' <=> Idle
  BY DEF Idle
<1>3. ShutdownTypeOK'
  BY <1>1 DEF ShutdownInv, ShutdownTypeOK
<1>4. CloseHasBegun'
  BY <1>1 DEF ShutdownInv, CloseHasBegun
<1>5. RequestsAreAwaited'
  BY <1>1 DEF ShutdownInv, RequestsAreAwaited, Stages
<1>6. ResourcesAreClosed'
  BY <1>1 DEF ShutdownInv, ResourcesAreClosed, Stages
<1>7. OperationsEndFirst'
  <2>1. "coordinator" \in Resources /\ "coordinator" \in Stages /\ "database" \in Stages
    BY DEF Resources, Stages
  <2>2. Passed("coordinator")' => Idle'
    BY <1>1, <1>2, <2>1 DEF ShutdownInv, OperationsEndFirst
  <2>3. resource["coordinator"] # "open" => resource'["coordinator"] # "open"
    BY <2>1
  <2>4. graceful = "database" => Idle /\ resource["coordinator"] # "open"
    <3>1. graceful = "database" => Passed("coordinator")
      BY DEF Passed, Stage
    <3> QED BY <3>1, <2>1 DEF ShutdownInv, OperationsEndFirst, ResourcesAreClosed
  <2> QED BY <1>1, <1>2, <2>1, <2>2, <2>3, <2>4 DEF ShutdownInv, OperationsEndFirst
<1> QED BY <1>3, <1>4, <1>5, <1>6, <1>7 DEF ShutdownInv

\* The listener, the requests, each resource and the database, one after the other.
LEMMA GracefulStep ==
    ASSUME ShutdownInv,
           \/ ListenerCloses \/ RequestsSettle \/ CloseDatabaseOnce
           \/ \E r \in Resources : ResourceCloses(r)
    PROVE  ShutdownInv'
<1>g. shutdown = "clean" => graceful = "end"
  BY DEF ShutdownInv, CloseHasBegun
<1>t. ShutdownTypeOK
  BY DEF ShutdownInv
<1>1. CASE ListenerCloses
  BY <1>1, <1>g, <1>t, PassStep DEF ListenerCloses, ShutdownTypeOK, Stages, Resources
<1>2. CASE RequestsSettle
  BY <1>2, <1>g, <1>t, PassStep DEF RequestsSettle, ShutdownTypeOK, Stages, Resources
<1>3. CASE CloseDatabaseOnce
  BY <1>3, <1>g, <1>t, PassStep DEF CloseDatabaseOnce, Following, ShutdownTypeOK, Stages, Resources
<1>4. ASSUME NEW r \in Resources, ResourceCloses(r) PROVE ShutdownInv'
  <2>1. /\ graceful = r /\ resource[r] # "open" /\ graceful' = Following[graceful]
        /\ r \in Stages \ {"none", "end", "requests", "database"}
        /\ UNCHANGED <<shutdown, awaited, calls, mutations, draining, database>>
        /\ closeFailed' \in BOOLEAN
        /\ r = "coordinator" => Idle
    BY <1>4, <1>t DEF ResourceCloses, ShutdownTypeOK, Stages, Resources
  <2>2. /\ resource' \in [Resources -> {"open", "closing", "closed", "forced"}]
        /\ resource'[r] = IF resource[r] = "closing" THEN "closed" ELSE resource[r]
        /\ \A s \in Resources \ {r} : resource'[s] = resource[s]
    BY <1>4, <1>t DEF ResourceCloses, ShutdownTypeOK
  <2>3. resource[r] \in {"closing", "closed", "forced"}
    BY <2>1, <1>t DEF ShutdownTypeOK
  <2>4. database' \in {"open", "closed"}
    BY <2>1, <1>t DEF ShutdownTypeOK
  <2> QED BY <2>1, <2>2, <2>3, <2>4, <1>g, PassStep
<1> QED BY <1>1, <1>2, <1>3, <1>4

\* close() of a resource is called.
LEMMA CloseResourceStep ==
    ASSUME ShutdownInv, NEW r \in Resources, CloseResource(r)
    PROVE  ShutdownInv'
<1>1. /\ UNCHANGED <<shutdown, graceful, closeFailed, awaited, calls, mutations, database,
                     draining>>
      /\ graceful = r /\ resource[r] = "open"
      /\ resource' \in [Resources -> {"open", "closing", "closed", "forced"}]
      /\ resource'[r] = "closing"
      /\ \A s \in Resources \ {r} : resource'[s] = resource[s]
  BY DEF CloseResource, ShutdownInv, ShutdownTypeOK
<1>2. ~Passed(r)
  BY <1>1 DEF ShutdownInv, ResourcesAreClosed
<1> QED BY <1>1, <1>2 DEF ShutdownInv, ShutdownTypeOK, CloseHasBegun, RequestsAreAwaited,
                         ResourcesAreClosed, OperationsEndFirst, Passed, Idle, Resources

\* Everything is forced, by the timer or after an error, and no account operation
\* begins any more.
LEMMA ForceStep ==
    ASSUME ShutdownInv, ForceApplication, shutdown = "closing", shutdown' \in {"forced", "failed"},
           UNCHANGED <<graceful, closeFailed, awaited, calls, mutations>>
    PROVE  ShutdownInv'
<1>1. /\ \A r \in Resources : resource'[r] = "forced"
      /\ resource' \in [Resources -> {"forced"}]
      /\ database' = (IF Idle THEN "closed" ELSE database)
      /\ draining' \in BOOLEAN
  BY DEF ForceApplication, ForceCleanup, ShutdownInv, ShutdownTypeOK
<1>2. \A s \in Stages : Passed(s)' <=> Passed(s)
  BY GracefulStays
<1>3. Idle' <=> Idle
  BY DEF Idle
<1>4. ShutdownTypeOK' /\ CloseHasBegun' /\ RequestsAreAwaited'
  BY <1>1, <1>2 DEF ShutdownInv, ShutdownTypeOK, CloseHasBegun, RequestsAreAwaited, Stages
<1>5. ResourcesAreClosed'
  BY <1>1, <1>2 DEF ResourcesAreClosed
<1>6. OperationsEndFirst'
  BY <1>1, <1>2, <1>3 DEF ShutdownInv, OperationsEndFirst, Stages, Resources
<1> QED BY <1>4, <1>5, <1>6 DEF ShutdownInv

LEMMA NextShutdown == ShutdownInv /\ [ShutdownNext]_shutdownVars => ShutdownInv'
<1> SUFFICES ASSUME ShutdownInv, [ShutdownNext]_shutdownVars PROVE ShutdownInv'
  OBVIOUS
<1>1. CASE \E q \in Calls : ServeCall(q) \/ CallEnds(q)
  BY <1>1, CallStep
<1>2. CASE \E m \in Mutations : Mutate(m) \/ MutationEnds(m)
  BY <1>2, MutationStep
<1>3. CASE BeginClose
  BY <1>3, BeginCloseStep
<1>4. CASE \/ ListenerCloses \/ RequestsSettle \/ CloseDatabaseOnce
           \/ \E r \in Resources : ResourceCloses(r)
  BY <1>4, GracefulStep
<1>5. CASE \E r \in Resources : CloseResource(r)
  BY <1>5, CloseResourceStep
<1>6. CASE ShutdownTimeout
  BY <1>6, ForceStep DEF ShutdownTimeout
<1>7. CASE GracefulReturns
  <2>1. CASE closeFailed
    BY <1>7, <2>1, ForceStep DEF GracefulReturns
  <2>2. CASE ~closeFailed
    <3>1. /\ shutdown = "closing" /\ graceful = "end" /\ shutdown' = "clean"
          /\ UNCHANGED <<graceful, closeFailed, awaited, calls, mutations, resource, database,
                         draining>>
      BY <1>7, <2>2 DEF GracefulReturns
    <3> QED BY <3>1 DEF ShutdownInv, ShutdownTypeOK, CloseHasBegun, RequestsAreAwaited,
                        ResourcesAreClosed, OperationsEndFirst, Passed, Idle
  <2> QED BY <2>1, <2>2
<1>8. CASE DrainedCloses
  BY <1>8 DEF DrainedCloses, ShutdownInv, ShutdownTypeOK, CloseHasBegun, RequestsAreAwaited,
              ResourcesAreClosed, OperationsEndFirst, Passed, Idle
<1>9. CASE UNCHANGED shutdownVars
  BY <1>9 DEF shutdownVars, ShutdownInv, ShutdownTypeOK, CloseHasBegun, RequestsAreAwaited,
              ResourcesAreClosed, OperationsEndFirst, Passed, Idle
<1> QED BY <1>1, <1>2, <1>3, <1>4, <1>5, <1>6, <1>7, <1>8, <1>9 DEF ShutdownNext

\* No account operation finds its database closed under it, and a close() that
\* returns without an error has left nothing behind, however the graceful close
\* and the forced one interleave with requests and account operations.
THEOREM CloseSafe == ShutdownSpec => []CloseIsSafe
<1>1. ShutdownInv => CloseIsSafe
  <2> SUFFICES ASSUME ShutdownInv PROVE CloseIsSafe
    OBVIOUS
  <2>1. OperationsKeepTheirDatabase
    BY DEF OperationsKeepTheirDatabase, ShutdownInv, OperationsEndFirst
  <2>2. ASSUME shutdown = "clean"
        PROVE  \A s \in Resources \cup {"requests", "database"} : Passed(s)
    BY <2>2 DEF ShutdownInv, CloseHasBegun, Passed, Stage, Resources
  <2>3. CleanLeavesNothing
    BY <2>2 DEF CleanLeavesNothing, ShutdownInv, ResourcesAreClosed, RequestsAreAwaited,
                OperationsEndFirst
  <2> QED BY <2>1, <2>3 DEF CloseIsSafe
<1>2. ShutdownSpec => []ShutdownInv
  BY InitShutdown, NextShutdown, PTL DEF ShutdownSpec
<1> QED BY <1>1, <1>2, PTL

------------------------------------------------------------------------------
(* Device sign-ins. *)

FlowObject == [authorized : {"no", "token", "user"}, due : BOOLEAN, timer : {"none", "first", "extended"},
               cancelled : BOOLEAN, settlement : BOOLEAN]

DeviceTypes ==
  /\ flow \in [Flows -> {"unused", "starting", "pending", "terminal", "gone"}]
  /\ ended \in Seq(Flows) /\ Len(ended) <= MAX_DEVICE_FLOWS
  /\ status \in [Flows -> {"none", "ended", "complete"}] /\ object \in [Flows -> FlowObject]
  /\ poll \in [Flows -> {"none", "exchanging", "user", "committing", "writing"}]
  /\ cancels \in [Flows -> BOOLEAN] /\ added \in [Flows -> BOOLEAN]
  /\ told \in [Flows -> BOOLEAN] /\ collected \in [Flows -> BOOLEAN]
  /\ service \in {"open", "closing", "closed"}

\* What one flow's map entry, its timer, its poll and its outcome say of each
\* other: only a pending flow has its first timer; a poll works on a pending
\* flow or on one that start() collected; a flow that was told to have ended
\* and one whose account was added are over, and never both.
FlowIsSound(in, outcome, timer, polling, isAdded, isTold, isCollected) ==
  /\ timer = "first" => in = "pending"
  /\ polling # "none" => in \in {"pending", "terminal", "gone"} /\ (in = "pending" \/ isCollected)
  /\ isTold /\ ~isCollected => polling = "none" /\ in \in {"terminal", "gone"}
  /\ isAdded /\ ~isCollected => /\ polling = "none" /\ ~isTold
                                /\ in = "gone" \/ (in = "terminal" /\ outcome = "complete")

FlowsAreSound ==
  service = "open" => \A f \in Flows :
    FlowIsSound(flow[f], status[f], object[f].timer, poll[f], added[f], told[f], collected[f])

ActiveIsBounded ==
  /\ IsFiniteSet(Pending) /\ IsFiniteSet(Starting)
  /\ Cardinality(Pending) + Cardinality(Starting) <= MAX_DEVICE_FLOWS

DeviceInv == DeviceTypes /\ FlowsAreSound /\ ActiveIsBounded

------------------------------------------------------------------------------
\* Aborting a flow object clears its timer.
LEMMA AbortedObject ==
  ASSUME NEW o \in FlowObject
  PROVE  Aborted(o) \in FlowObject /\ Aborted(o).timer = "none"
BY DEF Aborted, FlowObject

\* Removing flows aborts the pending ones.
LEMMA RemovedObjects ==
  ASSUME DeviceTypes, NEW F
  PROVE  /\ Removed(F) \in [Flows -> FlowObject]
         /\ \A g \in Flows : Removed(F)[g].timer = IF g \in F /\ flow[g] = "pending" THEN "none" ELSE object[g].timer
<1>1. \A g \in Flows : object[g] \in FlowObject /\ Aborted(object[g]) \in FlowObject /\ Aborted(object[g]).timer = "none"
  BY AbortedObject DEF DeviceTypes
<1> QED BY <1>1 DEF Removed, Pending

\* The map keeps the newest terminal flows, at most as many as it may.
LEMMA KeptFlows ==
  ASSUME NEW s \in Seq(Flows), NEW F \in SUBSET Flows, IsFiniteSet(F)
  PROVE  Kept(s, F) \in Seq(Flows) /\ Len(Kept(s, F)) <= MAX_DEVICE_FLOWS
<1> DEFINE all == s \o SetToSeq(F)
           start == IF Len(all) > MAX_DEVICE_FLOWS THEN Len(all) - MAX_DEVICE_FLOWS + 1 ELSE 1
<1>1. all \in Seq(Flows) /\ Len(all) \in Nat
  <2>1. SetToSeq(F) \in Seq(Flows)
    BY QueueOfSet
  <2> HIDE DEF all
  <2>2. all \in Seq(Flows)
    BY <2>1, ConcatProperties DEF all
  <2> QED BY <2>2, LenProperties
<1> HIDE DEF all
<1>2. MAX_DEVICE_FLOWS \in Nat \ {0} /\ start \in Nat \ {0}
  BY <1>1, DeviceFlowAssumption
<1>3. \A i \in start..Len(all) : all[i] \in Flows
  BY <1>1, <1>2, ElementOfSeq
<1>4. /\ SubSeq(all, start, Len(all)) \in Seq(Flows)
      /\ Len(SubSeq(all, start, Len(all))) = IF start <= Len(all) THEN Len(all) - start + 1 ELSE 0
  <2> HIDE DEF start
  <2> QED BY <1>1, <1>2, <1>3, SubSeqProperties
<1>5. (IF start <= Len(all) THEN Len(all) - start + 1 ELSE 0) <= MAX_DEVICE_FLOWS
  BY <1>1, <1>2
<1> QED BY <1>4, <1>5 DEF Kept, Newest, all

\* Remembering flows makes them terminal; another terminal one may give way,
\* and nothing else changes.
LEMMA Remembered ==
  ASSUME DeviceTypes, NEW s \in Seq(Flows), NEW F \in SUBSET Flows, IsFiniteSet(F), NEW outcome \in {"ended", "complete"},
         Remember(F, Kept(s, F), outcome)
  PROVE  /\ ended' \in Seq(Flows) /\ Len(ended') <= MAX_DEVICE_FLOWS
         /\ status' \in [Flows -> {"none", "ended", "complete"}]
         /\ object' \in [Flows -> FlowObject]
         /\ \A g \in Flows : /\ status'[g] = IF g \in F THEN outcome ELSE status[g]
                             /\ object'[g].timer = IF g \in F /\ flow[g] = "pending" THEN "none" ELSE object[g].timer
<1>1. ended' \in Seq(Flows) /\ Len(ended') <= MAX_DEVICE_FLOWS
  BY KeptFlows DEF Remember
<1>2. object' = Removed(F) /\ status' = [f \in Flows |-> IF f \in F THEN outcome ELSE status[f]]
  BY DEF Remember
<1>3. /\ object' \in [Flows -> FlowObject]
      /\ \A g \in Flows : object'[g].timer = IF g \in F /\ flow[g] = "pending" THEN "none" ELSE object[g].timer
  BY <1>2, RemovedObjects
<1> QED BY <1>1, <1>2, <1>3 DEF DeviceTypes

LEMMA FlowsAfter ==
  ASSUME DeviceTypes, NEW F \in SUBSET Flows, NEW kept
  PROVE  /\ FlowAfter(F, kept) \in [Flows -> {"unused", "starting", "pending", "terminal", "gone"}]
         /\ \A g \in Flows : IF g \in F THEN FlowAfter(F, kept)[g] = "terminal"
                             ELSE FlowAfter(F, kept)[g] = flow[g] \/ (flow[g] = "terminal" /\ FlowAfter(F, kept)[g] = "gone")
BY DEF FlowAfter, DeviceTypes

\* What an action does to the map entry of f and, at most, to other terminal ones.
OthersGiveWay(f) ==
  \A g \in Flows \ {f} : /\ flow'[g] = flow[g] \/ (flow[g] = "terminal" /\ flow'[g] = "gone")
                         /\ status'[g] = status[g] /\ object'[g].timer = object[g].timer

MapTypes ==
  /\ flow \in [Flows -> {"unused", "starting", "pending", "terminal", "gone"}]
  /\ ended \in Seq(Flows) /\ Len(ended) <= MAX_DEVICE_FLOWS
  /\ status \in [Flows -> {"none", "ended", "complete"}] /\ object \in [Flows -> FlowObject]

LEMMA FlowRemoved ==
  ASSUME DeviceTypes, NEW f \in Flows, RemoveFlow(f), UNCHANGED status
  PROVE  /\ MapTypes' /\ OthersGiveWay(f) /\ flow'[f] = "gone"
         /\ object'[f].timer = IF flow[f] = "pending" THEN "none" ELSE object[f].timer
<1>1. ended' \in Seq(Flows) /\ Len(ended') <= Len(ended)
  BY RemoveFirstAnyone DEF RemoveFlow, DeviceTypes
<1>2. Len(ended') <= MAX_DEVICE_FLOWS
  BY <1>1, LenProperties, DeviceFlowAssumption DEF DeviceTypes
<1>3. object' = Removed({f}) /\ flow' = [flow EXCEPT ![f] = "gone"]
  BY DEF RemoveFlow
<1>4. /\ object' \in [Flows -> FlowObject]
      /\ \A g \in Flows : object'[g].timer = IF g \in {f} /\ flow[g] = "pending" THEN "none" ELSE object[g].timer
  BY <1>3, RemovedObjects
<1> QED BY <1>1, <1>2, <1>3, <1>4 DEF DeviceTypes, MapTypes, OthersGiveWay

LEMMA FlowRemembered ==
  ASSUME DeviceTypes, NEW f \in Flows, NEW outcome \in {"ended", "complete"}, RememberTerminal(f, outcome)
  PROVE  /\ MapTypes' /\ OthersGiveWay(f)
         /\ service # "open" => UNCHANGED <<flow, ended, status, object>>
         /\ service = "open" => /\ flow'[f] = "terminal" /\ status'[f] = outcome
                                /\ object'[f].timer = IF flow[f] = "pending" THEN "none" ELSE object[f].timer
<1>1. CASE service # "open"
  BY <1>1 DEF RememberTerminal, DeviceTypes, MapTypes, OthersGiveWay
<1>2. CASE service = "open"
  <2> DEFINE s == RemoveFirst(ended, f)
             kept == Kept(s, {f})
  <2>1. s \in Seq(Flows)
    BY RemoveFirstAnyone DEF DeviceTypes
  <2>2. flow' = FlowAfter({f}, kept) /\ Remember({f}, kept, outcome)
    BY <1>2 DEF RememberTerminal
  <2>3. {f} \in SUBSET Flows /\ IsFiniteSet({f})
    BY FS_Singleton
  <2> HIDE DEF s
  <2>4. /\ ended' \in Seq(Flows) /\ Len(ended') <= MAX_DEVICE_FLOWS
        /\ status' \in [Flows -> {"none", "ended", "complete"}]
        /\ object' \in [Flows -> FlowObject]
        /\ \A g \in Flows : /\ status'[g] = IF g \in {f} THEN outcome ELSE status[g]
                            /\ object'[g].timer = IF g \in {f} /\ flow[g] = "pending" THEN "none" ELSE object[g].timer
    BY <2>1, <2>2, <2>3, Remembered
  <2> HIDE DEF kept
  <2>5. /\ flow' \in [Flows -> {"unused", "starting", "pending", "terminal", "gone"}]
        /\ \A g \in Flows : IF g \in {f} THEN flow'[g] = "terminal"
                            ELSE flow'[g] = flow[g] \/ (flow[g] = "terminal" /\ flow'[g] = "gone")
    BY <2>2, <2>3, FlowsAfter
  <2> QED BY <1>2, <2>4, <2>5 DEF MapTypes, OthersGiveWay
<1> QED BY <1>1, <1>2

------------------------------------------------------------------------------
\* The bound on starting and pending flows survives whatever adds none.
LEMMA NoneAdded ==
  ASSUME ActiveIsBounded,
         \A g \in Flows : flow'[g] \in {"pending", "starting"} => flow'[g] = flow[g]
  PROVE  ActiveIsBounded'
<1> DEFINE P == Pending
           Q == Pending'
           S == Starting
           R == Starting'
<1>1. Q \subseteq P /\ R \subseteq S
  BY DEF Pending, Starting
<1>2. IsFiniteSet(P) /\ IsFiniteSet(S) /\ Cardinality(P) + Cardinality(S) <= MAX_DEVICE_FLOWS
  BY DEF ActiveIsBounded
<1>3. MAX_DEVICE_FLOWS \in Nat
  BY DeviceFlowAssumption
<1> HIDE DEF P, Q, S, R
<1>4. /\ IsFiniteSet(Q) /\ Cardinality(Q) <= Cardinality(P) /\ Cardinality(Q) \in Nat /\ Cardinality(P) \in Nat
      /\ IsFiniteSet(R) /\ Cardinality(R) <= Cardinality(S) /\ Cardinality(R) \in Nat /\ Cardinality(S) \in Nat
  BY <1>1, <1>2, FS_Subset, FS_CardinalityType
<1>5. Cardinality(Q) + Cardinality(R) <= MAX_DEVICE_FLOWS
  BY <1>2, <1>3, <1>4
<1> QED BY <1>4, <1>5 DEF ActiveIsBounded, Q, R

\* A step that concerns one flow preserves everything when it leaves that
\* flow sound and starts nothing.
LEMMA OneFlowKept ==
  ASSUME DeviceInv, NEW f \in Flows, MapTypes', OthersGiveWay(f), UNCHANGED service,
         NEW p \in {"none", "exchanging", "user", "committing", "writing"}, poll' = [poll EXCEPT ![f] = p],
         NEW c \in BOOLEAN, cancels' = [cancels EXCEPT ![f] = c],
         NEW a \in BOOLEAN, added' = [added EXCEPT ![f] = a],
         NEW t \in BOOLEAN, told' = [told EXCEPT ![f] = t], UNCHANGED collected,
         flow'[f] \in {"pending", "starting"} => flow'[f] = flow[f],
         service = "open" => FlowIsSound(flow'[f], status'[f], object'[f].timer, p, a, t, collected[f])
  PROVE  DeviceInv'
<1>1. DeviceTypes'
  BY DEF DeviceInv, DeviceTypes, MapTypes
<1>2. ActiveIsBounded'
  BY NoneAdded DEF DeviceInv, OthersGiveWay
<1>3. FlowsAreSound'
  <2> SUFFICES ASSUME service = "open", NEW g \in Flows
               PROVE  FlowIsSound(flow'[g], status'[g], object'[g].timer, poll'[g], added'[g], told'[g], collected'[g])
    BY DEF FlowsAreSound
  <2>1. CASE g = f
    BY <2>1 DEF DeviceInv, DeviceTypes
  <2>2. CASE g # f
    <3>1. FlowIsSound(flow[g], status[g], object[g].timer, poll[g], added[g], told[g], collected[g])
      BY DEF DeviceInv, FlowsAreSound
    <3>2. /\ poll'[g] = poll[g] /\ added'[g] = added[g] /\ told'[g] = told[g] /\ collected'[g] = collected[g]
          /\ flow'[g] = flow[g] \/ (flow[g] = "terminal" /\ flow'[g] = "gone")
          /\ status'[g] = status[g] /\ object'[g].timer = object[g].timer
      BY <2>2 DEF DeviceInv, DeviceTypes, OthersGiveWay
    <3> QED BY <3>1, <3>2 DEF FlowIsSound
  <2> QED BY <2>1, <2>2
<1> QED BY <1>1, <1>2, <1>3 DEF DeviceInv

\* What an action leaves alone.
LEMMA Untouched ==
  ASSUME DeviceTypes, NEW f \in Flows
  PROVE  /\ poll = [poll EXCEPT ![f] = poll[f]] /\ cancels = [cancels EXCEPT ![f] = cancels[f]]
         /\ added = [added EXCEPT ![f] = added[f]] /\ told = [told EXCEPT ![f] = told[f]]
         /\ poll[f] \in {"none", "exchanging", "user", "committing", "writing"}
         /\ cancels[f] \in BOOLEAN /\ added[f] \in BOOLEAN /\ told[f] \in BOOLEAN /\ collected[f] \in BOOLEAN
BY DEF DeviceTypes

LEMMA SoundNow ==
  ASSUME DeviceInv, NEW f \in Flows
  PROVE  /\ DeviceTypes
         /\ flow[f] \in {"unused", "starting", "pending", "terminal", "gone"}
         /\ service = "open" => FlowIsSound(flow[f], status[f], object[f].timer, poll[f], added[f], told[f], collected[f])
BY DEF DeviceInv, DeviceTypes, FlowsAreSound

\* A step that changes f's object only.
LEMMA ObjectSet ==
  ASSUME DeviceTypes, NEW f \in Flows, NEW o \in FlowObject, object' = [object EXCEPT ![f] = o],
         UNCHANGED <<flow, ended, status>>
  PROVE  MapTypes' /\ OthersGiveWay(f) /\ flow'[f] = flow[f] /\ status'[f] = status[f] /\ object'[f] = o
BY DEF DeviceTypes, MapTypes, OthersGiveWay

LEMMA MapUntouched ==
  ASSUME DeviceTypes, NEW f \in Flows, UNCHANGED <<flow, ended, status, object>>
  PROVE  MapTypes' /\ OthersGiveWay(f) /\ flow'[f] = flow[f] /\ status'[f] = status[f] /\ object'[f] = object[f]
BY DEF DeviceTypes, MapTypes, OthersGiveWay

LEMMA ObjectFields ==
  ASSUME NEW o \in FlowObject, NEW how \in {"token", "user"}
  PROVE  /\ [o EXCEPT !.due = TRUE] \in FlowObject /\ [o EXCEPT !.due = TRUE].timer = o.timer
         /\ [o EXCEPT !.authorized = "user"] \in FlowObject /\ [o EXCEPT !.authorized = "user"].timer = o.timer
         /\ [o EXCEPT !.cancelled = TRUE] \in FlowObject /\ [o EXCEPT !.cancelled = TRUE].timer = o.timer
         /\ [o EXCEPT !.timer = "first"] \in FlowObject
         /\ [o EXCEPT !.authorized = how, !.due = FALSE, !.timer = "extended"] \in FlowObject
         /\ [o EXCEPT !.authorized = how, !.due = FALSE, !.timer = "extended"].timer = "extended"
         /\ [o EXCEPT !.cancelled = TRUE, !.timer = "none"] \in FlowObject
         /\ [o EXCEPT !.cancelled = TRUE, !.timer = "none"].timer = "none"
BY DEF FlowObject

LEMMA OneObject ==
  ASSUME NEW f, NEW x, NEW y, NEW z
  PROVE  /\ [object EXCEPT ![f].due = x] = [object EXCEPT ![f] = [object[f] EXCEPT !.due = x]]
         /\ [object EXCEPT ![f].authorized = x] = [object EXCEPT ![f] = [object[f] EXCEPT !.authorized = x]]
         /\ [object EXCEPT ![f].cancelled = x] = [object EXCEPT ![f] = [object[f] EXCEPT !.cancelled = x]]
         /\ [object EXCEPT ![f].timer = x] = [object EXCEPT ![f] = [object[f] EXCEPT !.timer = x]]
         /\ [object EXCEPT ![f].authorized = x, ![f].due = y, ![f].timer = z]
              = [object EXCEPT ![f] = [object[f] EXCEPT !.authorized = x, !.due = y, !.timer = z]]
OBVIOUS

LEMMA TimeKept ==
  ASSUME DeviceInv, NEW f \in Flows, TimePasses(f) \/ UserArrives(f) \/ ExchangeAuthorizes(f)
  PROVE  DeviceInv'
<1>1. /\ DeviceTypes /\ object[f] \in FlowObject
      /\ service = "open" => FlowIsSound(flow[f], status[f], object[f].timer, poll[f], added[f], told[f], collected[f])
      /\ flow[f] \in {"unused", "starting", "pending", "terminal", "gone"}
  BY SoundNow DEF DeviceTypes
<1> DEFINE o == object[f]
<1>2. ASSUME NEW o2 \in FlowObject, object' = [object EXCEPT ![f] = o2], UNCHANGED <<flow, ended, status>>,
             NEW p \in {"none", "exchanging", "user", "committing", "writing"}, poll' = [poll EXCEPT ![f] = p],
             UNCHANGED <<cancels, added, told, collected, service>>,
             p # "none" => poll[f] # "none", o2.timer = "first" => object[f].timer = "first",
             p = "none" => poll[f] = "none"
      PROVE  DeviceInv'
  <2>1. MapTypes' /\ OthersGiveWay(f) /\ flow'[f] = flow[f] /\ status'[f] = status[f] /\ object'[f] = o2
    BY <1>1, <1>2, ObjectSet
  <2>2. /\ cancels' = [cancels EXCEPT ![f] = cancels[f]]
        /\ added' = [added EXCEPT ![f] = added[f]] /\ told' = [told EXCEPT ![f] = told[f]]
        /\ cancels[f] \in BOOLEAN /\ added[f] \in BOOLEAN /\ told[f] \in BOOLEAN
    BY <1>1, <1>2, Untouched
  <2>3. service = "open" => FlowIsSound(flow'[f], status'[f], object'[f].timer, p, added[f], told[f], collected[f])
    BY <1>1, <1>2, <2>1 DEF FlowIsSound
  <2> QED BY <1>2, <2>1, <2>2, <2>3, OneFlowKept, ZenonT(60)
<1>3. CASE TimePasses(f)
  <2>1. object' = [object EXCEPT ![f] = [o EXCEPT !.due = TRUE]]
    BY <1>3, OneObject DEF TimePasses
  <2>2. [o EXCEPT !.due = TRUE] \in FlowObject /\ [o EXCEPT !.due = TRUE].timer = o.timer
    BY <1>1, ObjectFields
  <2>3. poll' = [poll EXCEPT ![f] = poll[f]] /\ poll[f] \in {"none", "exchanging", "user", "committing", "writing"}
    BY <1>1, <1>3, Untouched DEF TimePasses
  <2>4. UNCHANGED <<flow, ended, status>> /\ UNCHANGED <<cancels, added, told, collected, service>>
    BY <1>3 DEF TimePasses
  <2> QED BY <1>2, <2>1, <2>2, <2>3, <2>4
<1>4. CASE UserArrives(f)
  <2>1. object' = [object EXCEPT ![f] = [o EXCEPT !.authorized = "user"]]
    BY <1>4, OneObject DEF UserArrives
  <2>2. [o EXCEPT !.authorized = "user"] \in FlowObject /\ [o EXCEPT !.authorized = "user"].timer = o.timer
    BY <1>1, ObjectFields
  <2>3. poll' = [poll EXCEPT ![f] = "committing"] /\ poll[f] # "none"
    BY <1>4 DEF UserArrives
  <2>4. UNCHANGED <<flow, ended, status>> /\ UNCHANGED <<cancels, added, told, collected, service>>
    BY <1>4 DEF UserArrives
  <2> QED BY <1>2, <2>1, <2>2, <2>3, <2>4
<1>5. CASE ExchangeAuthorizes(f)
  <2>1. PICK how \in {"token", "user"}, next \in {"user", "committing"} : Authorized(f, how, next)
    BY <1>5 DEF ExchangeAuthorizes
  <2> DEFINE o2 == [o EXCEPT !.authorized = how, !.due = FALSE, !.timer = "extended"]
  <2>2. object' = [object EXCEPT ![f] = o2]
    BY <2>1, OneObject DEF Authorized
  <2>3. o2 \in FlowObject /\ o2.timer = "extended"
    BY <1>1, ObjectFields
  <2>4. poll' = [poll EXCEPT ![f] = next] /\ poll[f] # "none"
    BY <1>5, <2>1 DEF Authorized, ExchangeAuthorizes
  <2>5. UNCHANGED <<flow, ended, status>> /\ UNCHANGED <<cancels, added, told, collected, service>>
    BY <2>1 DEF Authorized
  <2> HIDE DEF o2
  <2> QED BY <1>2, <2>2, <2>3, <2>4, <2>5
<1> QED BY <1>3, <1>4, <1>5

\* The poll goes on.
LEMMA PollGoesOn ==
  ASSUME DeviceInv, NEW f \in Flows, PollStarts(f) \/ CommitStarts(f) \/ CommitRetries(f)
  PROVE  DeviceInv'
<1>1. /\ DeviceTypes /\ object[f] \in FlowObject
      /\ service = "open" => FlowIsSound(flow[f], status[f], object[f].timer, poll[f], added[f], told[f], collected[f])
  BY SoundNow DEF DeviceTypes
<1>2. /\ UNCHANGED <<flow, ended, status, object>> /\ UNCHANGED <<cancels, added, told, collected, service>>
      /\ flow[f] = "pending" \/ poll[f] # "none"
  BY DEF PollStarts, CommitStarts, CommitRetries
<1>3. PICK p \in {"exchanging", "user", "committing", "writing"} : poll' = [poll EXCEPT ![f] = p]
  <2>1. object[f].authorized \in {"no", "token", "user"}
    BY <1>1 DEF FlowObject
  <2> QED BY <2>1 DEF PollStarts, CommitStarts, CommitRetries
<1>4. MapTypes' /\ OthersGiveWay(f) /\ flow'[f] = flow[f] /\ status'[f] = status[f] /\ object'[f] = object[f]
  BY <1>1, <1>2, MapUntouched
<1>5. /\ cancels' = [cancels EXCEPT ![f] = cancels[f]]
      /\ added' = [added EXCEPT ![f] = added[f]] /\ told' = [told EXCEPT ![f] = told[f]]
      /\ cancels[f] \in BOOLEAN /\ added[f] \in BOOLEAN /\ told[f] \in BOOLEAN
  BY <1>1, <1>2, Untouched
<1>6. service = "open" => FlowIsSound(flow'[f], status'[f], object'[f].timer, p, added[f], told[f], collected[f])
  BY <1>1, <1>2, <1>4 DEF FlowIsSound
<1> QED BY <1>2, <1>3, <1>4, <1>5, <1>6, OneFlowKept, ZenonT(60)

\* The flow ends: its timer, a poll that finds it due or terminal, its time to
\* live, a cancel().
LEMMA TimersKept ==
  ASSUME DeviceInv, NEW f \in Flows, TimerFires(f) \/ TerminalForgotten(f)
  PROVE  DeviceInv'
<1>1. /\ DeviceTypes /\ object[f] \in FlowObject
      /\ service = "open" => FlowIsSound(flow[f], status[f], object[f].timer, poll[f], added[f], told[f], collected[f])
      /\ flow[f] \in {"unused", "starting", "pending", "terminal", "gone"}
  BY SoundNow DEF DeviceTypes
<1>2. /\ UNCHANGED <<poll, cancels, added, told, collected, service>>
      /\ poll' = [poll EXCEPT ![f] = poll[f]] /\ cancels' = [cancels EXCEPT ![f] = cancels[f]]
      /\ added' = [added EXCEPT ![f] = added[f]] /\ told' = [told EXCEPT ![f] = told[f]]
      /\ poll[f] \in {"none", "exchanging", "user", "committing", "writing"}
      /\ cancels[f] \in BOOLEAN /\ added[f] \in BOOLEAN /\ told[f] \in BOOLEAN
  <2>1. UNCHANGED <<poll, cancels, added, told, collected, service>>
    BY DEF TimerFires, TerminalForgotten
  <2> QED BY <1>1, <2>1, Untouched
<1>3. ASSUME MapTypes', OthersGiveWay(f), flow'[f] \in {"pending", "starting"} => flow'[f] = flow[f],
             service = "open" => FlowIsSound(flow'[f], status'[f], object'[f].timer, poll[f], added[f], told[f], collected[f])
      PROVE  DeviceInv'
  BY <1>2, <1>3, OneFlowKept, ZenonT(60)
<1>4. CASE TerminalForgotten(f)
  <2>1. RemoveFlow(f) /\ UNCHANGED status /\ flow[f] = "terminal"
    BY <1>4 DEF TerminalForgotten
  <2>2. /\ MapTypes' /\ OthersGiveWay(f) /\ flow'[f] = "gone" /\ object'[f].timer = object[f].timer
    BY <1>1, <2>1, FlowRemoved
  <2>3. service = "open" => FlowIsSound(flow'[f], status'[f], object'[f].timer, poll[f], added[f], told[f], collected[f])
    BY <1>1, <2>1, <2>2 DEF FlowIsSound
  <2> QED BY <1>3, <2>2, <2>3
<1>5. CASE TimerFires(f) /\ object[f].timer = "first" /\ poll[f] = "none"
  <2>1. RememberTerminal(f, "ended")
    BY <1>5 DEF TimerFires
  <2>2. /\ MapTypes' /\ OthersGiveWay(f)
        /\ service # "open" => UNCHANGED <<flow, ended, status, object>>
        /\ service = "open" => /\ flow'[f] = "terminal" /\ status'[f] = "ended"
                               /\ object'[f].timer = IF flow[f] = "pending" THEN "none" ELSE object[f].timer
    BY <1>1, <2>1, FlowRemembered
  <2>3. service = "open" => FlowIsSound(flow'[f], status'[f], object'[f].timer, poll[f], added[f], told[f], collected[f])
    BY <1>1, <1>5, <2>2 DEF FlowIsSound
  <2> QED BY <1>3, <2>2, <2>3
<1>6. CASE TimerFires(f) /\ ~(object[f].timer = "first" /\ poll[f] = "none")
  <2>1. object' = [object EXCEPT ![f] = Aborted(object[f])] /\ UNCHANGED <<flow, ended, status>>
    BY <1>6 DEF TimerFires
  <2>2. Aborted(object[f]) \in FlowObject /\ Aborted(object[f]).timer = "none"
    BY <1>1, AbortedObject
  <2>3. MapTypes' /\ OthersGiveWay(f) /\ flow'[f] = flow[f] /\ status'[f] = status[f] /\ object'[f] = Aborted(object[f])
    BY <1>1, <2>1, <2>2, ObjectSet
  <2>4. service = "open" => FlowIsSound(flow'[f], status'[f], object'[f].timer, poll[f], added[f], told[f], collected[f])
    BY <1>1, <2>2, <2>3 DEF FlowIsSound
  <2> QED BY <1>3, <2>3, <2>4
<1> QED BY <1>4, <1>5, <1>6

LEMMA PollReportsKept ==
  ASSUME DeviceInv, NEW f \in Flows, PollReports(f)
  PROVE  DeviceInv'
<1>1. /\ DeviceTypes /\ flow[f] \in {"unused", "starting", "pending", "terminal", "gone"}
      /\ service = "open" /\ FlowIsSound(flow[f], status[f], object[f].timer, poll[f], added[f], told[f], collected[f])
  BY SoundNow DEF PollReports
<1>2. /\ UNCHANGED <<collected, service>>
      /\ poll' = [poll EXCEPT ![f] = poll[f]] /\ cancels' = [cancels EXCEPT ![f] = cancels[f]]
      /\ added' = [added EXCEPT ![f] = added[f]]
      /\ poll[f] \in {"none", "exchanging", "user", "committing", "writing"}
      /\ cancels[f] \in BOOLEAN /\ added[f] \in BOOLEAN /\ told[f] \in BOOLEAN
  <2>1. UNCHANGED <<poll, cancels, added, collected, service>>
    BY DEF PollReports
  <2> QED BY <1>1, <2>1, Untouched
<1>3. CASE /\ flow[f] = "terminal" /\ told' = [told EXCEPT ![f] = told[f] \/ status[f] = "ended"]
           /\ UNCHANGED <<flow, ended, status, object>>
  <2> DEFINE t == told[f] \/ status[f] = "ended"
  <2>1. t \in BOOLEAN /\ told' = [told EXCEPT ![f] = t]
    BY <1>3
  <2>2. MapTypes' /\ OthersGiveWay(f) /\ flow'[f] = flow[f] /\ status'[f] = status[f] /\ object'[f] = object[f]
    BY <1>1, <1>3, MapUntouched
  <2>3. FlowIsSound(flow'[f], status'[f], object'[f].timer, poll[f], added[f], t, collected[f])
    BY <1>1, <1>3, <2>2 DEF FlowIsSound
  <2> HIDE DEF t
  <2> QED BY <1>2, <2>1, <2>2, <2>3, OneFlowKept
<1>4. CASE /\ flow[f] = "pending" /\ poll[f] = "none"
           /\ RememberTerminal(f, "ended") /\ told' = [told EXCEPT ![f] = TRUE]
  <2>1. /\ MapTypes' /\ OthersGiveWay(f) /\ flow'[f] = "terminal" /\ status'[f] = "ended" /\ object'[f].timer = "none"
    BY <1>1, <1>4, FlowRemembered
  <2>2. FlowIsSound(flow'[f], status'[f], object'[f].timer, poll[f], added[f], TRUE, collected[f])
    BY <1>1, <1>4, <2>1 DEF FlowIsSound
  <2>3. flow'[f] \in {"pending", "starting"} => flow'[f] = flow[f]
    BY <2>1
  <2> QED BY <1>2, <1>4, <2>1, <2>2, <2>3, OneFlowKept
<1> QED BY <1>3, <1>4 DEF PollReports

LEMMA CancelKept ==
  ASSUME DeviceInv, NEW f \in Flows, CancelFlow(f)
  PROVE  DeviceInv'
<1>1. /\ DeviceTypes /\ object[f] \in FlowObject
      /\ flow[f] \in {"unused", "starting", "pending", "terminal", "gone"}
      /\ service = "open" => FlowIsSound(flow[f], status[f], object[f].timer, poll[f], added[f], told[f], collected[f])
  BY SoundNow DEF DeviceTypes
<1>2. /\ UNCHANGED <<collected, service>>
      /\ poll' = [poll EXCEPT ![f] = poll[f]] /\ added' = [added EXCEPT ![f] = added[f]]
      /\ poll[f] \in {"none", "exchanging", "user", "committing", "writing"}
      /\ cancels[f] \in BOOLEAN /\ added[f] \in BOOLEAN /\ told[f] \in BOOLEAN
      /\ UNCHANGED told => told' = [told EXCEPT ![f] = told[f]]
      /\ UNCHANGED cancels => cancels' = [cancels EXCEPT ![f] = cancels[f]]
  <2>1. UNCHANGED <<poll, added, collected, service>>
    BY DEF CancelFlow
  <2> QED BY <1>1, <2>1, Untouched
<1>3. CASE /\ flow[f] = "pending" /\ poll[f] # "none"
           /\ object' = [object EXCEPT ![f].cancelled = TRUE] /\ cancels' = [cancels EXCEPT ![f] = TRUE]
           /\ UNCHANGED <<flow, ended, status, told>>
  <2> DEFINE o == [object[f] EXCEPT !.cancelled = TRUE]
  <2>1. o \in FlowObject /\ o.timer = object[f].timer /\ object' = [object EXCEPT ![f] = o]
    BY <1>1, <1>3, ObjectFields, OneObject
  <2> HIDE DEF o
  <2>2. MapTypes' /\ OthersGiveWay(f) /\ flow'[f] = flow[f] /\ status'[f] = status[f] /\ object'[f] = o
    BY <1>1, <1>3, <2>1, ObjectSet
  <2>3. service = "open" => FlowIsSound(flow'[f], status'[f], object'[f].timer, poll[f], added[f], told[f], collected[f])
    BY <1>1, <2>1, <2>2
  <2> QED BY <1>2, <1>3, <2>2, <2>3, OneFlowKept, ZenonT(60)
<1>4. CASE /\ (flow[f] = "pending" /\ poll[f] = "none") \/ (flow[f] = "terminal" /\ status[f] = "ended")
           /\ RemoveFlow(f) /\ told' = [told EXCEPT ![f] = TRUE] /\ UNCHANGED <<status, cancels>>
  <2>1. /\ MapTypes' /\ OthersGiveWay(f) /\ flow'[f] = "gone"
        /\ object'[f].timer = IF flow[f] = "pending" THEN "none" ELSE object[f].timer
    BY <1>1, <1>4, FlowRemoved
  <2>2. service = "open" => FlowIsSound(flow'[f], status'[f], object'[f].timer, poll[f], added[f], TRUE, collected[f])
    BY <1>1, <1>2, <1>4, <2>1 DEF FlowIsSound
  <2>3. flow'[f] \in {"pending", "starting"} => flow'[f] = flow[f]
    BY <2>1
  <2> QED BY <1>2, <1>4, <2>1, <2>2, <2>3, OneFlowKept
<1> QED BY <1>3, <1>4 DEF CancelFlow

\* The poll is over: it gave up, failed or added the account.
LEMMA PollOver ==
  ASSUME DeviceInv, NEW f \in Flows, PollGivesUp(f) \/ PollFails(f) \/ CommitSucceeds(f)
  PROVE  DeviceInv'
<1>1. /\ DeviceTypes /\ poll[f] # "none"
      /\ flow[f] \in {"unused", "starting", "pending", "terminal", "gone"}
      /\ service = "open" => FlowIsSound(flow[f], status[f], object[f].timer, poll[f], added[f], told[f], collected[f])
  BY SoundNow DEF PollGivesUp, MayGiveUp, PollFails, CommitSucceeds
<1>2. /\ UNCHANGED <<collected, service>>
      /\ poll' = [poll EXCEPT ![f] = "none"] /\ cancels' = [cancels EXCEPT ![f] = FALSE]
      /\ cancels[f] \in BOOLEAN /\ added[f] \in BOOLEAN /\ told[f] \in BOOLEAN
      /\ UNCHANGED told => told' = [told EXCEPT ![f] = told[f]]
      /\ UNCHANGED added => added' = [added EXCEPT ![f] = added[f]]
  BY <1>1, Untouched DEF PollGivesUp, PollFails, CommitSucceeds, PollEnds
<1>3. ASSUME MapTypes', OthersGiveWay(f), flow'[f] \in {"pending", "starting"} => flow'[f] = flow[f],
             NEW a \in BOOLEAN, added' = [added EXCEPT ![f] = a], NEW t \in BOOLEAN, told' = [told EXCEPT ![f] = t],
             service = "open" => FlowIsSound(flow'[f], status'[f], object'[f].timer, "none", a, t, collected[f])
      PROVE  DeviceInv'
  BY <1>2, <1>3, OneFlowKept
<1>4. CASE RememberTerminal(f, "ended") /\ told' = [told EXCEPT ![f] = TRUE] /\ UNCHANGED added
  <2>1. /\ MapTypes' /\ OthersGiveWay(f)
        /\ service # "open" => UNCHANGED <<flow, ended, status, object>>
        /\ service = "open" => /\ flow'[f] = "terminal" /\ status'[f] = "ended"
                               /\ object'[f].timer = IF flow[f] = "pending" THEN "none" ELSE object[f].timer
    BY <1>1, <1>4, FlowRemembered
  <2>2. service = "open" => FlowIsSound(flow'[f], status'[f], object'[f].timer, "none", added[f], TRUE, collected[f])
    BY <1>1, <2>1 DEF FlowIsSound
  <2>3. flow'[f] \in {"pending", "starting"} => flow'[f] = flow[f]
    BY <2>1
  <2> QED BY <1>2, <1>3, <1>4, <2>1, <2>2, <2>3
<1>5. CASE cancels[f] /\ flow[f] = "pending" /\ RemoveFlow(f) /\ UNCHANGED <<status, added>>
           /\ told' = [told EXCEPT ![f] = told[f] \/ cancels[f]]
  <2>1. /\ MapTypes' /\ OthersGiveWay(f) /\ flow'[f] = "gone" /\ object'[f].timer = "none"
    BY <1>1, <1>5, FlowRemoved
  <2>2. told' = [told EXCEPT ![f] = TRUE]
    BY <1>2, <1>5
  <2>3. service = "open" => FlowIsSound(flow'[f], status'[f], object'[f].timer, "none", added[f], TRUE, collected[f])
    BY <1>1, <2>1 DEF FlowIsSound
  <2> QED BY <1>2, <1>3, <1>5, <2>1, <2>2, <2>3
<1>6. CASE ~(cancels[f] /\ flow[f] = "pending") /\ UNCHANGED <<flow, ended, status, object, added>>
           /\ told' = [told EXCEPT ![f] = told[f] \/ cancels[f]]
  <2> DEFINE t == told[f] \/ cancels[f]
  <2>1. t \in BOOLEAN /\ told' = [told EXCEPT ![f] = t]
    BY <1>6
  <2>2. MapTypes' /\ OthersGiveWay(f) /\ flow'[f] = flow[f] /\ status'[f] = status[f] /\ object'[f] = object[f]
    BY <1>1, <1>6, MapUntouched
  <2>3. service = "open" => FlowIsSound(flow'[f], status'[f], object'[f].timer, "none", added[f], t, collected[f])
    BY <1>1, <1>6, <2>2 DEF FlowIsSound
  <2> HIDE DEF t
  <2> QED BY <1>2, <1>3, <1>6, <2>1, <2>2, <2>3
<1>7. CASE CommitSucceeds(f)
  <2>1. RememberTerminal(f, "complete") /\ added' = [added EXCEPT ![f] = TRUE] /\ UNCHANGED told
    BY <1>7 DEF CommitSucceeds
  <2>2. /\ MapTypes' /\ OthersGiveWay(f)
        /\ service # "open" => UNCHANGED <<flow, ended, status, object>>
        /\ service = "open" => /\ flow'[f] = "terminal" /\ status'[f] = "complete"
                               /\ object'[f].timer = IF flow[f] = "pending" THEN "none" ELSE object[f].timer
    BY <1>1, <2>1, FlowRemembered
  <2>3. service = "open" => FlowIsSound(flow'[f], status'[f], object'[f].timer, "none", TRUE, told[f], collected[f])
    BY <1>1, <2>2 DEF FlowIsSound
  <2>4. flow'[f] \in {"pending", "starting"} => flow'[f] = flow[f]
    BY <2>2
  <2> QED BY <1>2, <1>3, <2>1, <2>2, <2>3, <2>4
<1>8. CASE PollGivesUp(f)
  BY <1>4, <1>5, <1>6, <1>8 DEF PollGivesUp
<1> QED BY <1>4, <1>7, <1>8 DEF PollFails

\* start(): the due flows are collected and the new one begins if there is room.
LEMMA StartKept ==
  ASSUME DeviceInv, NEW f \in Flows, StartFlow(f)
  PROVE  DeviceInv'
<1> DEFINE kept == Kept(ended, Due)
           entry == IF Room THEN "starting" ELSE "unused"
<1>1. DeviceTypes /\ flow[f] = "unused" /\ service = "open"
  BY DEF StartFlow, DeviceInv
<1>2. /\ Due \subseteq Pending /\ Due \in SUBSET Flows /\ f \notin Due /\ IsFiniteSet(Due)
      /\ IsFiniteSet(Pending) /\ IsFiniteSet(Starting)
  <2>1. Due \subseteq Pending /\ Due \in SUBSET Flows /\ f \notin Due
    BY <1>1 DEF Due, Pending
  <2> QED BY <2>1, FS_Subset DEF DeviceInv, ActiveIsBounded
<1>3. Remember(Due, kept, "ended") /\ ended \in Seq(Flows)
  BY <1>1 DEF StartFlow, DeviceTypes
<1>4. /\ ended' \in Seq(Flows) /\ Len(ended') <= MAX_DEVICE_FLOWS
      /\ status' \in [Flows -> {"none", "ended", "complete"}]
      /\ object' \in [Flows -> FlowObject]
      /\ \A g \in Flows : /\ status'[g] = IF g \in Due THEN "ended" ELSE status[g]
                          /\ object'[g].timer = IF g \in Due /\ flow[g] = "pending" THEN "none" ELSE object[g].timer
  BY <1>1, <1>2, <1>3, Remembered
<1> HIDE DEF kept
<1> DEFINE after == FlowAfter(Due, kept)
<1>5. /\ after \in [Flows -> {"unused", "starting", "pending", "terminal", "gone"}]
      /\ \A g \in Flows : IF g \in Due THEN after[g] = "terminal"
                          ELSE after[g] = flow[g] \/ (flow[g] = "terminal" /\ after[g] = "gone")
  BY <1>1, <1>2, FlowsAfter
<1>6. flow' = [after EXCEPT ![f] = IF Room THEN "starting" ELSE after[f]]
  BY DEF StartFlow, kept
<1> HIDE DEF after
<1>7. /\ flow' \in [Flows -> {"unused", "starting", "pending", "terminal", "gone"}]
      /\ flow'[f] = entry
      /\ \A g \in Flows \ {f} : IF g \in Due THEN flow'[g] = "terminal"
                                ELSE flow'[g] = flow[g] \/ (flow[g] = "terminal" /\ flow'[g] = "gone")
  BY <1>1, <1>2, <1>5, <1>6
<1>8. /\ UNCHANGED <<poll, cancels, added, told, service>>
      /\ collected' = [g \in Flows |-> collected[g] \/ (g \in Due /\ poll[g] # "none")]
  BY DEF StartFlow
<1>9. DeviceTypes'
  BY <1>1, <1>4, <1>7, <1>8 DEF DeviceTypes
<1>10. FlowsAreSound'
  <2> SUFFICES ASSUME NEW g \in Flows
               PROVE  FlowIsSound(flow'[g], status'[g], object'[g].timer, poll'[g], added'[g], told'[g], collected'[g])
    BY DEF FlowsAreSound
  <2>1. FlowIsSound(flow[g], status[g], object[g].timer, poll[g], added[g], told[g], collected[g])
    BY <1>1, SoundNow
  <2>2. collected[g] \in BOOLEAN /\ collected'[g] = (collected[g] \/ (g \in Due /\ poll[g] # "none"))
    BY <1>1, <1>8 DEF DeviceTypes
  <2>3. g \in Due => flow[g] = "pending"
    BY DEF Due, Pending
  <2>4. CASE g \in Due
    <3>1. /\ flow'[g] = "terminal" /\ status'[g] = "ended" /\ object'[g].timer = "none"
          /\ flow[g] = "pending" /\ collected'[g] = (collected[g] \/ poll[g] # "none")
          /\ poll'[g] = poll[g] /\ added'[g] = added[g] /\ told'[g] = told[g]
      BY <1>2, <1>4, <1>7, <1>8, <2>2, <2>3, <2>4
    <3> QED BY <2>1, <2>2, <3>1 DEF FlowIsSound
  <2>5. CASE g \notin Due /\ g # f
    <3>1. /\ flow'[g] = flow[g] \/ (flow[g] = "terminal" /\ flow'[g] = "gone")
          /\ status'[g] = status[g] /\ object'[g].timer = object[g].timer /\ collected'[g] = collected[g]
          /\ poll'[g] = poll[g] /\ added'[g] = added[g] /\ told'[g] = told[g]
      BY <1>4, <1>7, <1>8, <2>2, <2>5
    <3> QED BY <2>1, <3>1 DEF FlowIsSound
  <2>6. CASE g = f
    <3>1. /\ flow'[g] \in {"unused", "starting"} /\ flow[g] = "unused"
          /\ status'[g] = status[g] /\ object'[g].timer = object[g].timer /\ collected'[g] = collected[g]
          /\ poll'[g] = poll[g] /\ added'[g] = added[g] /\ told'[g] = told[g]
      BY <1>1, <1>2, <1>4, <1>7, <1>8, <2>2, <2>6
    <3> QED BY <2>1, <3>1 DEF FlowIsSound
  <2> QED BY <2>4, <2>5, <2>6
<1>11. ActiveIsBounded'
  <2> DEFINE P == Pending \ Due
             S == Starting
             Q == Pending'
             R == Starting'
             T == S \cup {f}
  <2>1. Q \subseteq P
    BY <1>1, <1>7 DEF Pending
  <2>2. R \subseteq (IF Room THEN T ELSE S)
    BY <1>1, <1>7 DEF Starting
  <2>3. IsFiniteSet(P) /\ IsFiniteSet(S)
    BY <1>2, FS_Difference
  <2>4. P \subseteq Pending
    OBVIOUS
  <2>5. Cardinality(P) + Cardinality(S) <= MAX_DEVICE_FLOWS /\ Cardinality(P) \in Nat /\ Cardinality(S) \in Nat
        /\ MAX_DEVICE_FLOWS \in Nat
    <3>1. Cardinality(P) <= Cardinality(Pending) /\ Cardinality(P) \in Nat /\ Cardinality(Pending) \in Nat
          /\ Cardinality(S) \in Nat
      <4> HIDE DEF P, S
      <4> QED BY <1>2, <2>3, <2>4, FS_Subset, FS_CardinalityType DEF S
    <3>2. Cardinality(Pending) + Cardinality(S) <= MAX_DEVICE_FLOWS
      BY DEF DeviceInv, ActiveIsBounded
    <3> HIDE DEF P, S
    <3> QED BY <3>1, <3>2, DeviceFlowAssumption
  <2>6. f \notin S
    BY <1>1 DEF Starting
  <2> HIDE DEF P, S, Q, R
  <2>7. IsFiniteSet(T) /\ Cardinality(T) = Cardinality(S) + 1
    BY <2>3, <2>6, FS_AddElement
  <2> HIDE DEF T
  <2>8. IsFiniteSet(Q) /\ Cardinality(Q) <= Cardinality(P) /\ Cardinality(Q) \in Nat
    BY <2>1, <2>3, FS_Subset, FS_CardinalityType
  <2>9. CASE Room
    <3>1. IsFiniteSet(R) /\ Cardinality(R) <= Cardinality(T) /\ Cardinality(R) \in Nat
      BY <2>2, <2>7, <2>9, FS_Subset, FS_CardinalityType
    <3>2. Cardinality(P) + Cardinality(S) < MAX_DEVICE_FLOWS
      BY <2>9 DEF Room, P, S
    <3>3. Cardinality(Q) + Cardinality(R) <= MAX_DEVICE_FLOWS
      <4>1. Cardinality(T) = Cardinality(S) + 1
        BY <2>7
      <4> QED BY <2>5, <2>8, <3>1, <3>2, <4>1
    <3> QED BY <2>8, <3>1, <3>3 DEF ActiveIsBounded, Q, R
  <2>10. CASE ~Room
    <3>1. IsFiniteSet(R) /\ Cardinality(R) <= Cardinality(S) /\ Cardinality(R) \in Nat
      BY <2>2, <2>3, <2>10, FS_Subset, FS_CardinalityType
    <3>2. Cardinality(Q) + Cardinality(R) <= MAX_DEVICE_FLOWS
      BY <2>5, <2>8, <3>1
    <3> QED BY <2>8, <3>1, <3>2 DEF ActiveIsBounded, Q, R
  <2> QED BY <2>9, <2>10
<1> QED BY <1>9, <1>10, <1>11 DEF DeviceInv

\* The device code arrives or is refused.
LEMMA CodeKept ==
  ASSUME DeviceInv, NEW f \in Flows, CodeArrives(f)
  PROVE  DeviceInv'
<1>1. DeviceTypes /\ flow[f] = "starting" /\ object[f] \in FlowObject
  BY DEF CodeArrives, DeviceInv, DeviceTypes
<1>2. UNCHANGED <<ended, status, poll, cancels, added, told, collected, service>>
  BY DEF CodeArrives
<1>3. CASE flow' = [flow EXCEPT ![f] = "gone"] /\ UNCHANGED object
  <2>1. DeviceTypes'
    BY <1>1, <1>2, <1>3 DEF DeviceTypes
  <2>2. ActiveIsBounded'
    <3>1. \A g \in Flows : flow'[g] \in {"pending", "starting"} => flow'[g] = flow[g]
      BY <1>1, <1>3 DEF DeviceTypes
    <3> QED BY <3>1, NoneAdded DEF DeviceInv
  <2>3. FlowsAreSound'
    <3> SUFFICES ASSUME service = "open", NEW g \in Flows
                 PROVE  FlowIsSound(flow'[g], status'[g], object'[g].timer, poll'[g], added'[g], told'[g], collected'[g])
      BY <1>2 DEF FlowsAreSound
    <3>1. FlowIsSound(flow[g], status[g], object[g].timer, poll[g], added[g], told[g], collected[g])
      BY <1>1, SoundNow
    <3>2. /\ status'[g] = status[g] /\ object'[g].timer = object[g].timer /\ poll'[g] = poll[g]
          /\ added'[g] = added[g] /\ told'[g] = told[g] /\ collected'[g] = collected[g]
          /\ flow'[g] = flow[g] \/ (flow[g] = "starting" /\ flow'[g] = "gone")
      BY <1>1, <1>2, <1>3 DEF DeviceTypes
    <3> QED BY <3>1, <3>2 DEF FlowIsSound
  <2> QED BY <2>1, <2>2, <2>3 DEF DeviceInv
<1>4. CASE service = "open" /\ flow' = [flow EXCEPT ![f] = "pending"] /\ object' = [object EXCEPT ![f].timer = "first"]
  <2> DEFINE o == [object[f] EXCEPT !.timer = "first"]
  <2>1. o \in FlowObject /\ object' = [object EXCEPT ![f] = o]
    BY <1>1, <1>4, ObjectFields, OneObject
  <2> HIDE DEF o
  <2>2. DeviceTypes'
    BY <1>1, <1>2, <1>4, <2>1 DEF DeviceTypes
  <2>3. FlowsAreSound'
    <3> SUFFICES ASSUME NEW g \in Flows
                 PROVE  FlowIsSound(flow'[g], status'[g], object'[g].timer, poll'[g], added'[g], told'[g], collected'[g])
      BY <1>2 DEF FlowsAreSound
    <3>1. FlowIsSound(flow[g], status[g], object[g].timer, poll[g], added[g], told[g], collected[g])
      BY <1>1, <1>4, SoundNow
    <3>2. /\ status'[g] = status[g] /\ poll'[g] = poll[g]
          /\ added'[g] = added[g] /\ told'[g] = told[g] /\ collected'[g] = collected[g]
          /\ \/ flow'[g] = flow[g] /\ object'[g].timer = object[g].timer
             \/ flow[g] = "starting" /\ flow'[g] = "pending"
      BY <1>1, <1>2, <1>4, <2>1 DEF DeviceTypes
    <3> QED BY <3>1, <3>2 DEF FlowIsSound
  <2>4. ActiveIsBounded'
    <3> DEFINE P == Pending
               S == Starting
               Q == Pending'
               R == Starting'
    <3>1. Q = P \cup {f} /\ R = S \ {f} /\ f \notin P /\ f \in S
      BY <1>1, <1>4 DEF Pending, Starting, DeviceTypes
    <3>2. IsFiniteSet(P) /\ IsFiniteSet(S) /\ Cardinality(P) + Cardinality(S) <= MAX_DEVICE_FLOWS
      BY DEF DeviceInv, ActiveIsBounded
    <3> HIDE DEF P, Q, R, S
    <3>3. IsFiniteSet(Q) /\ Cardinality(Q) = Cardinality(P) + 1
      BY <3>1, <3>2, FS_AddElement
    <3>4. IsFiniteSet(R) /\ Cardinality(R) = Cardinality(S) - 1
      BY <3>1, <3>2, FS_RemoveElement
    <3>5. Cardinality(P) \in Nat /\ Cardinality(S) \in Nat /\ MAX_DEVICE_FLOWS \in Nat
      BY <3>2, FS_CardinalityType, DeviceFlowAssumption
    <3>6. Cardinality(Q) + Cardinality(R) <= MAX_DEVICE_FLOWS
      BY <3>2, <3>3, <3>4, <3>5
    <3> QED BY <3>3, <3>4, <3>6 DEF ActiveIsBounded, Q, R
  <2> QED BY <2>2, <2>3, <2>4 DEF DeviceInv
<1> QED BY <1>3, <1>4 DEF CodeArrives

\* A service that closes keeps at most the sign-ins being settled.
LEMMA ServiceCloses ==
  ASSUME DeviceInv, CloseService \/ CloseReturns \/ ForceCloseService
  PROVE  DeviceInv'
<1>1. DeviceTypes /\ MAX_DEVICE_FLOWS \in Nat
  BY DeviceFlowAssumption DEF DeviceInv
<1>2. /\ UNCHANGED <<status, poll, cancels, added, told, collected>>
      /\ ended' = <<>> /\ service' \in {"closing", "closed"}
  BY DEF CloseService, CloseReturns, ForceCloseService, Shut
<1>3. /\ flow' \in [Flows -> {"unused", "starting", "pending", "terminal", "gone"}]
      /\ \A g \in Flows : flow'[g] \in {"pending", "starting"} => flow'[g] = flow[g]
  BY <1>1 DEF CloseService, CloseReturns, ForceCloseService, Shut, DeviceTypes
<1>4. object' \in [Flows -> FlowObject]
  <2>1. Removed(Flows) \in [Flows -> FlowObject]
    BY <1>1, RemovedObjects
  <2>2. \A g \in Flows : [object[g] EXCEPT !.cancelled = TRUE, !.timer = "none"] \in FlowObject
    BY <1>1, ObjectFields DEF DeviceTypes
  <2>3. CASE CloseService
    BY <2>1, <2>2, <2>3 DEF CloseService
  <2>4. CASE CloseReturns \/ ForceCloseService
    BY <2>1, <2>4 DEF CloseReturns, ForceCloseService, Shut
  <2> QED BY <2>3, <2>4
<1>5. ended' \in Seq(Flows) /\ Len(ended') <= MAX_DEVICE_FLOWS
  BY <1>1, <1>2
<1>6. DeviceTypes'
  BY <1>1, <1>2, <1>3, <1>4, <1>5 DEF DeviceTypes
<1>7. ActiveIsBounded'
  BY <1>3, NoneAdded DEF DeviceInv
<1>8. FlowsAreSound'
  BY <1>2 DEF FlowsAreSound
<1> QED BY <1>6, <1>7, <1>8 DEF DeviceInv

LEMMA DeviceInitial == DeviceInit => DeviceInv
<1> SUFFICES ASSUME DeviceInit PROVE DeviceInv
  OBVIOUS
<1>1. Len(ended) = 0 /\ ended \in Seq(Flows) /\ MAX_DEVICE_FLOWS \in Nat
  BY DeviceFlowAssumption DEF DeviceInit
<1>2. DeviceTypes
  BY <1>1 DEF DeviceInit, DeviceTypes, FlowObject
<1>3. FlowsAreSound
  BY DEF DeviceInit, FlowsAreSound, FlowIsSound
<1>4. ActiveIsBounded
  <2>1. Pending = {} /\ Starting = {}
    BY DEF DeviceInit, Pending, Starting
  <2>2. IsFiniteSet({}) /\ Cardinality({}) = 0
    BY FS_EmptySet
  <2> QED BY <1>1, <2>1, <2>2 DEF ActiveIsBounded
<1> QED BY <1>2, <1>3, <1>4 DEF DeviceInv

LEMMA DeviceKept == DeviceInv /\ [DeviceNext]_deviceVars => DeviceInv'
<1> SUFFICES ASSUME DeviceInv, [DeviceNext]_deviceVars PROVE DeviceInv'
  OBVIOUS
<1>1. CASE UNCHANGED deviceVars
  BY <1>1 DEF deviceVars, DeviceInv, DeviceTypes, FlowsAreSound, ActiveIsBounded, Pending, Starting
<1>2. ASSUME NEW f \in Flows, StartFlow(f) \/ CodeArrives(f) PROVE DeviceInv'
  BY <1>2, StartKept, CodeKept
<1>3. ASSUME NEW f \in Flows, TimePasses(f) \/ UserArrives(f) \/ ExchangeAuthorizes(f) PROVE DeviceInv'
  BY <1>3, TimeKept
<1>4. ASSUME NEW f \in Flows, TimerFires(f) \/ TerminalForgotten(f) PROVE DeviceInv'
  BY <1>4, TimersKept
<1>5. ASSUME NEW f \in Flows, PollReports(f) \/ CancelFlow(f) PROVE DeviceInv'
  BY <1>5, PollReportsKept, CancelKept
<1>6. ASSUME NEW f \in Flows, PollStarts(f) \/ CommitStarts(f) \/ CommitRetries(f) PROVE DeviceInv'
  BY <1>6, PollGoesOn
<1>7. ASSUME NEW f \in Flows, PollGivesUp(f) \/ PollFails(f) \/ CommitSucceeds(f) PROVE DeviceInv'
  BY <1>7, PollOver
<1>8. CASE CloseService \/ CloseReturns \/ ForceCloseService
  BY <1>8, ServiceCloses
<1> QED BY <1>1, <1>2, <1>3, <1>4, <1>5, <1>6, <1>7, <1>8 DEF DeviceNext

\* While the service is open, a caller that was told its sign-in ended finds
\* no account added, unless start() collected the flow meanwhile; starting,
\* pending and remembered flows keep to their limits: for any flows, any
\* limit, and however polls, timers, cancels and starts interleave
\* (device_flow.ts:359, :417, :425, :500).
THEOREM FlowsEnd == DeviceSpec => []FlowsEndOnce
<1>1. DeviceInv => FlowsEndOnce
  <2> SUFFICES ASSUME DeviceInv PROVE FlowsEndOnce
    OBVIOUS
  <2>1. FlowsAreBounded
    BY DEF DeviceInv, DeviceTypes, ActiveIsBounded, FlowsAreBounded
  <2>2. EndedAddsNothing
    BY DEF DeviceInv, DeviceTypes, FlowsAreSound, FlowIsSound, EndedAddsNothing
  <2> QED BY <2>1, <2>2 DEF FlowsEndOnce
<1> QED BY <1>1, DeviceInitial, DeviceKept, PTL DEF DeviceSpec

------------------------------------------------------------------------------
(* What /v1/responses remembers: the first of a set, and its subsets. *)

\* The elements of a finite set that fewer than n others precede.
Preceding(S, R, r) == {s \in S : <<s, r>> \in R}
Lowest(S, R, n) == {r \in S : Cardinality(Preceding(S, R, r)) < n}
Precedes(R, S) == /\ \A x \in S : <<x, x>> \notin R
                  /\ \A x, y, z \in S : <<x, y>> \in R /\ <<y, z>> \in R => <<x, z>> \in R

LEMMA PrecedingIsSmall ==
  ASSUME NEW S, IsFiniteSet(S), NEW R, Precedes(R, S), NEW r \in S
  PROVE  /\ Cardinality(S) \in Nat /\ IsFiniteSet(Preceding(S, R, r)) /\ Cardinality(Preceding(S, R, r)) \in Nat
         /\ Cardinality(Preceding(S, R, r)) < Cardinality(S)
<1> DEFINE P == Preceding(S, R, r)
<1>1. P \in SUBSET S /\ r \notin P
  BY DEF Preceding, Precedes
<1> HIDE DEF P
<1>2. IsFiniteSet(P) /\ Cardinality(P) <= Cardinality(S) /\ (Cardinality(S) = Cardinality(P) => S = P)
  BY <1>1, FS_Subset
<1>3. P # S
  BY <1>1
<1>4. Cardinality(P) \in Nat /\ Cardinality(S) \in Nat
  BY <1>2, FS_CardinalityType
<1>5. Cardinality(P) < Cardinality(S)
  BY <1>2, <1>3, <1>4
<1> QED BY <1>2, <1>4, <1>5 DEF P

\* As many as asked for, or all.
LEMMA LowestAreMany ==
  ASSUME NEW S, IsFiniteSet(S), NEW R, Precedes(R, S)
  PROVE  /\ \A n \in Nat : n >= Cardinality(S) => Lowest(S, R, n) = S
         /\ \A n \in Nat : n <= Cardinality(S) => Cardinality(Lowest(S, R, n)) >= n
         /\ \A n : Lowest(S, R, n) \in SUBSET S
<1>1. ASSUME NEW n \in Nat, n >= Cardinality(S) PROVE Lowest(S, R, n) = S
  <2>1. ASSUME NEW r \in S PROVE Cardinality(Preceding(S, R, r)) < n
    BY <1>1, PrecedingIsSmall
  <2> QED BY <2>1 DEF Lowest
<1>2. \A n : Lowest(S, R, n) \in SUBSET S
  BY DEF Lowest
<1> DEFINE Few == {n \in Nat : n <= Cardinality(S) /\ ~(Cardinality(Lowest(S, R, n)) >= n)}
<1>3. Few = {}
  <2> SUFFICES ASSUME Few # {} PROVE FALSE
    OBVIOUS
  <2>1. PICK m \in Few : \A n \in Few : m <= n
    BY LeastNumber
  <2>2. Cardinality(S) \in Nat /\ m \in Nat /\ m <= Cardinality(S)
    BY <2>1, FS_CardinalityType
  <2>3. \A n \in Nat : IsFiniteSet(Lowest(S, R, n)) /\ Cardinality(Lowest(S, R, n)) \in Nat
    BY <1>2, FS_Subset, FS_CardinalityType
  <2>4. m # 0
    BY <2>1, <2>3
  <2> DEFINE k == m - 1
             G == Lowest(S, R, k)
             H == Lowest(S, R, m)
  <2>5. k \in Nat /\ k < m /\ k <= Cardinality(S) /\ m = k + 1
    BY <2>2, <2>4
  <2>6. Cardinality(G) >= k
    BY <2>1, <2>5
  <2>7. IsFiniteSet(G) /\ Cardinality(G) \in Nat /\ IsFiniteSet(H) /\ Cardinality(H) \in Nat /\ ~(Cardinality(H) >= m)
    BY <2>1, <2>2, <2>3, <2>5
  <2>8. G \subseteq H
    <3>1. ASSUME NEW r \in S, Cardinality(Preceding(S, R, r)) < k PROVE Cardinality(Preceding(S, R, r)) < m
      BY <2>5, <3>1, PrecedingIsSmall
    <3> QED BY <3>1 DEF Lowest
  <2> HIDE DEF k
  <2>9. Cardinality(G) <= Cardinality(H)
    BY <2>7, <2>8, FS_Subset
  <2>10. Cardinality(G) = k
    BY <2>5, <2>6, <2>7, <2>9
  <2> DEFINE Ranks == {Cardinality(Preceding(S, R, r)) : r \in S \ G}
  <2>11. S \ G # {}
    <3>1. G # S
      BY <2>2, <2>5, <2>10
    <3> QED BY <1>2, <3>1
  <2>12. Ranks \in SUBSET Nat /\ Ranks # {}
    BY <2>11, PrecedingIsSmall
  <2>13. PICK r \in S \ G : \A s \in S \ G : Cardinality(Preceding(S, R, r)) <= Cardinality(Preceding(S, R, s))
    <3>1. PICK x \in Ranks : \A y \in Ranks : x <= y
      BY <2>12, LeastNumber
    <3> QED BY <3>1
  <2> DEFINE P == Preceding(S, R, r)
  <2>14. P \subseteq G
    <3> SUFFICES ASSUME NEW s \in P, s \notin G PROVE FALSE
      OBVIOUS
    <3>1. s \in S /\ <<s, r>> \in R
      BY DEF Preceding
    <3> DEFINE Q == Preceding(S, R, s)
    <3>2. Q \subseteq P /\ s \notin Q
      BY <3>1 DEF Preceding, Precedes
    <3>3. IsFiniteSet(P) /\ Cardinality(P) \in Nat /\ Cardinality(Q) \in Nat
      BY <3>1, PrecedingIsSmall
    <3>4. Cardinality(P) <= Cardinality(Q)
      BY <2>13, <3>1
    <3> HIDE DEF P, Q
    <3>5. Cardinality(Q) <= Cardinality(P) /\ (Cardinality(P) = Cardinality(Q) => P = Q)
      BY <3>2, <3>3, FS_Subset
    <3>6. P = Q
      BY <3>3, <3>4, <3>5
    <3> QED BY <3>2, <3>6
  <2>15. Cardinality(P) <= k /\ Cardinality(P) \in Nat
    <3>1. Cardinality(P) <= Cardinality(G)
      BY <2>7, <2>14, FS_Subset
    <3>2. Cardinality(P) \in Nat
      BY PrecedingIsSmall
    <3> QED BY <2>10, <3>1, <3>2
  <2>16. r \in H
    <3>1. Cardinality(P) < m
      BY <2>5, <2>15
    <3> QED BY <3>1 DEF Lowest
  <2>17. G \cup {r} \subseteq H /\ Cardinality(G \cup {r}) = k + 1
    BY <2>7, <2>8, <2>10, <2>16, FS_AddElement
  <2>18. Cardinality(G \cup {r}) <= Cardinality(H)
    BY <2>7, <2>17, FS_Subset
  <2> QED BY <2>5, <2>7, <2>17, <2>18
<1> QED BY <1>1, <1>2, <1>3

\* A finite set has a subset of every smaller size.
LEMMA SubsetOfSize ==
  ASSUME NEW S, IsFiniteSet(S), NEW k \in Nat, k <= Cardinality(S)
  PROVE  \E T \in SUBSET S : Cardinality(T) = k
<1> DEFINE I == {n \in Nat : k <= n /\ \E T \in SUBSET S : Cardinality(T) = n}
<1>1. Cardinality(S) \in I
  BY FS_CardinalityType
<1>2. PICK m \in I : \A n \in I : m <= n
  BY <1>1, LeastNumber
<1>3. PICK T \in SUBSET S : Cardinality(T) = m
  BY <1>2
<1>4. m = k
  <2> SUFFICES ASSUME m # k PROVE FALSE
    OBVIOUS
  <2>1. m \in Nat /\ k < m /\ IsFiniteSet(T)
    BY <1>2, <1>3, FS_Subset
  <2>2. T # {}
    BY <1>3, <2>1, FS_EmptySet
  <2>3. PICK x \in T : TRUE
    BY <2>2
  <2>4. Cardinality(T \ {x}) = m - 1
    BY <1>3, <2>1, <2>3, FS_RemoveElement
  <2>5. m - 1 \in Nat /\ k <= m - 1
    BY <2>1
  <2>6. m - 1 \in I
    BY <2>4, <2>5
  <2>7. m <= m - 1
    BY <1>2, <2>6
  <2> QED BY <2>1, <2>7
<1> QED BY <1>3, <1>4

------------------------------------------------------------------------------
(* What the tables hold. *)

ReceiptRows == [state : {"none", "route_only", "partial", "complete", "expired"}, born : Nat, seq : Nat]
CheckpointRows == [size : 0..9, seq : Nat]
CarrierRows == [state : {"none", "partial", "complete"}, born : Nat, seq : Nat]
Histories == [receipts : [Responses -> ReceiptRows], checkpoints : [Responses -> CheckpointRows],
              carriers : [Converted \cup Plain -> CarrierRows], legacy : SUBSET Legacy, uncertain : BOOLEAN]

\* A carrier that can be presented has a checkpoint and a complete receipt, and a
\* checkpoint a receipt that says so.
Linked(h) ==
  /\ \A r \in Converted : h.carriers[r].state = "complete" => h.checkpoints[r].size > 0 /\ h.receipts[r].state = "complete"
  /\ \A r \in Responses : h.checkpoints[r].size > 0 => h.receipts[r].state \in {"partial", "complete"}
Sound(h) == h \in Histories /\ Linked(h)

\* The limits.
CheckpointsWithin(h) == StoredReplay(h) <= MAX_STORED_REPLAY /\ Cardinality(Checkpoints(h)) <= MAX_RESPONSES
Within(h) == CheckpointsWithin(h) /\ Cardinality(Receipts(h)) <= MAX_RECEIPTS

\* A response's carrier could be promoted as far as the other tables are concerned.
Backed(h, r) == h.carriers[r].state # "none" => h.checkpoints[r].size > 0 /\ h.receipts[r].state = "complete"

\* What an operation may do to the history: it forgets no response without
\* saying so, and leaves no carrier without its checkpoint.
Keeps(h, g) ==
  /\ \A r \in Responses : h.receipts[r].state # "none" => g.receipts[r].state # "none" \/ g.uncertain
  /\ h.uncertain => g.uncertain
  /\ \A r \in Converted : Backed(h, r) => Backed(g, r)
Shrinks(h, g) ==
  /\ \A r \in Responses : g.checkpoints[r].size > 0 => g.checkpoints[r].size = h.checkpoints[r].size
  /\ \A r \in Responses : g.receipts[r].state # "none" => h.receipts[r].state # "none"

LEMMA KeepsTransitive == ASSUME NEW f, NEW g, NEW h, Keeps(f, g), Keeps(g, h) PROVE Keeps(f, h)
BY DEF Keeps

LEMMA ShrinksTransitive ==
  ASSUME NEW f \in Histories, NEW g \in Histories, NEW h \in Histories, Shrinks(f, g), Shrinks(g, h)
  PROVE  Shrinks(f, h)
<1>1. \A r \in Responses : h.checkpoints[r].size > 0 => g.checkpoints[r].size > 0
  BY DEF Shrinks
<1> QED BY <1>1 DEF Shrinks

LEMMA NothingChanges == \A h : Keeps(h, h) /\ Shrinks(h, h)
BY DEF Keeps, Shrinks

LEMMA KindsOfRequests ==
  /\ Converted \subseteq Responses /\ Native \subseteq Responses /\ Converted \subseteq Converted \cup Plain
  /\ \A q \in Converted \cup Plain : q \in Responses => q \in Converted
  /\ IsFiniteSet(Responses) /\ IsFiniteSet(Converted \cup Plain) /\ IsFiniteSet(Legacy)
  /\ MAX_RESPONSES \in Nat /\ MAX_RECEIPTS \in Nat /\ MAX_STORED_REPLAY \in Nat /\ MAX_CARRIERS \in Nat
  /\ MAX_RESPONSES <= MAX_RECEIPTS
BY HistoryAssumption, FS_Union DEF Responses

LEMMA CountsAreFinite ==
  ASSUME NEW h \in Histories
  PROVE  /\ Receipts(h) \in SUBSET Responses /\ IsFiniteSet(Receipts(h)) /\ Cardinality(Receipts(h)) \in Nat
         /\ Checkpoints(h) \in SUBSET Responses /\ IsFiniteSet(Checkpoints(h)) /\ Cardinality(Checkpoints(h)) \in Nat
         /\ IsFiniteSet(Units(h)) /\ StoredReplay(h) \in Nat
         /\ IsFiniteSet(h.legacy) /\ Cardinality(h.legacy) \in Nat
<1>1. Receipts(h) \in SUBSET Responses /\ Checkpoints(h) \in SUBSET Responses
  BY DEF Receipts, Checkpoints
<1>2. IsFiniteSet(Responses \X (1..9))
  <2>1. \A a, b \in Int : IsFiniteSet(a..b)
    BY FS_Interval
  <2>3. 1 \in Int /\ 9 \in Int
    OBVIOUS
  <2>2. IsFiniteSet(1..9)
    BY <2>1, <2>3, Zenon
  <2> QED BY <2>2, KindsOfRequests, FS_Product
<1>3. Units(h) \in SUBSET (Responses \X (1..9))
  BY DEF Units
<1>4. h.legacy \in SUBSET Legacy
  BY DEF Histories
<1>5. IsFiniteSet(Receipts(h)) /\ IsFiniteSet(Checkpoints(h)) /\ IsFiniteSet(Units(h)) /\ IsFiniteSet(h.legacy)
  BY <1>1, <1>2, <1>3, <1>4, KindsOfRequests, FS_Subset
<1> QED BY <1>1, <1>5, FS_CardinalityType DEF StoredReplay

\* The limits last while the tables only shrink.
LEMMA ShrunkWithin ==
  ASSUME NEW h \in Histories, NEW g \in Histories, Shrinks(h, g)
  PROVE  /\ Checkpoints(g) \subseteq Checkpoints(h) /\ Units(g) \subseteq Units(h) /\ Receipts(g) \subseteq Receipts(h)
         /\ CheckpointsWithin(h) => CheckpointsWithin(g)
         /\ Within(h) => Within(g)
<1>1. Checkpoints(g) \subseteq Checkpoints(h) /\ Receipts(g) \subseteq Receipts(h)
  BY DEF Shrinks, Checkpoints, Receipts
<1>2. Units(g) \subseteq Units(h)
  <2> SUFFICES ASSUME NEW u \in Responses \X (1..9), u[2] <= g.checkpoints[u[1]].size PROVE u[2] <= h.checkpoints[u[1]].size
    BY DEF Units
  <2>1. PICK r \in Responses, i \in 1..9 : u = <<r, i>>
    OBVIOUS
  <2>2. g.checkpoints[r].size \in 0..9 /\ i <= g.checkpoints[r].size
    BY <2>1 DEF Histories, CheckpointRows
  <2>3. g.checkpoints[r].size > 0
    BY <2>2
  <2> QED BY <2>1, <2>2, <2>3 DEF Shrinks
<1>3. Cardinality(Checkpoints(g)) <= Cardinality(Checkpoints(h)) /\ Cardinality(Receipts(g)) <= Cardinality(Receipts(h))
  BY <1>1, CountsAreFinite, FS_Subset
<1>4. StoredReplay(g) <= StoredReplay(h)
  BY <1>2, CountsAreFinite, FS_Subset DEF StoredReplay
<1>5. CheckpointsWithin(h) => CheckpointsWithin(g)
  BY <1>3, <1>4, CountsAreFinite, KindsOfRequests DEF CheckpointsWithin
<1>6. Within(h) => Within(g)
  BY <1>3, <1>5, CountsAreFinite, KindsOfRequests DEF Within
<1> QED BY <1>1, <1>2, <1>5, <1>6

------------------------------------------------------------------------------
(* Expiry and eviction. *)

LEMMA CarriersRemoved ==
  ASSUME NEW c \in [Converted \cup Plain -> CarrierRows], NEW gone
  PROVE  /\ WithoutCarriers(c, gone) \in [Converted \cup Plain -> CarrierRows]
         /\ \A q \in Converted \cup Plain : WithoutCarriers(c, gone)[q] = IF q \in gone THEN NoCarrier ELSE c[q]
<1>1. NoCarrier \in CarrierRows
  BY DEF NoCarrier, CarrierRows
<1> QED BY <1>1 DEF WithoutCarriers

LEMMA ExpireReceiptsSound ==
  ASSUME NEW h, Sound(h)
  PROVE  LET g == ExpireReceipts(h)
         IN  /\ Sound(g) /\ Keeps(h, g) /\ Shrinks(h, g)
             /\ \A r \in Responses : ~Overdue(h.receipts[r].born) => g.receipts[r] = h.receipts[r]
<1> DEFINE due == {r \in Receipts(h) : h.receipts[r].state # "expired" /\ Overdue(h.receipts[r].born)}
           R == [r \in Responses |-> IF r \in due THEN [h.receipts[r] EXCEPT !.state = "expired"] ELSE h.receipts[r]]
           C == [r \in Responses |-> IF r \in due THEN NoCheckpoint ELSE h.checkpoints[r]]
           K == WithoutCarriers(h.carriers, due)
           g == ExpireReceipts(h)
<1>1. h \in Histories /\ Linked(h)
  BY DEF Sound
<1>2. g = [h EXCEPT !.receipts = R, !.checkpoints = C, !.carriers = K]
  BY DEF ExpireReceipts
<1>3. due \subseteq Responses
  BY DEF Receipts
<1>4. R \in [Responses -> ReceiptRows] /\ C \in [Responses -> CheckpointRows]
  BY <1>1 DEF Histories, ReceiptRows, CheckpointRows, NoCheckpoint
<1>5. K \in [Converted \cup Plain -> CarrierRows] /\ \A q \in Converted \cup Plain : K[q] = IF q \in due THEN NoCarrier ELSE h.carriers[q]
  <2>1. h.carriers \in [Converted \cup Plain -> CarrierRows]
    BY <1>1 DEF Histories
  <2> QED BY <2>1, CarriersRemoved
<1>6. \A r \in Responses : R[r].state = IF r \in due THEN "expired" ELSE h.receipts[r].state
  BY <1>1 DEF Histories, ReceiptRows
<1>7. \A r \in Responses : C[r].size = IF r \in due THEN 0 ELSE h.checkpoints[r].size
  BY DEF NoCheckpoint
<1>8. \A r \in due : h.receipts[r].state # "none" /\ Overdue(h.receipts[r].born)
  BY DEF Receipts
<1>9. \A r \in Responses : r \notin due => R[r] = h.receipts[r]
  OBVIOUS
<1> HIDE DEF due, R, C, K
<1>10. g \in Histories /\ g.receipts = R /\ g.checkpoints = C /\ g.carriers = K /\ g.uncertain = h.uncertain
  BY <1>1, <1>2, <1>4, <1>5 DEF Histories
<1> HIDE DEF g
<1>11. \A r \in Converted : K[r].state = IF r \in due THEN "none" ELSE h.carriers[r].state
  BY <1>5 DEF NoCarrier
<1>12. Linked(g)
  BY <1>1, <1>6, <1>7, <1>10, <1>11, KindsOfRequests DEF Linked
<1>13. Keeps(h, g)
  BY <1>3, <1>6, <1>7, <1>8, <1>10, <1>11, KindsOfRequests DEF Keeps, Backed
<1>14. Shrinks(h, g)
  BY <1>6, <1>7, <1>8, <1>10 DEF Shrinks
<1> QED BY <1>8, <1>9, <1>10, <1>12, <1>13, <1>14 DEF Sound, g

LEMMA ExpireLegacySound ==
  ASSUME NEW h, Sound(h)
  PROVE  LET g == ExpireLegacy(h)
         IN  Sound(g) /\ Keeps(h, g) /\ Shrinks(h, g) /\ g.receipts = h.receipts
<1>1. h \in Histories /\ Linked(h)
  BY DEF Sound
<1>2. CASE h.legacy # {} /\ Overdue(0)
  <2> DEFINE g == ExpireLegacy(h)
  <2>1. g = [h EXCEPT !.legacy = {}, !.uncertain = TRUE]
    BY <1>2 DEF ExpireLegacy
  <2>2. /\ g \in Histories /\ g.receipts = h.receipts /\ g.checkpoints = h.checkpoints /\ g.carriers = h.carriers
        /\ g.uncertain = TRUE
    BY <1>1, <2>1 DEF Histories
  <2> HIDE DEF g
  <2>3. Linked(g) /\ Keeps(h, g) /\ Shrinks(h, g)
    BY <1>1, <2>2 DEF Linked, Keeps, Shrinks, Backed
  <2> QED BY <2>2, <2>3 DEF Sound, g
<1>3. CASE ~(h.legacy # {} /\ Overdue(0))
  BY <1>3, NothingChanges DEF ExpireLegacy
<1> QED BY <1>2, <1>3

LEMMA ExpiredAwaySound ==
  ASSUME NEW h, Sound(h)
  PROVE  LET g == ExpiredAway(h)
         IN  /\ Sound(g) /\ Keeps(h, g) /\ Shrinks(h, g)
             /\ \A r \in Responses : ~Overdue(h.receipts[r].born) => g.receipts[r] = h.receipts[r]
<1> DEFINE f == ExpireReceipts(h)
           g == ExpireLegacy(f)
<1>1. /\ Sound(f) /\ Keeps(h, f) /\ Shrinks(h, f)
      /\ \A r \in Responses : ~Overdue(h.receipts[r].born) => f.receipts[r] = h.receipts[r]
  BY ExpireReceiptsSound
<1> HIDE DEF f
<1>2. Sound(g) /\ Keeps(f, g) /\ Shrinks(f, g) /\ g.receipts = f.receipts
  BY <1>1, ExpireLegacySound
<1> HIDE DEF g
<1>3. Keeps(h, g)
  BY <1>1, <1>2, KeepsTransitive
<1>4. Shrinks(h, g)
  BY <1>1, <1>2, ShrinksTransitive DEF Sound
<1>5. ExpiredAway(h) = g
  BY DEF ExpiredAway, f, g
<1> QED BY <1>1, <1>2, <1>3, <1>4, <1>5

LEMMA DropCheckpointsSound ==
  ASSUME NEW h, Sound(h), NEW gone \in SUBSET Checkpoints(h)
  PROVE  LET g == DropCheckpoints(h, gone)
         IN  /\ Sound(g) /\ Keeps(h, g) /\ Shrinks(h, g)
             /\ Checkpoints(g) = Checkpoints(h) \ gone /\ g.legacy = h.legacy
<1> DEFINE R == [r \in Responses |-> IF r \in gone /\ h.receipts[r].state # "expired"
                                    THEN [h.receipts[r] EXCEPT !.state = "route_only"] ELSE h.receipts[r]]
           C == [r \in Responses |-> IF r \in gone THEN NoCheckpoint ELSE h.checkpoints[r]]
           K == WithoutCarriers(h.carriers, gone)
           g == DropCheckpoints(h, gone)
<1>1. h \in Histories /\ Linked(h) /\ gone \subseteq Responses /\ \A r \in gone : h.checkpoints[r].size > 0
  BY DEF Sound, Checkpoints
<1>2. g = [h EXCEPT !.checkpoints = C, !.carriers = K, !.receipts = R]
  BY DEF DropCheckpoints
<1>4. R \in [Responses -> ReceiptRows] /\ C \in [Responses -> CheckpointRows]
  BY <1>1 DEF Histories, ReceiptRows, CheckpointRows, NoCheckpoint
<1>5. K \in [Converted \cup Plain -> CarrierRows] /\ \A q \in Converted \cup Plain : K[q] = IF q \in gone THEN NoCarrier ELSE h.carriers[q]
  <2>1. h.carriers \in [Converted \cup Plain -> CarrierRows]
    BY <1>1 DEF Histories
  <2> QED BY <2>1, CarriersRemoved
<1>6. \A r \in gone : h.receipts[r].state \in {"partial", "complete"}
  BY <1>1 DEF Linked
<1>7. \A r \in Responses : R[r].state = IF r \in gone THEN "route_only" ELSE h.receipts[r].state
  BY <1>1, <1>6 DEF Histories, ReceiptRows
<1>8. \A r \in Responses : C[r].size = IF r \in gone THEN 0 ELSE h.checkpoints[r].size
  BY DEF NoCheckpoint
<1> HIDE DEF R, C, K
<1>10. /\ g \in Histories /\ g.receipts = R /\ g.checkpoints = C /\ g.carriers = K /\ g.uncertain = h.uncertain
       /\ g.legacy = h.legacy
  BY <1>1, <1>2, <1>4, <1>5 DEF Histories
<1> HIDE DEF g
<1>11. \A r \in Converted : K[r].state = IF r \in gone THEN "none" ELSE h.carriers[r].state
  BY <1>5 DEF NoCarrier
<1>12. Linked(g)
  BY <1>1, <1>7, <1>8, <1>10, <1>11, KindsOfRequests DEF Linked
<1>13. Keeps(h, g)
  BY <1>1, <1>7, <1>8, <1>10, <1>11, KindsOfRequests DEF Keeps, Backed
<1>14. Shrinks(h, g)
  BY <1>6, <1>7, <1>8, <1>10 DEF Shrinks
<1>15. Checkpoints(g) = Checkpoints(h) \ gone
  BY <1>8, <1>10 DEF Checkpoints
<1> QED BY <1>10, <1>12, <1>13, <1>14, <1>15 DEF Sound, g

\* The oldest checkpoints: as many as asked for, or all.
LEMMA OldestAreMany ==
  ASSUME NEW h \in Histories
  PROVE  /\ \A n : Oldest(h, n) \in SUBSET Checkpoints(h)
         /\ \A n \in Nat : n >= Cardinality(Checkpoints(h)) => Oldest(h, n) = Checkpoints(h)
         /\ \A n \in Nat : n <= Cardinality(Checkpoints(h)) => Cardinality(Oldest(h, n)) >= n
<1> DEFINE S == Checkpoints(h)
           R == {p \in S \X S : h.checkpoints[p[1]].seq < h.checkpoints[p[2]].seq}
<1>1. \A r \in S : r \in Responses /\ h.checkpoints[r].seq \in Nat
  BY DEF Checkpoints, Histories, CheckpointRows
<1>2. \A s, r \in S : <<s, r>> \in R <=> h.checkpoints[s].seq < h.checkpoints[r].seq
  OBVIOUS
<1>3. IsFiniteSet(S)
  BY CountsAreFinite
<1>4. \A r \in S : Preceding(S, R, r) = {s \in S : h.checkpoints[s].seq < h.checkpoints[r].seq}
  BY DEF Preceding
<1>5. \A n : Oldest(h, n) = Lowest(S, R, n)
  BY <1>4 DEF Oldest, Lowest
<1> HIDE DEF S, R
<1>6. Precedes(R, S)
  <2>1. \A x \in S : <<x, x>> \notin R
    BY <1>1, <1>2
  <2>2. ASSUME NEW x \in S, NEW y \in S, NEW z \in S, <<x, y>> \in R, <<y, z>> \in R PROVE <<x, z>> \in R
    <3>1. PICK a \in Nat, b \in Nat, c \in Nat : a = h.checkpoints[x].seq /\ b = h.checkpoints[y].seq /\ c = h.checkpoints[z].seq
      BY <1>1
    <3>2. a < b /\ b < c
      BY <1>2, <2>2, <3>1
    <3>3. a < c
      BY <3>2
    <3> QED BY <1>2, <3>1, <3>3
  <2> QED BY <2>1, <2>2 DEF Precedes
<1>7. /\ \A n \in Nat : n >= Cardinality(S) => Lowest(S, R, n) = S
      /\ \A n \in Nat : n <= Cardinality(S) => Cardinality(Lowest(S, R, n)) >= n
      /\ \A n : Lowest(S, R, n) \in SUBSET S
  BY <1>3, <1>6, LowestAreMany
<1> QED BY <1>5, <1>7 DEF S

\* What is left when at least n of a finite set go.
LEMMA LessRemains ==
  ASSUME NEW S, IsFiniteSet(S), NEW T \in SUBSET S, NEW n \in Nat, Cardinality(T) >= n
  PROVE  Cardinality(S \ T) <= Cardinality(S) - n /\ Cardinality(S \ T) \in Nat
<1>1. Cardinality(S \ T) = Cardinality(S) - Cardinality(S \cap T)
  BY FS_Difference
<1>2. S \cap T = T
  OBVIOUS
<1>3. Cardinality(S) \in Nat /\ Cardinality(T) \in Nat /\ Cardinality(S \ T) \in Nat
  BY FS_Subset, FS_CardinalityType
<1> QED BY <1>1, <1>2, <1>3

LEMMA EvictCheckpointsSound ==
  ASSUME NEW h, Sound(h)
  PROVE  LET g == EvictCheckpointOverflow(h)
         IN  Sound(g) /\ Keeps(h, g) /\ Shrinks(h, g) /\ CheckpointsWithin(g)
<1> DEFINE c == Cardinality(Checkpoints(h))
           over == Cardinality(Checkpoints(h)) + Cardinality(h.legacy) - MAX_RESPONSES
           old == IF over > 0 THEN Min({over, Cardinality(h.legacy)}) ELSE 0
           kept == CHOOSE rest \in SUBSET h.legacy : Cardinality(rest) = Cardinality(h.legacy) - old
           earliest == [h EXCEPT !.legacy = kept, !.uncertain = h.uncertain \/ old > 0]
           gone == IF over > old THEN Oldest(h, over - old) ELSE {}
           byCount == DropCheckpoints(earliest, gone)
           fits == {n \in 0 .. Cardinality(Responses) :
                      StoredReplay(DropCheckpoints(byCount, Oldest(byCount, n))) <= MAX_STORED_REPLAY}
           g == DropCheckpoints(byCount, Oldest(byCount, Min(fits)))
<1>0. g = EvictCheckpointOverflow(h)
  BY DEF EvictCheckpointOverflow
<1>1. /\ h \in Histories /\ Linked(h) /\ h.legacy \in SUBSET Legacy
      /\ IsFiniteSet(h.legacy) /\ Cardinality(h.legacy) \in Nat /\ c \in Nat /\ MAX_RESPONSES \in Nat
  BY CountsAreFinite, KindsOfRequests DEF Sound, Histories
<1>2. PICK l \in Nat : l = Cardinality(h.legacy)
  BY <1>1
<1>3. over \in Int /\ over = c + l - MAX_RESPONSES
  BY <1>1, <1>2
<1>4. old \in Nat /\ old <= l /\ (over <= 0 => old = 0) /\ (over > 0 => old = over \/ old = l)
  <2>1. CASE over > 0
    <3>1. {over, l} \in SUBSET Nat /\ {over, l} # {}
      BY <1>3, <2>1
    <3> HIDE DEF over
    <3>2. Min({over, l}) \in {over, l} /\ \A y \in {over, l} : Min({over, l}) <= y
      BY <3>1, FirstPlace
    <3>3. old = Min({over, l})
      BY <1>2, <2>1
    <3> HIDE DEF old
    <3> QED BY <1>3, <2>1, <3>1, <3>2, <3>3
  <2>2. CASE ~(over > 0)
    <3>1. old = 0
      BY <2>2
    <3> QED BY <1>3, <2>2, <3>1
  <2> QED BY <2>1, <2>2
<1> HIDE DEF over, old
<1>5. kept \in SUBSET h.legacy
  <2>1. l - old \in Nat /\ l - old <= Cardinality(h.legacy)
    BY <1>2, <1>4
  <2>2. \E T \in SUBSET h.legacy : Cardinality(T) = l - old
    BY <1>1, <2>1, SubsetOfSize
  <2> QED BY <1>2, <2>2
<1> HIDE DEF kept
<1>6. /\ earliest \in Histories /\ earliest.receipts = h.receipts /\ earliest.checkpoints = h.checkpoints /\ earliest.carriers = h.carriers
      /\ (h.uncertain => earliest.uncertain)
  BY <1>1, <1>5 DEF Histories
<1> HIDE DEF earliest
<1>7. Sound(earliest) /\ Keeps(h, earliest) /\ Shrinks(h, earliest) /\ Checkpoints(earliest) = Checkpoints(h)
  BY <1>1, <1>6 DEF Sound, Linked, Keeps, Shrinks, Backed, Checkpoints
<1>8. gone \in SUBSET Checkpoints(earliest) /\ (over > old => Cardinality(gone) >= over - old)
  <2>1. CASE over > old
    <3>1. over - old \in Nat /\ over - old <= c
      BY <1>1, <1>2, <1>3, <1>4, <2>1
    <3>2. gone = Oldest(h, over - old)
      BY <2>1
    <3> QED BY <1>1, <1>7, <3>1, <3>2, OldestAreMany
  <2>2. CASE ~(over > old)
    BY <2>2
  <2> QED BY <2>1, <2>2
<1> HIDE DEF gone
<1>9. /\ Sound(byCount) /\ Keeps(earliest, byCount) /\ Shrinks(earliest, byCount)
      /\ Checkpoints(byCount) = Checkpoints(earliest) \ gone
  BY <1>7, <1>8, DropCheckpointsSound
<1> HIDE DEF byCount
<1>10. byCount \in Histories
  BY <1>9 DEF Sound
<1>11. Cardinality(Checkpoints(byCount)) <= MAX_RESPONSES
  <2>1. IsFiniteSet(Checkpoints(earliest)) /\ Cardinality(Checkpoints(earliest)) = c
    BY <1>1, <1>7, CountsAreFinite
  <2>2. CASE over > old
    <3>1. over - old \in Nat /\ Cardinality(gone) >= over - old
      BY <1>3, <1>4, <1>8, <2>2
    <3>2. Cardinality(Checkpoints(byCount)) <= c - (over - old) /\ Cardinality(Checkpoints(byCount)) \in Nat
      BY <1>8, <1>9, <2>1, <3>1, LessRemains
    <3>3. old = l
      BY <1>3, <1>4, <2>2
    <3> HIDE DEF c
    <3> QED BY <1>1, <1>2, <1>3, <1>4, <3>2, <3>3
  <2>3. CASE ~(over > old)
    <3>1. Cardinality(Checkpoints(byCount)) <= c /\ Cardinality(Checkpoints(byCount)) \in Nat
      BY <1>8, <1>9, <2>1, <1>10, CountsAreFinite, FS_Subset
    <3>2. over <= l
      BY <1>3, <1>4, <2>3
    <3> HIDE DEF c
    <3> QED BY <1>1, <1>2, <1>3, <1>4, <3>1, <3>2
  <2> QED BY <2>2, <2>3
<1>12. \A n : Oldest(byCount, n) \in SUBSET Checkpoints(byCount)
  BY <1>10, OldestAreMany
\* Without any checkpoint nothing is stored.
<1>13. fits \in SUBSET Nat /\ fits # {}
  <2> DEFINE n == Cardinality(Responses)
             e == DropCheckpoints(byCount, Oldest(byCount, n))
  <2>1. n \in Nat /\ n >= Cardinality(Checkpoints(byCount))
    <3>1. Checkpoints(byCount) \in SUBSET Responses
      BY <1>10, CountsAreFinite
    <3> QED BY <3>1, KindsOfRequests, FS_Subset, FS_CardinalityType
  <2>2. Oldest(byCount, n) = Checkpoints(byCount)
    BY <1>10, <2>1, OldestAreMany
  <2>3. Sound(e) /\ Checkpoints(e) = Checkpoints(byCount) \ Oldest(byCount, n)
    BY <1>9, <1>12, DropCheckpointsSound
  <2> HIDE DEF e
  <2>4. e \in Histories /\ Checkpoints(e) = {}
    BY <2>2, <2>3 DEF Sound
  <2>5. Units(e) = {}
    <3> SUFFICES ASSUME NEW u \in Responses \X (1..9), u[2] <= e.checkpoints[u[1]].size PROVE FALSE
      BY DEF Units
    <3>1. PICK r \in Responses, i \in 1..9 : u = <<r, i>>
      OBVIOUS
    <3>2. e.checkpoints[r].size \in 0..9 /\ i <= e.checkpoints[r].size
      BY <2>4, <3>1 DEF Histories, CheckpointRows
    <3>3. e.checkpoints[r].size > 0
      BY <3>2
    <3> QED BY <2>4, <3>3 DEF Checkpoints
  <2>6. StoredReplay(e) = 0
    BY <2>5, FS_EmptySet DEF StoredReplay
  <2>7. StoredReplay(e) <= MAX_STORED_REPLAY
    BY <2>6, KindsOfRequests
  <2>8. n \in fits
    BY <2>1, <2>7 DEF e
  <2>9. fits \subseteq Nat
    BY <2>1
  <2> QED BY <2>8, <2>9
<1>14. Min(fits) \in fits
  <2> HIDE DEF fits
  <2> QED BY <1>13, FirstPlace
<1>15. Sound(g) /\ Keeps(byCount, g) /\ Shrinks(byCount, g) /\ Checkpoints(g) \subseteq Checkpoints(byCount)
  BY <1>9, <1>12, DropCheckpointsSound
<1>16. StoredReplay(g) <= MAX_STORED_REPLAY
  BY <1>14
<1> HIDE DEF g, fits
<1>17. Cardinality(Checkpoints(g)) <= MAX_RESPONSES
  <2>1. IsFiniteSet(Checkpoints(byCount)) /\ Cardinality(Checkpoints(byCount)) \in Nat /\ Cardinality(Checkpoints(g)) \in Nat
    BY <1>10, <1>15, CountsAreFinite DEF Sound
  <2>2. Cardinality(Checkpoints(g)) <= Cardinality(Checkpoints(byCount))
    BY <1>15, <2>1, FS_Subset
  <2> QED BY <1>1, <1>11, <2>1, <2>2
<1>18. Keeps(h, g)
  BY <1>7, <1>9, <1>15, KeepsTransitive
<1>19. Shrinks(h, g)
  <2>1. g \in Histories /\ earliest \in Histories
    BY <1>6, <1>15 DEF Sound
  <2>2. Shrinks(h, byCount)
    BY <1>1, <1>7, <1>9, <1>10, <2>1, ShrinksTransitive
  <2> QED BY <1>1, <1>10, <1>15, <2>1, <2>2, ShrinksTransitive
<1> QED BY <1>0, <1>15, <1>16, <1>17, <1>18, <1>19 DEF CheckpointsWithin

LEMMA EvictReceiptsSound ==
  ASSUME NEW h, Sound(h), CheckpointsWithin(h)
  PROVE  LET g == EvictReceiptOverflow(h)
         IN  Sound(g) /\ Keeps(h, g) /\ Shrinks(h, g) /\ Within(g)
<1> DEFINE over == Cardinality(Receipts(h)) - MAX_RECEIPTS
           loose == Receipts(h) \ Checkpoints(h)
           Before(r, s) == \/ h.receipts[r].state = "expired" /\ h.receipts[s].state # "expired"
                           \/ /\ h.receipts[r].state = "expired" <=> h.receipts[s].state = "expired"
                              /\ h.receipts[r].seq < h.receipts[s].seq
           gone == {r \in loose : Cardinality({s \in loose : Before(s, r)}) < over}
           R == [r \in Responses |-> IF r \in gone THEN NoReceipt ELSE h.receipts[r]]
           f == [h EXCEPT !.receipts = R, !.uncertain = TRUE]
           g == EvictReceiptOverflow(h)
           B == {p \in loose \X loose : Before(p[1], p[2])}
<1>0. g = IF over <= 0 \/ gone = {} THEN h ELSE f
  BY DEF EvictReceiptOverflow
<1>1. h \in Histories /\ Linked(h)
  BY DEF Sound
<1>2. /\ IsFiniteSet(Receipts(h)) /\ Receipts(h) \subseteq Responses /\ IsFiniteSet(Checkpoints(h)) /\ IsFiniteSet(loose)
      /\ Checkpoints(h) \subseteq Receipts(h)
  <2>1. Checkpoints(h) \subseteq Receipts(h)
    BY <1>1 DEF Checkpoints, Receipts, Linked
  <2> QED BY <1>1, <2>1, CountsAreFinite, FS_Subset
<1>3. PICK n \in Nat, c \in Nat, l \in Nat : n = Cardinality(Receipts(h)) /\ c = Cardinality(Checkpoints(h)) /\ l = Cardinality(loose)
  BY <1>2, FS_CardinalityType
<1>4. l = n - c
  <2>1. Receipts(h) \cap Checkpoints(h) = Checkpoints(h)
    BY <1>2
  <2>2. Cardinality(Receipts(h) \ Checkpoints(h)) = Cardinality(Receipts(h)) - Cardinality(Receipts(h) \cap Checkpoints(h))
    BY <1>2, FS_Difference
  <2> QED BY <1>3, <2>1, <2>2
<1>5. c <= MAX_RESPONSES /\ MAX_RESPONSES <= MAX_RECEIPTS /\ MAX_RECEIPTS \in Nat /\ MAX_RESPONSES \in Nat
  BY <1>3, KindsOfRequests DEF CheckpointsWithin
<1>6. over = n - MAX_RECEIPTS /\ over <= l
  BY <1>3, <1>4, <1>5
<1> HIDE DEF over
<1>7. CASE over <= 0
  <2>1. Within(h)
    BY <1>3, <1>5, <1>6, <1>7 DEF Within
  <2>2. g = h
    BY <1>0, <1>7
  <2> HIDE DEF g
  <2>3. Sound(g) /\ Keeps(h, g) /\ Shrinks(h, g) /\ Within(g)
    BY <2>1, <2>2, NothingChanges
  <2> QED BY <2>3 DEF g
<1>8. CASE over > 0
  <2>1. over \in Nat
    BY <1>3, <1>5, <1>6, <1>8
  <2>2. \A r \in loose : r \in Responses /\ h.receipts[r].seq \in Nat
    BY <1>1, <1>2 DEF Histories, ReceiptRows
  <2>3. \A s, r \in loose : <<s, r>> \in B <=> Before(s, r)
    OBVIOUS
  <2>4. \A r \in loose : Preceding(loose, B, r) = {s \in loose : Before(s, r)}
    BY <2>3 DEF Preceding
  <2>5. gone = Lowest(loose, B, over)
    BY <2>4 DEF Lowest
  <2>6. Precedes(B, loose)
    <3>1. ASSUME NEW x \in loose PROVE ~Before(x, x)
      BY <2>2
    <3>2. ASSUME NEW x \in loose, NEW y \in loose, NEW z \in loose, Before(x, y), Before(y, z) PROVE Before(x, z)
      <4>1. PICK a \in Nat, b \in Nat, d \in Nat : a = h.receipts[x].seq /\ b = h.receipts[y].seq /\ d = h.receipts[z].seq
        BY <2>2
      <4> QED BY <3>2, <4>1
    <3>3. \A x \in loose : <<x, x>> \notin B
      BY <2>3, <3>1
    <3>4. ASSUME NEW x \in loose, NEW y \in loose, NEW z \in loose, <<x, y>> \in B, <<y, z>> \in B PROVE <<x, z>> \in B
      BY <2>3, <3>2, <3>4
    <3> HIDE DEF loose, B
    <3> QED BY <3>3, <3>4 DEF Precedes
  <2> HIDE DEF B
  <2>7. gone \in SUBSET loose /\ Cardinality(gone) >= over
    <3> HIDE DEF loose, gone
    <3> QED BY <1>2, <1>3, <1>6, <2>1, <2>5, <2>6, LowestAreMany
  <2>8. gone # {}
    <3> HIDE DEF gone
    <3> QED BY <1>8, <2>1, <2>7, FS_EmptySet
  <2>9. g = f
    <3> HIDE DEF gone, f, g
    <3> QED BY <1>0, <1>8, <2>1, <2>8
  <2>10. \A r \in gone : r \in Responses /\ h.receipts[r].state # "none" /\ ~(h.checkpoints[r].size > 0)
    BY <2>7 DEF Receipts, Checkpoints
  <2> HIDE DEF gone
  <2>11. R \in [Responses -> ReceiptRows] /\ \A r \in Responses : R[r].state = IF r \in gone THEN "none" ELSE h.receipts[r].state
    BY <1>1 DEF Histories, ReceiptRows, NoReceipt
  <2> HIDE DEF R
  <2>12. /\ f \in Histories /\ f.receipts = R /\ f.checkpoints = h.checkpoints /\ f.carriers = h.carriers /\ f.uncertain = TRUE
    BY <1>1, <2>11 DEF Histories
  <2> HIDE DEF f
  <2>13. Linked(f)
    BY <1>1, <2>10, <2>11, <2>12, KindsOfRequests DEF Linked
  <2>14. Keeps(h, f) /\ Shrinks(h, f)
    BY <1>1, <2>10, <2>11, <2>12, KindsOfRequests DEF Keeps, Shrinks, Backed
  <2>15. Receipts(f) = Receipts(h) \ gone
    BY <2>10, <2>11, <2>12 DEF Receipts
  <2>16. Cardinality(Receipts(f)) <= n - over
    BY <1>2, <1>3, <2>1, <2>7, <2>15, LessRemains
  <2>17. Cardinality(Receipts(f)) \in Nat
    BY <2>12, CountsAreFinite
  <2>18. Cardinality(Receipts(f)) <= MAX_RECEIPTS
    BY <1>3, <1>5, <1>6, <2>16, <2>17
  <2>19. CheckpointsWithin(f)
    BY <1>1, <2>12, <2>14, ShrunkWithin
  <2>20. Sound(f) /\ Keeps(h, f) /\ Shrinks(h, f) /\ Within(f)
    BY <2>12, <2>13, <2>14, <2>18, <2>19 DEF Sound, Within
  <2> HIDE DEF g
  <2>21. Sound(g) /\ Keeps(h, g) /\ Shrinks(h, g) /\ Within(g)
    BY <2>9, <2>20
  <2> QED BY <2>21 DEF g
<1>9. over <= 0 \/ over > 0
  BY <1>3, <1>5, <1>6
<1> QED BY <1>7, <1>8, <1>9

\* A transaction that changed something ends within the limits.
LEMMA MutateSound ==
  ASSUME NEW h, Sound(h), Within(h), NEW draft, Sound(draft)
  PROVE  LET g == MutateIfChanged(h, draft)
         IN  Sound(g) /\ Keeps(draft, g) /\ Within(g)
<1> DEFINE e == EvictCheckpointOverflow(draft)
           g == EvictReceiptOverflow(e)
<1>1. Sound(e) /\ Keeps(draft, e) /\ CheckpointsWithin(e)
  BY EvictCheckpointsSound
<1> HIDE DEF e
<1>2. Sound(g) /\ Keeps(e, g) /\ Within(g)
  BY <1>1, EvictReceiptsSound
<1> HIDE DEF g
<1>3. Keeps(draft, g)
  BY <1>1, <1>2, KeepsTransitive
<1>4. CASE draft = h
  BY <1>4, NothingChanges DEF MutateIfChanged
<1>5. CASE draft # h
  BY <1>2, <1>3, <1>5 DEF MutateIfChanged, g, e
<1> QED BY <1>4, <1>5

------------------------------------------------------------------------------
(* Receipts, checkpoints, carriers. *)

\* The rows are numbered again; nothing else of them changes.
Numbered(row, n) == [row EXCEPT !.seq = n]
Renumbered(new, rows, k, row, D) ==
  /\ new = [j \in D |-> new[j]]
  /\ \A j \in D : \E n \in Nat : new[j] = IF j = k THEN Numbered(row, n) ELSE Numbered(rows[j], n)

LEMMA InsertedRows ==
  ASSUME NEW D, IsFiniteSet(D), NEW rows, DOMAIN rows = D, NEW k \in D, NEW row
  PROVE  Renumbered(Inserted(rows, k, row), rows, k, row, D)
<1> DEFINE Place(j) == Cardinality({i \in DOMAIN rows : 0 < rows[i].seq /\ rows[i].seq <= rows[j].seq})
           last == Cardinality({i \in DOMAIN rows : 0 < rows[i].seq})
           new == [j \in DOMAIN rows |-> IF j = k THEN Numbered(row, last + 1) ELSE Numbered(rows[j], Place(j))]
<1>1. new = Inserted(rows, k, row)
  BY DEF Inserted, Numbered
<1>2. ASSUME NEW j \in D PROVE Place(j) \in Nat
  <2> DEFINE I == {i \in DOMAIN rows : 0 < rows[i].seq /\ rows[i].seq <= rows[j].seq}
  <2>1. I \in SUBSET D
    OBVIOUS
  <2> HIDE DEF I
  <2>2. Cardinality(I) \in Nat
    BY <2>1, FS_Subset, FS_CardinalityType
  <2> QED BY <2>2 DEF I
<1>3. last + 1 \in Nat
  <2> DEFINE I == {i \in DOMAIN rows : 0 < rows[i].seq}
  <2>1. I \in SUBSET D
    OBVIOUS
  <2> HIDE DEF I
  <2>2. Cardinality(I) \in Nat
    BY <2>1, FS_Subset, FS_CardinalityType
  <2>3. last = Cardinality(I)
    BY DEF I
  <2> HIDE DEF last
  <2> QED BY <2>2, <2>3
<1> HIDE DEF Place, last
<1>4. \A j \in D : new[j] = IF j = k THEN Numbered(row, last + 1) ELSE Numbered(rows[j], Place(j))
  OBVIOUS
<1>5. new = [j \in D |-> new[j]]
  OBVIOUS
<1> HIDE DEF new
<1>6. \A j \in D : \E n \in Nat : new[j] = IF j = k THEN Numbered(row, n) ELSE Numbered(rows[j], n)
  <2> TAKE j \in D
  <2>1. CASE j = k
    BY <1>3, <1>4, <2>1
  <2>2. CASE j # k
    BY <1>2, <1>4, <2>2
  <2> QED BY <2>1, <2>2
<1> QED BY <1>1, <1>5, <1>6 DEF Renumbered

\* One row of a table now says something else; the others say what they said.
ReceiptTables == [Responses -> ReceiptRows]
CheckpointTables == [Responses -> CheckpointRows]
CarrierTables == [Converted \cup Plain -> CarrierRows]
StateSet(new, rows, k, state) ==
  \A s \in DOMAIN rows : new[s].state = IF s = k THEN state ELSE rows[s].state
SizeSet(new, rows, k, size) ==
  \A s \in DOMAIN rows : new[s].size = IF s = k THEN size ELSE rows[s].size

LEMMA InsertedReceipt ==
  ASSUME NEW rows \in ReceiptTables, NEW r \in Responses, NEW row \in ReceiptRows
  PROVE  Inserted(rows, r, row) \in ReceiptTables /\ StateSet(Inserted(rows, r, row), rows, r, row.state)
<1> DEFINE new == Inserted(rows, r, row)
<1>1. IsFiniteSet(Responses) /\ DOMAIN rows = Responses
  BY KindsOfRequests DEF ReceiptTables
<1>2. Renumbered(new, rows, r, row, Responses)
  BY <1>1, InsertedRows
<1> HIDE DEF new
<1>3. ASSUME NEW j \in Responses PROVE new[j] \in ReceiptRows /\ new[j].state = IF j = r THEN row.state ELSE rows[j].state
  <2>1. PICK n \in Nat : new[j] = IF j = r THEN Numbered(row, n) ELSE Numbered(rows[j], n)
    BY <1>2 DEF Renumbered
  <2>2. rows[j] \in ReceiptRows
    BY DEF ReceiptTables
  <2>3. CASE j = r
    BY <2>1, <2>3 DEF ReceiptRows, Numbered
  <2>4. CASE j # r
    BY <2>1, <2>2, <2>4 DEF ReceiptRows, Numbered
  <2> QED BY <2>3, <2>4
<1>4. new = [j \in Responses |-> new[j]]
  BY <1>2 DEF Renumbered
<1>5. new \in ReceiptTables
  BY <1>3, <1>4 DEF ReceiptTables
<1>6. StateSet(new, rows, r, row.state)
  BY <1>1, <1>3 DEF StateSet
<1> QED BY <1>5, <1>6 DEF new

LEMMA InsertedCheckpoint ==
  ASSUME NEW rows \in CheckpointTables, NEW r \in Responses, NEW row \in CheckpointRows
  PROVE  Inserted(rows, r, row) \in CheckpointTables /\ SizeSet(Inserted(rows, r, row), rows, r, row.size)
<1> DEFINE new == Inserted(rows, r, row)
<1>1. IsFiniteSet(Responses) /\ DOMAIN rows = Responses
  BY KindsOfRequests DEF CheckpointTables
<1>2. Renumbered(new, rows, r, row, Responses)
  BY <1>1, InsertedRows
<1> HIDE DEF new
<1>3. ASSUME NEW j \in Responses PROVE new[j] \in CheckpointRows /\ new[j].size = IF j = r THEN row.size ELSE rows[j].size
  <2>1. PICK n \in Nat : new[j] = IF j = r THEN Numbered(row, n) ELSE Numbered(rows[j], n)
    BY <1>2 DEF Renumbered
  <2>2. rows[j] \in CheckpointRows
    BY DEF CheckpointTables
  <2>3. CASE j = r
    BY <2>1, <2>3 DEF CheckpointRows, Numbered
  <2>4. CASE j # r
    BY <2>1, <2>2, <2>4 DEF CheckpointRows, Numbered
  <2> QED BY <2>3, <2>4
<1>4. new = [j \in Responses |-> new[j]]
  BY <1>2 DEF Renumbered
<1>5. new \in CheckpointTables
  BY <1>3, <1>4 DEF CheckpointTables
<1>6. SizeSet(new, rows, r, row.size)
  BY <1>1, <1>3 DEF SizeSet
<1> QED BY <1>5, <1>6 DEF new

LEMMA InsertedCarrier ==
  ASSUME NEW rows \in CarrierTables, NEW q \in Converted \cup Plain, NEW row \in CarrierRows
  PROVE  Inserted(rows, q, row) \in CarrierTables /\ StateSet(Inserted(rows, q, row), rows, q, row.state)
<1> DEFINE new == Inserted(rows, q, row)
           D == Converted \cup Plain
<1>1. IsFiniteSet(D) /\ DOMAIN rows = D
  BY KindsOfRequests DEF CarrierTables
<1>2. Renumbered(new, rows, q, row, D)
  BY <1>1, InsertedRows
<1> HIDE DEF new
<1>3. ASSUME NEW j \in D PROVE new[j] \in CarrierRows /\ new[j].state = IF j = q THEN row.state ELSE rows[j].state
  <2>1. PICK n \in Nat : new[j] = IF j = q THEN Numbered(row, n) ELSE Numbered(rows[j], n)
    BY <1>2 DEF Renumbered
  <2>2. rows[j] \in CarrierRows
    BY DEF CarrierTables
  <2>3. CASE j = q
    BY <2>1, <2>3 DEF CarrierRows, Numbered
  <2>4. CASE j # q
    BY <2>1, <2>2, <2>4 DEF CarrierRows, Numbered
  <2> QED BY <2>3, <2>4
<1>4. new = [j \in D |-> new[j]]
  BY <1>2 DEF Renumbered
<1>5. new \in CarrierTables
  BY <1>3, <1>4 DEF CarrierTables
<1>6. StateSet(new, rows, q, row.state)
  BY <1>1, <1>3 DEF StateSet
<1> QED BY <1>5, <1>6 DEF new

LEMMA RankOrder ==
  ASSUME NEW s \in {"route_only", "partial", "complete"}, NEW t \in {"none", "route_only", "partial", "complete", "expired"}
  PROVE  /\ Rank(s) <= Rank(t) => /\ s = "complete" => t = "complete"
                                  /\ s = "partial" => t \in {"partial", "complete"}
         /\ ~(Rank(s) <= Rank(t)) => /\ s \in {"partial", "complete"}
                                     /\ t = "complete" => FALSE
BY DEF Rank

\* The receipt says at least what was to be recorded.
SaysAtLeast(t, s) ==
  /\ t \in {"route_only", "partial", "complete"}
  /\ s = "complete" => t = "complete"
  /\ s = "partial" => t \in {"partial", "complete"}

\* One receipt gets another state.
Raised(h, r, state) == [h EXCEPT !.receipts[r].state = state]

LEMMA StateRaised ==
  ASSUME NEW h, Sound(h), NEW r \in Responses, NEW state \in {"partial", "complete"},
         h.receipts[r].state # "complete"
  PROVE  /\ Sound(Raised(h, r, state)) /\ Keeps(h, Raised(h, r, state))
         /\ Raised(h, r, state).checkpoints = h.checkpoints /\ Raised(h, r, state).carriers = h.carriers
         /\ Raised(h, r, state).receipts[r].state = state
         /\ h.receipts[r].state # "none" => Shrinks(h, Raised(h, r, state))
<1> DEFINE row == [h.receipts[r] EXCEPT !.state = state]
           R == [h.receipts EXCEPT ![r] = row]
           g == Raised(h, r, state)
<1>1. h \in Histories /\ Linked(h)
  BY DEF Sound
<1>2. g = [h EXCEPT !.receipts = R]
  BY DEF Raised
<1>3. h.receipts \in [Responses -> ReceiptRows] /\ h.receipts[r] \in ReceiptRows
  BY <1>1 DEF Histories
<1>4. row \in ReceiptRows /\ row.state = state
  BY <1>3 DEF ReceiptRows
<1> HIDE DEF row
<1>5. R \in [Responses -> ReceiptRows] /\ \A s \in Responses : R[s].state = IF s = r THEN state ELSE h.receipts[s].state
  BY <1>3, <1>4
<1> HIDE DEF R
<1>6. g \in Histories /\ g.receipts = R /\ g.checkpoints = h.checkpoints /\ g.carriers = h.carriers /\ g.uncertain = h.uncertain
  BY <1>1, <1>2, <1>5 DEF Histories
<1> HIDE DEF g
<1>7. Linked(g)
  BY <1>1, <1>5, <1>6, KindsOfRequests DEF Linked
<1>8. Keeps(h, g) /\ (h.receipts[r].state # "none" => Shrinks(h, g))
  BY <1>5, <1>6, KindsOfRequests DEF Keeps, Backed, Shrinks
<1> QED BY <1>5, <1>6, <1>7, <1>8 DEF Sound, g

LEMMA UpsertReceiptSound ==
  ASSUME NEW h, Sound(h), NEW r \in Responses, NEW state \in {"route_only", "partial", "complete"}, now \in Nat,
         UpsertReceipt(h, r, state).ok
  PROVE  LET g == UpsertReceipt(h, r, state).h
         IN  Sound(g) /\ Keeps(h, g) /\ SaysAtLeast(g.receipts[r].state, state)
<1> DEFINE row == h.receipts[r]
           new == [state |-> state, born |-> now, seq |-> 0]
           R == Inserted(h.receipts, r, new)
           f == [h EXCEPT !.receipts = R]
           u == UpsertReceipt(h, r, state)
<1>1. h \in Histories /\ Linked(h) /\ h.receipts \in [Responses -> ReceiptRows] /\ row \in ReceiptRows
  BY DEF Sound, Histories
<1>2. ~(Owner[r] \notin active \/ row.state = "expired")
  <2> SUFFICES ASSUME Owner[r] \notin active \/ row.state = "expired" PROVE FALSE
    OBVIOUS
  <2>1. row.state # "none" \/ Owner[r] \notin active
    OBVIOUS
  <2>2. u = Failed
    BY <2>1 DEF UpsertReceipt
  <2> HIDE DEF u
  <2>3. u.ok = FALSE
    BY <2>2 DEF Failed
  <2>4. u.ok
    BY DEF u
  <2> QED BY <2>3, <2>4
<1>3. CASE row.state = "none"
  <2>1. u = Done(f)
    BY <1>2, <1>3 DEF UpsertReceipt
  <2>2. u.h = f
    BY <2>1 DEF Done
  <2>3. new \in ReceiptRows /\ new.state = state
    BY DEF ReceiptRows
  <2> HIDE DEF new
  <2> HIDE DEF R
  <2>9. h.receipts \in ReceiptTables
    BY <1>1 DEF ReceiptTables
  <2>10. R \in ReceiptTables /\ StateSet(R, h.receipts, r, new.state)
    BY <2>3, <2>9, InsertedReceipt DEF R
  <2>4. R \in [Responses -> ReceiptRows] /\ \A s \in Responses : R[s].state = IF s = r THEN state ELSE h.receipts[s].state
    BY <1>1, <2>3, <2>10 DEF ReceiptTables, StateSet
  <2>5. f \in Histories /\ f.receipts = R /\ f.checkpoints = h.checkpoints /\ f.carriers = h.carriers /\ f.uncertain = h.uncertain
    BY <1>1, <2>4 DEF Histories
  <2> HIDE DEF f
  <2>6. Linked(f)
    BY <1>1, <1>3, <2>4, <2>5, KindsOfRequests DEF Linked
  <2>7. Keeps(h, f)
    BY <1>3, <2>4, <2>5, KindsOfRequests DEF Keeps, Backed
  <2>8. Sound(f) /\ Keeps(h, f) /\ SaysAtLeast(f.receipts[r].state, state)
    BY <2>4, <2>5, <2>6, <2>7 DEF Sound, SaysAtLeast
  <2> QED BY <2>2, <2>8
<1>4. CASE row.state # "none"
  <2> DEFINE g == IF Rank(state) <= Rank(row.state) THEN h ELSE [h EXCEPT !.receipts[r].state = state]
  <2>1. u = Done(g)
    BY <1>2, <1>4 DEF UpsertReceipt
  <2>2. u.h = g
    BY <2>1 DEF Done
  <2>3. row.state \in {"route_only", "partial", "complete"}
    BY <1>1, <1>2, <1>4 DEF ReceiptRows
  <2>4. CASE Rank(state) <= Rank(row.state)
    <3>1. g = h /\ SaysAtLeast(h.receipts[r].state, state)
      BY <2>3, <2>4, RankOrder DEF SaysAtLeast
    <3> HIDE DEF g
    <3> QED BY <2>2, <3>1, NothingChanges
  <2>5. CASE ~(Rank(state) <= Rank(row.state))
    <3> DEFINE rose == Raised(h, r, state)
    <3>1. state \in {"partial", "complete"} /\ row.state # "complete"
      BY <2>3, <2>5, RankOrder
    <3>2. Sound(rose) /\ Keeps(h, rose) /\ rose.receipts[r].state = state
      BY <3>1, StateRaised
    <3>3. g = rose
      BY <2>5 DEF Raised
    <3> HIDE DEF rose, g
    <3>4. SaysAtLeast(rose.receipts[r].state, state)
      BY <3>2 DEF SaysAtLeast
    <3> QED BY <2>2, <3>2, <3>3, <3>4
  <2> QED BY <2>4, <2>5
<1> QED BY <1>3, <1>4

LEMMA UpsertCheckpointSound ==
  ASSUME NEW h, Sound(h), NEW r \in Responses, NEW size \in 0..9, h.receipts[r].state \in {"partial", "complete"}
  PROVE  LET g == UpsertCheckpoint(h, r, size)
         IN  /\ Sound(g) /\ Keeps(h, g) /\ g.receipts = h.receipts
             /\ size > 0 => g.checkpoints[r].size = size
<1> DEFINE g == UpsertCheckpoint(h, r, size)
<1>1. h \in Histories /\ Linked(h) /\ h.checkpoints \in [Responses -> CheckpointRows] /\ h.checkpoints[r] \in CheckpointRows
  BY DEF Sound, Histories
<1>2. CASE size = 0
  <2>1. g = h
    BY <1>2 DEF UpsertCheckpoint
  <2> HIDE DEF g
  <2>2. Sound(g) /\ Keeps(h, g) /\ g.receipts = h.receipts /\ (size > 0 => g.checkpoints[r].size = size)
    BY <1>2, <2>1, NothingChanges
  <2> QED BY <2>2 DEF g
<1>3. ASSUME size > 0, NEW C \in [Responses -> CheckpointRows], g = [h EXCEPT !.checkpoints = C],
             \A s \in Responses : C[s].size = IF s = r THEN size ELSE h.checkpoints[s].size
      PROVE  Sound(g) /\ Keeps(h, g) /\ g.receipts = h.receipts /\ g.checkpoints[r].size = size
  <2> HIDE DEF g
  <2>1. g \in Histories /\ g.checkpoints = C /\ g.receipts = h.receipts /\ g.carriers = h.carriers /\ g.uncertain = h.uncertain
    BY <1>1, <1>3 DEF Histories
  <2>2. Linked(g)
    BY <1>1, <1>3, <2>1, KindsOfRequests DEF Linked
  <2>3. Keeps(h, g)
    BY <1>3, <2>1, KindsOfRequests DEF Keeps, Backed
  <2> QED BY <1>3, <2>1, <2>2, <2>3 DEF Sound
<1>4. CASE size > 0 /\ h.checkpoints[r].size = 0
  <2> DEFINE new == [size |-> size, seq |-> 0]
             C == Inserted(h.checkpoints, r, new)
  <2>1. g = [h EXCEPT !.checkpoints = C]
    BY <1>4 DEF UpsertCheckpoint
  <2>2. new \in CheckpointRows /\ new.size = size
    BY DEF CheckpointRows
  <2> HIDE DEF new
  <2>5. h.checkpoints \in CheckpointTables
    BY <1>1 DEF CheckpointTables
  <2>6. C \in CheckpointTables /\ SizeSet(C, h.checkpoints, r, new.size)
    BY <2>2, <2>5, InsertedCheckpoint
  <2>3. C \in [Responses -> CheckpointRows] /\ \A s \in Responses : C[s].size = IF s = r THEN size ELSE h.checkpoints[s].size
    BY <1>1, <2>2, <2>6 DEF CheckpointTables, SizeSet
  <2> HIDE DEF C, g
  <2>4. Sound(g) /\ Keeps(h, g) /\ g.receipts = h.receipts /\ g.checkpoints[r].size = size
    BY <1>3, <1>4, <2>1, <2>3
  <2> QED BY <2>4 DEF g
<1>5. CASE size > 0 /\ h.checkpoints[r].size # 0
  <2> DEFINE new == [h.checkpoints[r] EXCEPT !.size = size]
             C == [h.checkpoints EXCEPT ![r] = new]
  <2>1. g = [h EXCEPT !.checkpoints[r].size = size]
    BY <1>5 DEF UpsertCheckpoint
  <2>2. g = [h EXCEPT !.checkpoints = C]
    BY <2>1
  <2>3. new \in CheckpointRows /\ new.size = size
    BY <1>1 DEF CheckpointRows
  <2> HIDE DEF new
  <2>4. C \in [Responses -> CheckpointRows] /\ \A s \in Responses : C[s].size = IF s = r THEN size ELSE h.checkpoints[s].size
    BY <1>1, <2>3
  <2> HIDE DEF C, g
  <2>5. Sound(g) /\ Keeps(h, g) /\ g.receipts = h.receipts /\ g.checkpoints[r].size = size
    BY <1>3, <1>5, <2>2, <2>4
  <2> QED BY <2>5 DEF g
<1>6. size = 0 \/ size > 0
  OBVIOUS
<1> QED BY <1>2, <1>4, <1>5, <1>6

\* Carriers that go, or are presented, by themselves.
Freed(h, gone) == [h EXCEPT !.carriers = WithoutCarriers(h.carriers, gone)]

LEMMA FreedSound ==
  ASSUME NEW h, Sound(h), NEW gone
  PROVE  /\ Sound(Freed(h, gone)) /\ Keeps(h, Freed(h, gone)) /\ Shrinks(h, Freed(h, gone))
         /\ Freed(h, gone).carriers \in CarrierTables
         /\ \A q \in Converted \cup Plain : Freed(h, gone).carriers[q] = IF q \in gone THEN NoCarrier ELSE h.carriers[q]
<1> DEFINE C == WithoutCarriers(h.carriers, gone)
           g == Freed(h, gone)
<1>1. h \in Histories /\ Linked(h) /\ h.carriers \in [Converted \cup Plain -> CarrierRows]
  BY DEF Sound, Histories
<1>2. /\ C \in [Converted \cup Plain -> CarrierRows]
      /\ \A q \in Converted \cup Plain : C[q] = IF q \in gone THEN NoCarrier ELSE h.carriers[q]
  BY <1>1, CarriersRemoved
<1> HIDE DEF C
<1>3. g \in Histories /\ g.carriers = C /\ g.receipts = h.receipts /\ g.checkpoints = h.checkpoints /\ g.uncertain = h.uncertain
  BY <1>1, <1>2 DEF Histories, Freed, C
<1> HIDE DEF g
<1>4. NoCarrier.state = "none"
  BY DEF NoCarrier
<1>5. Linked(g)
  BY <1>1, <1>2, <1>3, <1>4, KindsOfRequests DEF Linked
<1>6. Keeps(h, g) /\ Shrinks(h, g)
  BY <1>2, <1>3, <1>4, KindsOfRequests DEF Keeps, Backed, Shrinks
<1> QED BY <1>2, <1>3, <1>5, <1>6 DEF Sound, CarrierTables, g

LEMMA ExpireCarriersSound ==
  ASSUME NEW h, Sound(h)
  PROVE  Sound(ExpireCarriers(h)) /\ Keeps(h, ExpireCarriers(h)) /\ Shrinks(h, ExpireCarriers(h))
<1> DEFINE gone == {q \in DOMAIN h.carriers : h.carriers[q].state # "none" /\ Overdue(h.carriers[q].born)}
<1>1. ExpireCarriers(h) = Freed(h, gone)
  BY DEF ExpireCarriers, Freed
<1> HIDE DEF gone
<1> QED BY <1>1, FreedSound

LEMMA DiscardSound ==
  ASSUME NEW h, Sound(h), NEW q
  PROVE  Sound(DiscardCarrier(h, q)) /\ Keeps(h, DiscardCarrier(h, q)) /\ Shrinks(h, DiscardCarrier(h, q))
<1>1. CASE ~(q \in DOMAIN h.carriers /\ h.carriers[q].state = "partial")
  <2>1. DiscardCarrier(h, q) = h
    BY <1>1 DEF DiscardCarrier
  <2> QED BY <2>1, NothingChanges
<1>2. CASE q \in DOMAIN h.carriers /\ h.carriers[q].state = "partial"
  <2> DEFINE C == [h.carriers EXCEPT ![q] = NoCarrier]
  <2>1. DiscardCarrier(h, q) = [h EXCEPT !.carriers = C]
    BY <1>2 DEF DiscardCarrier
  <2>2. h.carriers \in [Converted \cup Plain -> CarrierRows]
    BY DEF Sound, Histories
  <2>3. C = WithoutCarriers(h.carriers, {q})
    BY <1>2, <2>2 DEF WithoutCarriers
  <2> HIDE DEF C
  <2>4. DiscardCarrier(h, q) = Freed(h, {q})
    BY <2>1, <2>3 DEF Freed
  <2> QED BY <2>4, FreedSound
<1> QED BY <1>1, <1>2

\* A carrier is promoted for a request whose tables are ready for it.
LEMMA PromoteSound ==
  ASSUME NEW h, Sound(h), NEW q \in Converted \cup Plain, q \in Converted => Backed(h, q), Promote(h, q).ok
  PROVE  Sound(Promote(h, q).h) /\ Keeps(h, Promote(h, q).h) /\ Shrinks(h, Promote(h, q).h)
<1> DEFINE e == ExpireCarriers(h)
           row == [e.carriers[q] EXCEPT !.state = "complete"]
           C == [e.carriers EXCEPT ![q] = row]
           g == [e EXCEPT !.carriers = C]
           u == Promote(h, q)
<1>1. Sound(e) /\ Keeps(h, e) /\ Shrinks(h, e)
  BY ExpireCarriersSound
<1>2. e.carriers[q].state # "none"
  <2> SUFFICES ASSUME e.carriers[q].state = "none" PROVE FALSE
    OBVIOUS
  <2>1. u = Failed
    BY DEF Promote
  <2> HIDE DEF u
  <2>2. u.ok = FALSE
    BY <2>1 DEF Failed
  <2>3. u.ok
    BY DEF u
  <2> QED BY <2>2, <2>3
<1>3. u = Done(g)
  BY <1>2 DEF Promote
<1>4. u.h = g
  BY <1>3 DEF Done
<1> HIDE DEF u, e
<1>5. e \in Histories /\ Linked(e) /\ e.carriers \in [Converted \cup Plain -> CarrierRows] /\ e.carriers[q] \in CarrierRows
  BY <1>1 DEF Sound, Histories
<1>6. row \in CarrierRows /\ row.state = "complete"
  BY <1>5 DEF CarrierRows
<1> HIDE DEF row
<1>7. /\ C \in [Converted \cup Plain -> CarrierRows]
      /\ \A s \in Converted \cup Plain : C[s].state = IF s = q THEN "complete" ELSE e.carriers[s].state
  BY <1>5, <1>6
<1> HIDE DEF C
<1>8. g \in Histories /\ g.carriers = C /\ g.receipts = e.receipts /\ g.checkpoints = e.checkpoints /\ g.uncertain = e.uncertain
  BY <1>5, <1>7 DEF Histories
<1> HIDE DEF g
<1>9. q \in Converted => e.checkpoints[q].size > 0 /\ e.receipts[q].state = "complete"
  BY <1>1, <1>2 DEF Keeps, Backed
<1>10. Linked(g)
  BY <1>5, <1>7, <1>8, <1>9, KindsOfRequests DEF Linked
<1>11. Keeps(e, g) /\ Shrinks(e, g)
  BY <1>2, <1>7, <1>8, KindsOfRequests DEF Keeps, Backed, Shrinks
<1>12. Keeps(h, g)
  BY <1>1, <1>11, KeepsTransitive
<1>13. h \in Histories /\ Sound(g)
  BY <1>8, <1>10 DEF Sound
<1>14. Shrinks(h, g)
  BY <1>1, <1>5, <1>8, <1>11, <1>13, ShrinksTransitive
<1> QED BY <1>4, <1>12, <1>13, <1>14 DEF u

LEMMA FinalizedSound ==
  ASSUME NEW h, Sound(h), NEW r \in Converted, NEW state, NEW finalize,
         state = "complete" /\ finalize => Backed(h, r), Finalized(h, r, state, finalize).ok
  PROVE  /\ Sound(Finalized(h, r, state, finalize).h) /\ Keeps(h, Finalized(h, r, state, finalize).h)
         /\ Shrinks(h, Finalized(h, r, state, finalize).h)
<1>1. CASE state = "complete" /\ finalize
  <2>1. Finalized(h, r, state, finalize) = Promote(h, r)
    BY <1>1 DEF Finalized
  <2>2. r \in Converted \cup Plain /\ Backed(h, r) /\ Promote(h, r).ok
    BY <1>1, <2>1
  <2> QED BY <2>1, <2>2, PromoteSound
<1>2. CASE ~(state = "complete" /\ finalize)
  <2>1. Finalized(h, r, state, finalize) = Done(h)
    BY <1>2 DEF Finalized
  <2>2. Finalized(h, r, state, finalize).h = h
    BY <2>1 DEF Done
  <2> QED BY <2>2, NothingChanges
<1> QED BY <1>1, <1>2

\* A new carrier replaces the request's own and evicts the oldest.
LEMMA CreateCarrierSound ==
  ASSUME NEW h, Sound(h), NEW q \in Converted \cup Plain, now \in Nat
  PROVE  LET g == CreateCarrier(h, q)
         IN  Sound(g) /\ g.receipts = h.receipts /\ g.checkpoints = h.checkpoints /\ g.uncertain = h.uncertain
<1> DEFINE rows == ExpireCarriers(h)
           held == {p \in DOMAIN rows.carriers : rows.carriers[p].state # "none"}
           over == Cardinality(held) + 1 - MAX_CARRIERS
           gone == {p \in held : Cardinality({s \in held : rows.carriers[s].seq < rows.carriers[p].seq}) < over}
           kept == WithoutCarriers(rows.carriers, gone)
           row == [state |-> "partial", born |-> now, seq |-> 0]
           C == Inserted(kept, q, row)
           f == Freed(rows, gone)
           g == CreateCarrier(h, q)
<1>1. g = [rows EXCEPT !.carriers = C]
  BY DEF CreateCarrier
<1>2. Sound(rows)
  BY ExpireCarriersSound
<1>3. rows.receipts = h.receipts /\ rows.checkpoints = h.checkpoints /\ rows.uncertain = h.uncertain
  BY DEF ExpireCarriers, Sound, Histories
<1> HIDE DEF rows, gone
<1>4. Sound(f) /\ f.carriers \in CarrierTables
  BY <1>2, FreedSound
<1>5. rows \in Histories
  BY <1>2 DEF Sound
<1>6. f.carriers = kept /\ f.receipts = rows.receipts /\ f.checkpoints = rows.checkpoints
  BY <1>5 DEF Freed, Histories
<1> HIDE DEF kept, f
<1>7. row \in CarrierRows /\ row.state = "partial"
  BY DEF CarrierRows
<1> HIDE DEF row
<1>8. C \in CarrierTables /\ StateSet(C, kept, q, row.state)
  BY <1>4, <1>6, <1>7, InsertedCarrier
<1> HIDE DEF C
<1>9. /\ C \in [Converted \cup Plain -> CarrierRows]
      /\ \A s \in Converted \cup Plain : C[s].state = IF s = q THEN "partial" ELSE kept[s].state
  BY <1>4, <1>6, <1>7, <1>8 DEF CarrierTables, StateSet
<1>10. g \in Histories /\ g.carriers = C /\ g.receipts = rows.receipts /\ g.checkpoints = rows.checkpoints /\ g.uncertain = rows.uncertain
  BY <1>1, <1>5, <1>9 DEF Histories
<1> HIDE DEF g
<1>11. Linked(g)
  BY <1>4, <1>6, <1>9, <1>10, KindsOfRequests DEF Sound, Linked
<1> QED BY <1>3, <1>10, <1>11 DEF Sound, g

------------------------------------------------------------------------------
(* recordReceipt() and recordCheckpoint(). *)

\* What a transaction on h may leave behind.
Follows(h, g) == Sound(g) /\ Within(g) /\ Keeps(h, g)
Remembers(h, r) == h.receipts[r].state # "none" \/ h.uncertain

LEMMA ShrinkingFollows ==
  ASSUME NEW h, NEW f, NEW g, Follows(h, f), Sound(g), Keeps(f, g), Shrinks(f, g)
  PROVE  Follows(h, g)
<1>1. f \in Histories /\ g \in Histories
  BY DEF Follows, Sound
<1>2. Within(g)
  BY <1>1, ShrunkWithin DEF Follows
<1>3. Keeps(h, g)
  BY KeepsTransitive DEF Follows
<1> QED BY <1>2, <1>3 DEF Follows

LEMMA FollowsItself == ASSUME NEW h, Sound(h), Within(h) PROVE Follows(h, h)
BY NothingChanges DEF Follows

LEMMA KeepsRemembering ==
  ASSUME NEW h, NEW g, Keeps(h, g), NEW r \in Responses, Remembers(h, r)
  PROVE  Remembers(g, r)
BY DEF Keeps, Remembers

LEMMA RecordReceiptSound ==
  ASSUME NEW r \in Responses, NEW state \in {"route_only", "partial", "complete"}, now \in Nat,
         Sound(historyDb), Within(historyDb), RecordReceipt(r, state).ok
  PROVE  Follows(historyDb, RecordReceipt(r, state).h) /\ Remembers(RecordReceipt(r, state).h, r)
<1> DEFINE h == historyDb
           e == ExpiredAway(h)
           draft == UpsertReceipt(e, r, state)
           u == draft.h
           g == MutateIfChanged(h, u)
           result == RecordReceipt(r, state)
<1>1. Sound(e) /\ Keeps(h, e)
  BY ExpiredAwaySound
<1> HIDE DEF e, h
<1>2. draft.ok
  <2> SUFFICES ASSUME ~draft.ok PROVE FALSE
    OBVIOUS
  <2>1. result = Failed
    BY DEF RecordReceipt, e, h
  <2> HIDE DEF result
  <2>2. result.ok = FALSE
    BY <2>1 DEF Failed
  <2>3. result.ok
    BY DEF result
  <2> QED BY <2>2, <2>3
<1>3. result = Done(g)
  BY <1>2 DEF RecordReceipt, e, h
<1>4. result.h = g
  BY <1>3 DEF Done
<1> HIDE DEF result
<1>5. Sound(u) /\ Keeps(e, u) /\ SaysAtLeast(u.receipts[r].state, state)
  BY <1>1, <1>2, UpsertReceiptSound
<1> HIDE DEF draft, u
<1>6. Sound(g) /\ Keeps(u, g) /\ Within(g)
  BY <1>5, MutateSound DEF h
<1> HIDE DEF g
<1>7. Keeps(h, g)
  BY <1>1, <1>5, <1>6, KeepsTransitive
<1>8. Remembers(u, r)
  BY <1>5 DEF Remembers, SaysAtLeast
<1>9. Remembers(g, r)
  BY <1>6, <1>8, KeepsRemembering
<1> QED BY <1>4, <1>6, <1>7, <1>9 DEF Follows, result, h

\* A checkpoint written where the receipt says enough backs the carrier.
LEMMA WrittenCheckpoint ==
  ASSUME NEW h, Sound(h), NEW r \in Converted, NEW state \in {"partial", "complete"}, NEW size \in 0..9,
         SaysAtLeast(h.receipts[r].state, state)
  PROVE  /\ Sound(UpsertCheckpoint(h, r, size)) /\ Keeps(h, UpsertCheckpoint(h, r, size))
         /\ UpsertCheckpoint(h, r, size).receipts = h.receipts
         /\ state = "complete" /\ size > 0 => Backed(UpsertCheckpoint(h, r, size), r)
<1> DEFINE g == UpsertCheckpoint(h, r, size)
<1>1. r \in Responses /\ h.receipts[r].state \in {"partial", "complete"}
  BY KindsOfRequests DEF SaysAtLeast
<1>2. Sound(g) /\ Keeps(h, g) /\ g.receipts = h.receipts /\ (size > 0 => g.checkpoints[r].size = size)
  BY <1>1, UpsertCheckpointSound
<1> HIDE DEF g
<1>3. state = "complete" /\ size > 0 => Backed(g, r)
  BY <1>2 DEF Backed, SaysAtLeast
<1> QED BY <1>2, <1>3 DEF g

\* The receipt already says as much.
LEMMA AlreadySaid ==
  ASSUME NEW r \in Converted, NEW state \in {"partial", "complete"}, NEW size \in 0..9, NEW finalize \in BOOLEAN,
         finalize => size > 0, Sound(historyDb), Within(historyDb),
         SaysAtLeast(historyDb.receipts[r].state, state), size = 0 \/ historyDb.checkpoints[r].size = size,
         Finalized(historyDb, r, state, finalize).ok
  PROVE  Follows(historyDb, Finalized(historyDb, r, state, finalize).h) /\ Remembers(Finalized(historyDb, r, state, finalize).h, r)
<1> DEFINE h == historyDb
           g == Finalized(h, r, state, finalize).h
<1>1. state = "complete" /\ finalize => Backed(h, r)
  BY DEF Backed, SaysAtLeast
<1>2. Sound(g) /\ Keeps(h, g) /\ Shrinks(h, g)
  BY <1>1, FinalizedSound
<1> HIDE DEF g
<1>3. Follows(h, g)
  BY <1>2, FollowsItself, ShrinkingFollows
<1>4. r \in Responses /\ Remembers(h, r)
  BY KindsOfRequests DEF SaysAtLeast, Remembers
<1> QED BY <1>2, <1>3, <1>4, KeepsRemembering DEF g

\* Nothing of its checkpoint is new; only its receipt says more.
LEMMA OnlyRaised ==
  ASSUME NEW r \in Converted, NEW size \in 0..9, NEW finalize \in BOOLEAN,
         finalize => size > 0, Sound(historyDb), Within(historyDb),
         historyDb.receipts[r].state = "partial", size = 0 \/ historyDb.checkpoints[r].size = size,
         Finalized(Raised(historyDb, r, "complete"), r, "complete", finalize).ok
  PROVE  LET g == Finalized(Raised(historyDb, r, "complete"), r, "complete", finalize).h
         IN  Follows(historyDb, g) /\ Remembers(g, r)
<1> DEFINE h == historyDb
           f == Raised(h, r, "complete")
           g == Finalized(f, r, "complete", finalize).h
<1>1. r \in Responses
  BY KindsOfRequests
<1>2. /\ Sound(f) /\ Keeps(h, f) /\ f.checkpoints = h.checkpoints /\ f.receipts[r].state = "complete"
      /\ Shrinks(h, f)
  BY <1>1, StateRaised
<1> HIDE DEF f
<1>3. finalize => Backed(f, r)
  BY <1>2 DEF Backed
<1>4. Sound(g) /\ Keeps(f, g) /\ Shrinks(f, g)
  BY <1>2, <1>3, FinalizedSound DEF f
<1> HIDE DEF g
<1>5. Follows(h, f)
  BY <1>2, FollowsItself, ShrinkingFollows
<1>6. Follows(h, g)
  BY <1>4, <1>5, ShrinkingFollows
<1>7. Remembers(f, r)
  BY <1>2 DEF Remembers
<1>8. Remembers(g, r)
  BY <1>1, <1>4, <1>7, KeepsRemembering
<1> QED BY <1>6, <1>8 DEF g, f, h

\* The steps of a record whose receipt is live.
RaisedTo(base, r, state) == IF Rank(state) > Rank(base.receipts[r].state) THEN Raised(base, r, state) ELSE base
Written(base, r, state, size) == UpsertCheckpoint(RaisedTo(base, r, state), r, size)
Evicted(written) == IF written = historyDb THEN historyDb ELSE EvictCheckpointOverflow(written)
Closed(base, evicted) == IF base = historyDb THEN evicted ELSE EvictReceiptOverflow(evicted)

LEMMA RaisedToSound ==
  ASSUME NEW h, Sound(h), NEW r \in Responses, NEW state \in {"partial", "complete"}
  PROVE  /\ Sound(RaisedTo(h, r, state)) /\ Keeps(h, RaisedTo(h, r, state))
         /\ SaysAtLeast(RaisedTo(h, r, state).receipts[r].state, state)
         /\ h.receipts[r].state # "none" => Receipts(RaisedTo(h, r, state)) \subseteq Receipts(h)
<1> DEFINE s == h.receipts[r].state
           g == RaisedTo(h, r, state)
<1>1. s \in {"none", "route_only", "partial", "complete", "expired"}
  BY DEF Sound, Histories, ReceiptRows
<1>2. CASE Rank(state) > Rank(s)
  <2>1. Rank(state) \in {0, 1, 2} /\ Rank(s) \in {0, 1, 2}
    BY DEF Rank
  <2>2. s # "complete"
    BY <1>1, <1>2, <2>1, RankOrder
  <2>3. g = Raised(h, r, state)
    BY <1>2 DEF RaisedTo
  <2>4. Sound(g) /\ Keeps(h, g) /\ g.receipts[r].state = state /\ (s # "none" => Shrinks(h, g))
    BY <2>2, <2>3, StateRaised
  <2> HIDE DEF g
  <2>5. SaysAtLeast(g.receipts[r].state, state)
    BY <2>4 DEF SaysAtLeast
  <2>6. s # "none" => Receipts(g) \subseteq Receipts(h)
    BY <2>4 DEF Shrinks, Receipts
  <2> QED BY <2>4, <2>5, <2>6 DEF g
<1>3. CASE ~(Rank(state) > Rank(s))
  <2>1. Rank(state) \in {0, 1, 2} /\ Rank(s) \in {0, 1, 2}
    BY DEF Rank
  <2>2. Rank(state) <= Rank(s)
    BY <1>3, <2>1
  <2>3. SaysAtLeast(s, state)
    BY <1>1, <2>2, RankOrder DEF SaysAtLeast
  <2>4. g = h
    BY <1>3 DEF RaisedTo
  <2> HIDE DEF g
  <2> QED BY <2>3, <2>4, NothingChanges DEF g
<1> QED BY <1>2, <1>3

LEMMA ClosedSound ==
  ASSUME NEW r \in Converted, NEW state \in {"partial", "complete"}, NEW size \in 0..9,
         Sound(historyDb), Within(historyDb), historyDb.receipts[r].state # "none",
         NEW base \in {historyDb, ExpiredAway(historyDb)}
  PROVE  LET g == Closed(base, Evicted(Written(base, r, state, size)))
         IN  Follows(historyDb, g) /\ Remembers(g, r) /\ (state = "complete" /\ size > 0 => Backed(g, r))
<1> DEFINE h == historyDb
           raised == RaisedTo(base, r, state)
           written == Written(base, r, state, size)
           evicted == Evicted(written)
           g == Closed(base, evicted)
<1>1. r \in Responses
  BY KindsOfRequests
<1>2. Sound(base) /\ Keeps(h, base)
  BY ExpiredAwaySound, NothingChanges
<1>3. /\ Sound(raised) /\ Keeps(base, raised) /\ SaysAtLeast(raised.receipts[r].state, state)
      /\ base.receipts[r].state # "none" => Receipts(raised) \subseteq Receipts(base)
  BY <1>1, <1>2, RaisedToSound
<1> HIDE DEF raised
<1>4. /\ Sound(written) /\ Keeps(raised, written) /\ written.receipts = raised.receipts
      /\ state = "complete" /\ size > 0 => Backed(written, r)
  BY <1>3, WrittenCheckpoint DEF Written, raised
<1> HIDE DEF written
<1>5. Sound(evicted) /\ Keeps(written, evicted) /\ Shrinks(written, evicted) /\ CheckpointsWithin(evicted)
  <2>1. CASE written = h
    <3>1. evicted = written /\ CheckpointsWithin(written)
      BY <2>1 DEF Evicted, Within
    <3> HIDE DEF evicted
    <3> QED BY <1>4, <3>1, NothingChanges
  <2>2. CASE written # h
    <3>1. evicted = EvictCheckpointOverflow(written)
      BY <2>2 DEF Evicted
    <3> HIDE DEF evicted
    <3> QED BY <1>4, <3>1, EvictCheckpointsSound
  <2> QED BY <2>1, <2>2
<1> HIDE DEF evicted
<1>6. Sound(g) /\ Keeps(evicted, g) /\ Within(g)
  <2>1. CASE base = h
    <3>1. g = evicted
      BY <2>1 DEF Closed
    <3> HIDE DEF g
    <3>2. Receipts(written) = Receipts(raised) /\ Receipts(raised) \subseteq Receipts(h)
      BY <1>3, <1>4, <2>1 DEF Receipts
    <3>3. written \in Histories /\ evicted \in Histories /\ h \in Histories
      BY <1>4, <1>5 DEF Sound
    <3>4. Receipts(evicted) \subseteq Receipts(h)
      BY <1>5, <3>2, <3>3, ShrunkWithin
    <3>5. Cardinality(Receipts(evicted)) <= Cardinality(Receipts(h))
      BY <3>3, <3>4, CountsAreFinite, FS_Subset
    <3>6. Cardinality(Receipts(evicted)) <= MAX_RECEIPTS
      BY <3>3, <3>5, CountsAreFinite, KindsOfRequests DEF Within
    <3>7. Within(evicted)
      BY <1>5, <3>6 DEF Within
    <3> QED BY <1>5, <3>1, <3>7, NothingChanges
  <2>2. CASE base # h
    <3>1. g = EvictReceiptOverflow(evicted)
      BY <2>2 DEF Closed
    <3> HIDE DEF g
    <3> QED BY <1>5, <3>1, EvictReceiptsSound
  <2> QED BY <2>1, <2>2
<1> HIDE DEF g
<1>7. Keeps(raised, evicted) /\ Keeps(h, raised)
  BY <1>2, <1>3, <1>4, <1>5, KeepsTransitive
<1>8. Keeps(raised, g)
  BY <1>6, <1>7, KeepsTransitive
<1>9. Keeps(h, g) /\ Keeps(written, g)
  BY <1>5, <1>6, <1>7, <1>8, KeepsTransitive
<1>10. Remembers(raised, r)
  BY <1>3 DEF SaysAtLeast, Remembers
<1>11. Remembers(g, r)
  BY <1>1, <1>8, <1>10, KeepsRemembering
<1>12. state = "complete" /\ size > 0 => Backed(g, r)
  BY <1>4, <1>9 DEF Keeps
<1> QED BY <1>6, <1>9, <1>11, <1>12 DEF Follows, g, evicted, written, h

\* A live receipt: the record ends with its carrier.
LEMMA LiveRecord ==
  ASSUME NEW r \in Converted, NEW state \in {"partial", "complete"}, NEW size \in 0..9, NEW finalize \in BOOLEAN,
         finalize => size > 0, Sound(historyDb), Within(historyDb), historyDb.receipts[r].state # "none",
         NEW base \in {historyDb, ExpiredAway(historyDb)}, NEW f, f = Closed(base, Evicted(Written(base, r, state, size))),
         Finalized(f, r, state, finalize).ok
  PROVE  Follows(historyDb, Finalized(f, r, state, finalize).h) /\ Remembers(Finalized(f, r, state, finalize).h, r)
<1> DEFINE g == Finalized(f, r, state, finalize).h
<1>1. Follows(historyDb, f) /\ Remembers(f, r) /\ (state = "complete" /\ size > 0 => Backed(f, r))
  BY ClosedSound
<1>2. Sound(f)
  BY <1>1 DEF Follows
<1>3. Sound(g) /\ Keeps(f, g) /\ Shrinks(f, g)
  BY <1>1, <1>2, FinalizedSound
<1> HIDE DEF g
<1>4. Follows(historyDb, g)
  BY <1>1, <1>3, ShrinkingFollows
<1>5. r \in Responses
  BY KindsOfRequests
<1> QED BY <1>1, <1>3, <1>4, <1>5, KeepsRemembering DEF g

\* No live receipt: the record starts again from what has not expired.
LEMMA NewRecord ==
  ASSUME NEW r \in Converted, NEW state \in {"partial", "complete"}, NEW size \in 0..9, NEW finalize \in BOOLEAN,
         finalize => size > 0, Sound(historyDb), Within(historyDb), now \in Nat,
         NEW receipt, receipt = UpsertReceipt(ExpiredAway(historyDb), r, state), receipt.ok,
         NEW final, final = Finalized(UpsertCheckpoint(receipt.h, r, size), r, state, finalize), final.ok
  PROVE  LET g == MutateIfChanged(historyDb, final.h)
         IN  Follows(historyDb, g) /\ Remembers(g, r)
<1> DEFINE h == historyDb
           e == ExpiredAway(h)
           u == receipt.h
           c == UpsertCheckpoint(u, r, size)
           draft == final.h
           g == MutateIfChanged(h, draft)
<1>1. r \in Responses
  BY KindsOfRequests
<1>2. Sound(e) /\ Keeps(h, e)
  BY ExpiredAwaySound
<1> HIDE DEF e
<1>3. receipt = UpsertReceipt(e, r, state)
  BY DEF e, h
<1>4. Sound(u) /\ Keeps(e, u) /\ SaysAtLeast(u.receipts[r].state, state)
  BY <1>1, <1>2, <1>3, UpsertReceiptSound
<1> HIDE DEF u
<1>5. Sound(c) /\ Keeps(u, c) /\ c.receipts = u.receipts /\ (state = "complete" /\ size > 0 => Backed(c, r))
  BY <1>4, WrittenCheckpoint
<1> HIDE DEF c
<1>6. final = Finalized(c, r, state, finalize)
  BY DEF c, u
<1>7. Sound(draft) /\ Keeps(c, draft)
  BY <1>5, <1>6, FinalizedSound
<1> HIDE DEF draft
<1>8. Sound(g) /\ Keeps(draft, g) /\ Within(g)
  BY <1>7, MutateSound
<1> HIDE DEF g
<1>9. Keeps(h, u) /\ Keeps(u, draft)
  BY <1>2, <1>4, <1>5, <1>7, KeepsTransitive
<1>10. Keeps(u, g)
  BY <1>8, <1>9, KeepsTransitive
<1>11. Keeps(h, g)
  BY <1>9, <1>10, KeepsTransitive
<1>12. Remembers(u, r)
  BY <1>4 DEF Remembers, SaysAtLeast
<1>13. Remembers(g, r)
  BY <1>1, <1>10, <1>12, KeepsRemembering
<1> QED BY <1>8, <1>11, <1>13 DEF Follows, g, draft, h

LEMMA RecordCheckpointSound ==
  ASSUME NEW r \in Converted, NEW state \in {"partial", "complete"}, NEW size \in 0..9, NEW finalize \in BOOLEAN,
         finalize => size > 0, Sound(historyDb), Within(historyDb), now \in Nat,
         RecordCheckpoint(r, state, size, finalize).ok
  PROVE  /\ Follows(historyDb, RecordCheckpoint(r, state, size, finalize).h)
         /\ Remembers(RecordCheckpoint(r, state, size, finalize).h, r)
<1> DEFINE row == historyDb.receipts[r]
           live == row.state \notin {"none", "expired"} /\ ~Overdue(row.born)
           matches == size = 0 \/ historyDb.checkpoints[r].size = size
           skip == \E i \in Recent(r) : now < recency[i].until
           base == IF skip THEN historyDb ELSE ExpiredAway(historyDb)
           f == Closed(base, Evicted(Written(base, r, state, size)))
           receipt == UpsertReceipt(ExpiredAway(historyDb), r, state)
           final == Finalized(UpsertCheckpoint(receipt.h, r, size), r, state, finalize)
           raised == Raised(historyDb, r, "complete")
           result == RecordCheckpoint(r, state, size, finalize)
           enough == Rank(state) <= Rank(row.state) /\ matches
<1> DEFINE only == skip /\ state = "complete" /\ row.state = "partial" /\ matches
<1>1. r \in Responses /\ row.state \in {"none", "route_only", "partial", "complete", "expired"}
  BY KindsOfRequests DEF Sound, Histories, ReceiptRows
<1>2. CASE Owner[r] \notin active
  <2>1. result = Failed
    BY <1>2 DEF RecordCheckpoint
  <2> HIDE DEF result
  <2>2. result.ok = FALSE
    BY <2>1 DEF Failed
  <2>3. result.ok
    BY DEF result
  <2> QED BY <2>2, <2>3
<1>3. CASE Owner[r] \in active /\ live /\ enough
  <2>1. result = Finalized(historyDb, r, state, finalize)
    BY <1>3 DEF RecordCheckpoint
  <2>2. SaysAtLeast(row.state, state)
    BY <1>1, <1>3, RankOrder DEF SaysAtLeast
  <2> QED BY <1>3, <2>1, <2>2, AlreadySaid
<1>4. CASE Owner[r] \in active /\ live /\ ~enough /\ only
  <2>1. result = Finalized(raised, r, state, finalize)
    BY <1>4 DEF RecordCheckpoint, Raised
  <2>2. result = Finalized(raised, r, "complete", finalize) /\ matches /\ row.state = "partial"
    BY <1>4, <2>1
  <2> QED BY <2>2, OnlyRaised
<1>5. CASE Owner[r] \in active /\ live /\ ~enough /\ ~only
  <2>1. result = Finalized(f, r, state, finalize)
    BY <1>5 DEF RecordCheckpoint, Closed, Evicted, Written, RaisedTo, Raised
  <2>2. base \in {historyDb, ExpiredAway(historyDb)} /\ row.state # "none"
    BY <1>5
  <2> HIDE DEF base
  <2>3. f = Closed(base, Evicted(Written(base, r, state, size)))
    OBVIOUS
  <2> HIDE DEF f
  <2>4. Finalized(f, r, state, finalize).ok
    BY <2>1
  <2> QED BY <2>1, <2>2, <2>3, <2>4, LiveRecord
<1>6. CASE Owner[r] \in active /\ ~live
  <2>1. result = IF receipt.ok /\ final.ok THEN Done(MutateIfChanged(historyDb, final.h)) ELSE Failed
    BY <1>6 DEF RecordCheckpoint
  <2> HIDE DEF receipt, final
  <2>2. receipt.ok /\ final.ok
    <3> SUFFICES ASSUME ~(receipt.ok /\ final.ok) PROVE FALSE
      OBVIOUS
    <3>1. result = Failed
      BY <2>1
    <3> HIDE DEF result
    <3>2. result.ok = FALSE
      BY <3>1 DEF Failed
    <3>3. result.ok
      BY DEF result
    <3> QED BY <3>2, <3>3
  <2>3. result = Done(MutateIfChanged(historyDb, final.h))
    BY <2>1, <2>2
  <2>4. result.h = MutateIfChanged(historyDb, final.h)
    BY <2>3 DEF Done
  <2>5. receipt = UpsertReceipt(ExpiredAway(historyDb), r, state)
    BY DEF receipt
  <2>6. final = Finalized(UpsertCheckpoint(receipt.h, r, size), r, state, finalize)
    BY DEF final
  <2> QED BY <2>2, <2>4, <2>5, <2>6, NewRecord
<1> QED BY <1>2, <1>3, <1>4, <1>5, <1>6

------------------------------------------------------------------------------
(* The inductive invariant. *)

Steps == {"idle", "open", "finalizing", "done", "failed"}
Requests == [Responses \cup Plain -> [step : Steps, size : Nat]]

HistoryInv ==
  /\ Sound(historyDb) /\ Within(historyDb)
  /\ now \in Nat /\ request \in Requests
  /\ responsesRecorded \subseteq Responses
  /\ \A r \in responsesRecorded : Remembers(historyDb, r)

\* Every step follows what was there, or clears it.
LEMMA InvKept ==
  ASSUME HistoryInv, Follows(historyDb, historyDb'), now' = now, request' \in Requests,
         NEW R \in SUBSET Responses, responsesRecorded' \subseteq responsesRecorded \cup R,
         \A r \in R : Remembers(historyDb', r)
  PROVE  HistoryInv'
<1>1. \A r \in responsesRecorded : r \in Responses /\ Remembers(historyDb, r)
  BY DEF HistoryInv
<1>2. \A r \in responsesRecorded : Remembers(historyDb', r)
  BY <1>1, KeepsRemembering DEF Follows
<1>3. \A r \in responsesRecorded' : r \in Responses /\ Remembers(historyDb', r)
  BY <1>1, <1>2
<1>4. Sound(historyDb)' /\ Within(historyDb)'
  <2>1. Sound(historyDb') /\ Within(historyDb')
    BY DEF Follows
  <2> QED BY <2>1 DEF Sound, Within, Histories, Linked, CheckpointsWithin, StoredReplay, Units, Checkpoints, Receipts, ReceiptRows, CheckpointRows, CarrierRows, Responses
<1>5. (\A r \in responsesRecorded : Remembers(historyDb, r))'
  BY <1>3 DEF Remembers
<1> QED BY <1>3, <1>4, <1>5 DEF HistoryInv, Requests, Steps, Responses

LEMMA DiscardFollows ==
  ASSUME NEW h, NEW g, Follows(h, g), NEW q
  PROVE  Follows(h, DiscardCarrier(g, q))
<1>1. Sound(g)
  BY DEF Follows
<1> QED BY <1>1, DiscardSound, ShrinkingFollows

LEMMA FailsFollows ==
  ASSUME HistoryInv, NEW q, Fails(q)
  PROVE  Follows(historyDb, historyDb') /\ request' \in Requests
<1>1. Follows(historyDb, historyDb)
  BY FollowsItself DEF HistoryInv
<1>2. historyDb' = DiscardCarrier(historyDb, q) /\ request' = [request EXCEPT ![q] = [step |-> "failed", size |-> 0]]
  BY DEF Fails
<1>3. request' \in Requests
  BY <1>2 DEF HistoryInv, Requests, Steps
<1> QED BY <1>1, <1>2, <1>3, DiscardFollows

LEMMA NativeEventKeeps ==
  ASSUME HistoryInv, NEW q \in Responses \cup Plain, NEW state \in {"route_only", "complete"}, NativeEvent(q, state)
  PROVE  HistoryInv'
<1> DEFINE result == RecordReceipt(q, state)
<1>1. q \in Responses /\ now' = now /\ request \in Requests
  BY KindsOfRequests DEF NativeEvent, Environment, HistoryInv
<1>2. CASE result.ok
  <2>1. /\ request' = [request EXCEPT ![q].step = IF state = "complete" THEN "done" ELSE "open"]
        /\ historyDb' = result.h /\ responsesRecorded' = responsesRecorded \cup {q}
    BY <1>2 DEF NativeEvent
  <2>2. Follows(historyDb, result.h) /\ Remembers(result.h, q)
    BY <1>1, <1>2, RecordReceiptSound DEF HistoryInv
  <2> HIDE DEF result
  <2>3. request' \in Requests
    BY <1>1, <2>1 DEF Requests, Steps
  <2>4. {q} \in SUBSET Responses /\ responsesRecorded' \subseteq responsesRecorded \cup {q} /\ \A r \in {q} : Remembers(historyDb', r)
    BY <1>1, <2>1, <2>2
  <2>5. Follows(historyDb, historyDb')
    BY <2>1, <2>2
  <2> QED BY <1>1, <2>3, <2>4, <2>5, InvKept
<1>3. CASE ~result.ok
  <2>1. Fails(q) /\ responsesRecorded' = responsesRecorded
    BY <1>3 DEF NativeEvent
  <2>2. {} \in SUBSET Responses /\ responsesRecorded' \subseteq responsesRecorded \cup {} /\ \A r \in {} : Remembers(historyDb', r)
    BY <2>1
  <2> QED BY <1>1, <2>1, <2>2, FailsFollows, InvKept
<1> QED BY <1>2, <1>3

LEMMA StartConvertedKeeps ==
  ASSUME HistoryInv, NEW q \in Responses \cup Plain, StartConverted(q)
  PROVE  HistoryInv'
<1> DEFINE result == RecordReceipt(q, "route_only")
<1>1. q \in Responses /\ now' = now /\ request \in Requests
  BY KindsOfRequests DEF StartConverted, Environment, HistoryInv
<1>2. request' = [request EXCEPT ![q].step = IF result.ok THEN "open" ELSE "failed"]
  BY DEF StartConverted, Moves
<1>3. CASE result.ok
  <2>1. historyDb' = result.h /\ responsesRecorded' = responsesRecorded \cup {q}
    BY <1>3 DEF StartConverted
  <2>2. Follows(historyDb, result.h) /\ Remembers(result.h, q)
    BY <1>1, <1>3, RecordReceiptSound DEF HistoryInv
  <2> HIDE DEF result
  <2>3. request' \in Requests
    BY <1>1, <1>2 DEF Requests, Steps
  <2>4. {q} \in SUBSET Responses /\ responsesRecorded' \subseteq responsesRecorded \cup {q} /\ \A r \in {q} : Remembers(historyDb', r)
    BY <1>1, <2>1, <2>2
  <2>5. Follows(historyDb, historyDb')
    BY <2>1, <2>2
  <2> QED BY <1>1, <2>3, <2>4, <2>5, InvKept
<1>4. CASE ~result.ok
  <2>1. historyDb' = DiscardCarrier(historyDb, q) /\ responsesRecorded' = responsesRecorded
    BY <1>4 DEF StartConverted
  <2> HIDE DEF result
  <2>2. request' \in Requests
    BY <1>1, <1>2 DEF Requests, Steps
  <2>3. Follows(historyDb, historyDb')
    BY <2>1, FollowsItself, DiscardFollows DEF HistoryInv
  <2>4. {} \in SUBSET Responses /\ responsesRecorded' \subseteq responsesRecorded \cup {} /\ \A r \in {} : Remembers(historyDb', r)
    BY <2>1
  <2> QED BY <1>1, <2>2, <2>3, <2>4, InvKept
<1> QED BY <1>3, <1>4

\* Steps that record no response.
LEMMA NothingRecorded ==
  ASSUME HistoryInv, Follows(historyDb, historyDb'), now' = now, request' \in Requests, responsesRecorded' = responsesRecorded
  PROVE  HistoryInv'
<1>1. {} \in SUBSET Responses /\ responsesRecorded' \subseteq responsesRecorded \cup {} /\ \A r \in {} : Remembers(historyDb', r)
  OBVIOUS
<1> QED BY <1>1, InvKept

LEMMA CreateStreamCarrierKeeps ==
  ASSUME HistoryInv, NEW q \in Responses \cup Plain, CreateStreamCarrier(q)
  PROVE  HistoryInv'
<1> DEFINE g == CreateCarrier(historyDb, q)
<1>1. /\ q \in Converted \cup Plain /\ historyDb' = g /\ responsesRecorded' = responsesRecorded /\ now' = now
      /\ request' = [request EXCEPT ![q].size = 10] /\ request \in Requests /\ now \in Nat
  BY DEF CreateStreamCarrier, Environment, HistoryInv
<1>2. Sound(g) /\ g.receipts = historyDb.receipts /\ g.checkpoints = historyDb.checkpoints /\ g.uncertain = historyDb.uncertain
  BY <1>1, CreateCarrierSound DEF HistoryInv
<1> HIDE DEF g
<1>3. request' \in Requests
  BY <1>1 DEF Requests
<1>4. Receipts(g) = Receipts(historyDb) /\ Checkpoints(g) = Checkpoints(historyDb) /\ Units(g) = Units(historyDb)
  BY <1>2 DEF Receipts, Checkpoints, Units
<1>5. Within(g)
  BY <1>4 DEF HistoryInv, Within, CheckpointsWithin, StoredReplay
<1>6. (Sound(historyDb) /\ Within(historyDb))'
  <2>1. Sound(historyDb') /\ Within(historyDb')
    BY <1>1, <1>2, <1>5
  <2> QED BY <2>1 DEF Sound, Within, Histories, Linked, CheckpointsWithin, StoredReplay, Units, Checkpoints, Receipts, ReceiptRows, CheckpointRows, CarrierRows, Responses
<1>7. (\A r \in responsesRecorded : Remembers(historyDb, r))'
  BY <1>1, <1>2 DEF HistoryInv, Remembers
<1> QED BY <1>1, <1>3, <1>6, <1>7 DEF HistoryInv, Requests, Steps, Responses

LEMMA PersistPartialKeeps ==
  ASSUME HistoryInv, NEW q \in Responses \cup Plain, NEW size \in 0..2, NEW last \in BOOLEAN, PersistPartial(q, size, last)
  PROVE  HistoryInv'
<1> DEFINE result == RecordCheckpoint(q, "partial", size, FALSE)
<1>1. q \in Converted /\ q \in Responses /\ now' = now /\ request \in Requests /\ size \in 0..9
  BY KindsOfRequests DEF PersistPartial, Environment, HistoryInv
<1>2. CASE result.ok
  <2>1. /\ request' = IF last THEN [request EXCEPT ![q] = [step |-> "finalizing", size |-> @.size + size]] ELSE request
        /\ historyDb' = result.h /\ responsesRecorded' = responsesRecorded \cup {q}
    BY <1>2 DEF PersistPartial
  <2>2. Follows(historyDb, result.h) /\ Remembers(result.h, q)
    BY <1>1, <1>2, RecordCheckpointSound DEF HistoryInv
  <2> HIDE DEF result
  <2>3. request' \in Requests
    <3>1. CASE last
      <4>1. request[q].size + size \in Nat
        BY <1>1 DEF Requests
      <4> DEFINE n == request[q].size + size
      <4>2. request' = [request EXCEPT ![q] = [step |-> "finalizing", size |-> n]]
        BY <2>1, <3>1
      <4> HIDE DEF n
      <4>3. n \in Nat
        BY <4>1 DEF n
      <4> QED BY <1>1, <4>2, <4>3 DEF Requests, Steps
    <3>2. CASE ~last
      BY <1>1, <2>1, <3>2
    <3> QED BY <3>1, <3>2
  <2>4. {q} \in SUBSET Responses /\ responsesRecorded' \subseteq responsesRecorded \cup {q} /\ \A r \in {q} : Remembers(historyDb', r)
    BY <1>1, <2>1, <2>2
  <2>5. Follows(historyDb, historyDb')
    BY <2>1, <2>2
  <2> QED BY <1>1, <2>3, <2>4, <2>5, InvKept
<1>3. CASE ~result.ok
  <2>1. Fails(q) /\ responsesRecorded' = responsesRecorded
    BY <1>3 DEF PersistPartial
  <2> QED BY <1>1, <2>1, FailsFollows, NothingRecorded
<1> QED BY <1>2, <1>3

LEMMA FinalizeSuccessKeeps ==
  ASSUME HistoryInv, NEW q \in Responses \cup Plain, FinalizeSuccess(q)
  PROVE  HistoryInv'
<1> DEFINE size == request[q].size % 10
           finalize == request[q].size >= 10 /\ size > 0
           result == RecordCheckpoint(q, "complete", size, finalize)
<1>1. q \in Converted /\ q \in Responses /\ now' = now /\ request \in Requests
  BY KindsOfRequests DEF FinalizeSuccess, Environment, HistoryInv
<1>2. size \in 0..9 /\ finalize \in BOOLEAN /\ (finalize => size > 0)
  <2>1. request[q].size \in Nat
    BY <1>1 DEF Requests
  <2> QED BY <2>1
<1>3. CASE result.ok
  <2>1. /\ request' = [request EXCEPT ![q] = [step |-> "done", size |-> 0]]
        /\ historyDb' = DiscardCarrier(result.h, q) /\ responsesRecorded' = responsesRecorded \cup {q}
    BY <1>3 DEF FinalizeSuccess
  <2> HIDE DEF size, finalize
  <2>2. Follows(historyDb, result.h) /\ Remembers(result.h, q)
    BY <1>1, <1>2, <1>3, RecordCheckpointSound DEF HistoryInv
  <2> HIDE DEF result
  <2>3. request' \in Requests
    BY <1>1, <2>1 DEF Requests, Steps
  <2>4. Follows(historyDb, historyDb')
    BY <2>1, <2>2, DiscardFollows
  <2>5. Sound(result.h)
    BY <2>2 DEF Follows
  <2>6. Remembers(historyDb', q)
    BY <1>1, <2>1, <2>2, <2>5, DiscardSound, KeepsRemembering
  <2>7. {q} \in SUBSET Responses /\ responsesRecorded' \subseteq responsesRecorded \cup {q} /\ \A r \in {q} : Remembers(historyDb', r)
    BY <1>1, <2>1, <2>6
  <2> QED BY <1>1, <2>3, <2>4, <2>7, InvKept
<1>4. CASE ~result.ok
  <2>1. Fails(q) /\ responsesRecorded' = responsesRecorded
    BY <1>4 DEF FinalizeSuccess
  <2> QED BY <1>1, <2>1, FailsFollows, NothingRecorded
<1> QED BY <1>3, <1>4

LEMMA FinishPlainKeeps ==
  ASSUME HistoryInv, NEW q \in Responses \cup Plain, FinishPlain(q)
  PROVE  HistoryInv'
<1> DEFINE result == Promote(historyDb, q)
<1>1. /\ q \in Converted \cup Plain /\ q \notin Converted /\ now' = now /\ request \in Requests
      /\ responsesRecorded' = responsesRecorded
  BY HistoryAssumption DEF FinishPlain, Environment, HistoryInv
<1>2. CASE result.ok
  <2>1. historyDb' = result.h /\ request' = [request EXCEPT ![q] = [step |-> "done", size |-> 0]]
    BY <1>2 DEF FinishPlain
  <2>2. Sound(historyDb) /\ Follows(historyDb, historyDb)
    BY FollowsItself DEF HistoryInv
  <2>3. Sound(result.h) /\ Keeps(historyDb, result.h) /\ Shrinks(historyDb, result.h)
    BY <1>1, <1>2, <2>2, PromoteSound
  <2> HIDE DEF result
  <2>4. Follows(historyDb, historyDb')
    BY <2>1, <2>2, <2>3, ShrinkingFollows
  <2>5. request' \in Requests
    BY <1>1, <2>1 DEF Requests, Steps
  <2> QED BY <1>1, <2>4, <2>5, NothingRecorded
<1>3. CASE ~result.ok
  <2>1. Fails(q)
    BY <1>3 DEF FinishPlain
  <2> QED BY <1>1, <2>1, FailsFollows, NothingRecorded
<1> QED BY <1>2, <1>3

LEMMA AbortRequestKeeps ==
  ASSUME HistoryInv, NEW q \in Responses \cup Plain, AbortRequest(q)
  PROVE  HistoryInv'
<1>1. Fails(q) /\ responsesRecorded' = responsesRecorded /\ now' = now
  BY DEF AbortRequest, Environment
<1> QED BY <1>1, FailsFollows, NothingRecorded

LEMMA AwayFollows ==
  ASSUME HistoryInv
  PROVE  Follows(historyDb, MutateIfChanged(historyDb, ExpiredAway(historyDb)))
<1> DEFINE e == ExpiredAway(historyDb)
           g == MutateIfChanged(historyDb, e)
<1>1. Sound(e) /\ Keeps(historyDb, e)
  BY ExpiredAwaySound DEF HistoryInv
<1> HIDE DEF e
<1>2. Sound(g) /\ Keeps(e, g) /\ Within(g)
  BY <1>1, MutateSound DEF HistoryInv
<1> HIDE DEF g
<1>3. Keeps(historyDb, g)
  BY <1>1, <1>2, KeepsTransitive
<1> QED BY <1>2, <1>3 DEF Follows, g, e

LEMMA ResolveKeeps ==
  ASSUME HistoryInv, Resolve
  PROVE  HistoryInv'
<1>1. /\ historyDb' = MutateIfChanged(historyDb, ExpiredAway(historyDb)) /\ request' = request
      /\ responsesRecorded' = responsesRecorded /\ now' = now /\ request \in Requests
  BY DEF Resolve, Environment, HistoryInv
<1> QED BY <1>1, AwayFollows, NothingRecorded

LEMMA ClaimCarrierKeeps ==
  ASSUME HistoryInv, ClaimCarrier
  PROVE  HistoryInv'
<1>1. /\ historyDb' = ExpireCarriers(historyDb) /\ request' = request
      /\ responsesRecorded' = responsesRecorded /\ now' = now /\ request \in Requests
  BY DEF ClaimCarrier, Environment, HistoryInv
<1>2. Sound(historyDb) /\ Follows(historyDb, historyDb)
  BY FollowsItself DEF HistoryInv
<1>3. Follows(historyDb, ExpireCarriers(historyDb))
  BY <1>2, ExpireCarriersSound, ShrinkingFollows
<1> QED BY <1>1, <1>3, NothingRecorded

LEMMA SetTtlDaysKeeps ==
  ASSUME HistoryInv, NEW days \in TTLS, SetTtlDays(days)
  PROVE  HistoryInv'
<1> DEFINE gone == {q \in DOMAIN historyDb.carriers : historyDb.carriers[q].state # "none" /\ historyDb.carriers[q].born + days <= now}
<1>1. /\ historyDb' = Freed(historyDb, gone) /\ request' = request
      /\ responsesRecorded' = responsesRecorded /\ now' = now /\ request \in Requests
  BY DEF SetTtlDays, Freed, HistoryInv
<1> HIDE DEF gone
<1>2. Sound(historyDb) /\ Follows(historyDb, historyDb)
  BY FollowsItself DEF HistoryInv
<1>3. Follows(historyDb, Freed(historyDb, gone))
  BY <1>2, FreedSound, ShrinkingFollows
<1> QED BY <1>1, <1>3, NothingRecorded

LEMMA RemoveAccountKeeps ==
  ASSUME HistoryInv, NEW a, RemoveAccount(a)
  PROVE  HistoryInv'
<1>1. historyDb' = historyDb /\ request' = request /\ responsesRecorded' = responsesRecorded /\ now' = now /\ request \in Requests
  BY DEF RemoveAccount, HistoryInv
<1>2. Follows(historyDb, historyDb)
  BY FollowsItself DEF HistoryInv
<1> QED BY <1>1, <1>2, NothingRecorded

LEMMA RestartKeeps ==
  ASSUME HistoryInv, Restart
  PROVE  HistoryInv'
<1> DEFINE f == MutateIfChanged(historyDb, ExpiredAway(historyDb))
<1>1. /\ historyDb' = ExpireCarriers(f) /\ responsesRecorded' = responsesRecorded /\ now' = now /\ request \in Requests
      /\ request' = [q \in DOMAIN request |-> IF request[q].step = "done" THEN request[q] ELSE [step |-> "failed", size |-> 0]]
  BY DEF Restart, Environment, HistoryInv
<1>2. Follows(historyDb, f)
  BY AwayFollows
<1> HIDE DEF f
<1>3. Sound(f)
  BY <1>2 DEF Follows
<1>4. Follows(historyDb, ExpireCarriers(f))
  BY <1>2, <1>3, ExpireCarriersSound, ShrinkingFollows
<1>5. request' \in Requests
  BY <1>1 DEF Requests, Steps
<1> QED BY <1>1, <1>4, <1>5, NothingRecorded

LEMMA TickKeeps ==
  ASSUME HistoryInv, Tick
  PROVE  HistoryInv'
<1>1. historyDb' = historyDb /\ request' = request /\ responsesRecorded' = responsesRecorded /\ now' = now + 1
  BY DEF Tick
<1>2. now' \in Nat
  BY <1>1 DEF HistoryInv
<1> QED BY <1>1, <1>2 DEF HistoryInv, Remembers, Requests, Steps, Sound, Within, Histories, Linked, CheckpointsWithin,
           StoredReplay, Units, Checkpoints, Receipts, ReceiptRows, CheckpointRows, CarrierRows, Responses

\* What belonged to an account goes, and says so.
LEMMA ClearedAccountSound ==
  ASSUME NEW h, Sound(h), NEW a
  PROVE  LET gone == {r \in Receipts(h) : Owner[r] = a}
             draft == [h EXCEPT !.receipts = [r \in Responses |-> IF r \in gone THEN NoReceipt ELSE h.receipts[r]],
                               !.checkpoints = [r \in Responses |-> IF r \in gone THEN NoCheckpoint ELSE h.checkpoints[r]],
                               !.carriers = WithoutCarriers(h.carriers, {q \in DOMAIN h.carriers : Owner[q] = a}),
                               !.uncertain = h.uncertain \/ gone # {}]
         IN  Sound(draft) /\ Keeps(h, draft)
<1> DEFINE gone == {r \in Receipts(h) : Owner[r] = a}
           R == [r \in Responses |-> IF r \in gone THEN NoReceipt ELSE h.receipts[r]]
           K == [r \in Responses |-> IF r \in gone THEN NoCheckpoint ELSE h.checkpoints[r]]
           own == {q \in DOMAIN h.carriers : Owner[q] = a}
           C == WithoutCarriers(h.carriers, own)
           u == h.uncertain \/ gone # {}
           g == [h EXCEPT !.receipts = R, !.checkpoints = K, !.carriers = C, !.uncertain = u]
<1>1. /\ h \in Histories /\ Linked(h) /\ h.receipts \in [Responses -> ReceiptRows] /\ h.checkpoints \in [Responses -> CheckpointRows]
      /\ h.carriers \in [Converted \cup Plain -> CarrierRows] /\ h.uncertain \in BOOLEAN
  BY DEF Sound, Histories
<1>2. gone \subseteq Responses /\ \A r \in gone : Owner[r] = a
  BY DEF Receipts
<1>3. \A r \in Responses : h.receipts[r].state # "none" /\ r \notin gone => Owner[r] # a
  BY DEF Receipts
<1>4. \A q \in Converted \cup Plain : q \in own <=> Owner[q] = a
  BY <1>1
<1> HIDE DEF gone, own
<1>5. R \in [Responses -> ReceiptRows] /\ K \in [Responses -> CheckpointRows] /\ u \in BOOLEAN
  BY <1>1 DEF ReceiptRows, CheckpointRows, NoReceipt, NoCheckpoint
<1>6. /\ C \in [Converted \cup Plain -> CarrierRows]
      /\ \A q \in Converted \cup Plain : C[q] = IF q \in own THEN NoCarrier ELSE h.carriers[q]
  BY <1>1, CarriersRemoved
<1>7. \A r \in Responses : R[r] = (IF r \in gone THEN NoReceipt ELSE h.receipts[r]) /\ K[r] = (IF r \in gone THEN NoCheckpoint ELSE h.checkpoints[r])
  OBVIOUS
<1>8. gone # {} => u
  OBVIOUS
<1>9. h.uncertain => u
  OBVIOUS
<1> HIDE DEF R, K, C, u
<1>10. g \in Histories /\ g.receipts = R /\ g.checkpoints = K /\ g.carriers = C /\ g.uncertain = u
  BY <1>1, <1>5, <1>6 DEF Histories
<1> HIDE DEF g
<1>11. NoReceipt.state = "none" /\ NoCheckpoint.size = 0 /\ NoCarrier.state = "none"
  BY DEF NoReceipt, NoCheckpoint, NoCarrier
<1>12. \A r \in Converted : C[r].state # "none" => C[r] = h.carriers[r] /\ r \notin gone
  BY <1>2, <1>4, <1>6, <1>11, KindsOfRequests
<1>13. \A r \in Responses : r \notin gone => R[r] = h.receipts[r] /\ K[r] = h.checkpoints[r]
  BY <1>7
<1>14. \A r \in gone : R[r].state = "none" /\ K[r].size = 0
  BY <1>2, <1>7, <1>11
<1>15. Linked(g)
  <2>1. ASSUME NEW r \in Converted, C[r].state = "complete" PROVE K[r].size > 0 /\ R[r].state = "complete"
    BY <1>1, <1>12, <1>13, <2>1, KindsOfRequests DEF Linked
  <2>2. ASSUME NEW r \in Responses, K[r].size > 0 PROVE R[r].state \in {"partial", "complete"}
    BY <1>1, <1>13, <1>14, <2>2 DEF Linked
  <2> QED BY <1>10, <2>1, <2>2 DEF Linked
<1>16. Keeps(h, g)
  <2>1. ASSUME NEW r \in Responses, h.receipts[r].state # "none" PROVE R[r].state # "none" \/ u
    BY <1>8, <1>13, <2>1
  <2>2. ASSUME NEW r \in Converted, Backed(h, r), C[r].state # "none" PROVE K[r].size > 0 /\ R[r].state = "complete"
    BY <1>12, <1>13, <2>2, KindsOfRequests DEF Backed
  <2> QED BY <1>9, <1>10, <2>1, <2>2 DEF Keeps, Backed
<1>17. Sound(g)
  BY <1>10, <1>15 DEF Sound
<1> QED BY <1>16, <1>17 DEF g, R, K, C, u, own, gone

LEMMA ClearAccountKeeps ==
  ASSUME HistoryInv, NEW a, ClearAccount(a)
  PROVE  HistoryInv'
<1> DEFINE h == ExpiredAway(historyDb)
           gone == {r \in Receipts(h) : Owner[r] = a}
           draft == [h EXCEPT !.receipts = [r \in Responses |-> IF r \in gone THEN NoReceipt ELSE h.receipts[r]],
                             !.checkpoints = [r \in Responses |-> IF r \in gone THEN NoCheckpoint ELSE h.checkpoints[r]],
                             !.carriers = WithoutCarriers(h.carriers, {q \in DOMAIN h.carriers : Owner[q] = a}),
                             !.uncertain = h.uncertain \/ gone # {}]
           g == MutateIfChanged(historyDb, draft)
<1>1. /\ historyDb' = g /\ request' = request /\ responsesRecorded' = responsesRecorded /\ now' = now /\ request \in Requests
  BY DEF ClearAccount, Environment, HistoryInv
<1>2. Sound(h) /\ Keeps(historyDb, h)
  BY ExpiredAwaySound DEF HistoryInv
<1> HIDE DEF h
<1>3. Sound(draft) /\ Keeps(h, draft)
  BY <1>2, ClearedAccountSound
<1> HIDE DEF draft
<1>4. Sound(g) /\ Keeps(draft, g) /\ Within(g)
  BY <1>3, MutateSound DEF HistoryInv
<1> HIDE DEF g
<1>5. Keeps(historyDb, draft)
  BY <1>2, <1>3, KeepsTransitive
<1>6. Keeps(historyDb, g)
  BY <1>4, <1>5, KeepsTransitive
<1>7. Follows(historyDb, historyDb')
  BY <1>1, <1>4, <1>6 DEF Follows
<1> QED BY <1>1, <1>7, NothingRecorded

\* An empty history.
LEMMA EmptyIsSound ==
  ASSUME NEW h \in [receipts : {[r \in Responses |-> NoReceipt]}, checkpoints : {[r \in Responses |-> NoCheckpoint]},
                    carriers : {[q \in Converted \cup Plain |-> NoCarrier]}, legacy : SUBSET Legacy, uncertain : {FALSE}]
  PROVE  Sound(h) /\ Within(h)
<1>1. NoReceipt \in ReceiptRows /\ NoCheckpoint \in CheckpointRows /\ NoCarrier \in CarrierRows
  BY DEF NoReceipt, NoCheckpoint, NoCarrier, ReceiptRows, CheckpointRows, CarrierRows
<1>2. /\ \A r \in Responses : h.receipts[r].state = "none" /\ h.checkpoints[r].size = 0
      /\ \A q \in Converted : h.carriers[q].state = "none"
  BY KindsOfRequests DEF NoReceipt, NoCheckpoint, NoCarrier
<1>3. h \in Histories
  BY <1>1 DEF Histories
<1>4. Linked(h)
  BY <1>2, KindsOfRequests DEF Linked
<1>5. Receipts(h) = {} /\ Checkpoints(h) = {}
  BY <1>2 DEF Receipts, Checkpoints
<1>6. Units(h) = {}
  BY <1>2 DEF Units
<1>7. Within(h)
  BY <1>5, <1>6, FS_EmptySet, KindsOfRequests DEF Within, CheckpointsWithin, StoredReplay
<1> QED BY <1>3, <1>4, <1>7 DEF Sound

LEMMA ClearHistoryKeeps ==
  ASSUME HistoryInv, ClearHistory
  PROVE  HistoryInv'
<1> DEFINE e == [receipts |-> [r \in Responses |-> NoReceipt], checkpoints |-> [r \in Responses |-> NoCheckpoint],
                 carriers |-> [q \in Converted \cup Plain |-> NoCarrier], legacy |-> {}, uncertain |-> FALSE]
<1>1. DOMAIN historyDb.carriers = Converted \cup Plain
  BY DEF HistoryInv, Sound, Histories
<1>2. historyDb' = e /\ responsesRecorded' = {} /\ request' = request /\ now' = now
  BY <1>1 DEF ClearHistory, Environment
<1>3. Sound(e) /\ Within(e)
  BY EmptyIsSound
<1> HIDE DEF e
<1>4. (Sound(historyDb) /\ Within(historyDb))'
  <2>1. Sound(historyDb') /\ Within(historyDb')
    BY <1>2, <1>3
  <2> QED BY <2>1 DEF Sound, Within, Histories, Linked, CheckpointsWithin, StoredReplay, Units, Checkpoints, Receipts, ReceiptRows, CheckpointRows, CarrierRows, Responses
<1> QED BY <1>2, <1>4 DEF HistoryInv, Requests, Steps, Responses

LEMMA InitHistory == HistoryInit => HistoryInv
<1> SUFFICES ASSUME HistoryInit PROVE HistoryInv
  OBVIOUS
<1>1. Sound(historyDb) /\ Within(historyDb)
  BY EmptyIsSound DEF HistoryInit
<1>2. request \in Requests
  BY DEF HistoryInit, Requests, Steps
<1> QED BY <1>1, <1>2 DEF HistoryInit, HistoryInv

LEMMA NextHistory == HistoryInv /\ [HistoryNext]_historyVars => HistoryInv'
<1> SUFFICES ASSUME HistoryInv, [HistoryNext]_historyVars PROVE HistoryInv'
  OBVIOUS
<1>1. ASSUME NEW q \in Responses \cup Plain, NEW state \in {"route_only", "complete"}, NativeEvent(q, state) PROVE HistoryInv'
  BY <1>1, NativeEventKeeps
<1>2. ASSUME NEW q \in Responses \cup Plain, StartConverted(q) PROVE HistoryInv'
  BY <1>2, StartConvertedKeeps
<1>3. ASSUME NEW q \in Responses \cup Plain, CreateStreamCarrier(q) PROVE HistoryInv'
  BY <1>3, CreateStreamCarrierKeeps
<1>4. ASSUME NEW q \in Responses \cup Plain, NEW size \in 0..2, NEW last \in BOOLEAN, PersistPartial(q, size, last) PROVE HistoryInv'
  BY <1>4, PersistPartialKeeps
<1>5. ASSUME NEW q \in Responses \cup Plain, FinalizeSuccess(q) PROVE HistoryInv'
  BY <1>5, FinalizeSuccessKeeps
<1>6. ASSUME NEW q \in Responses \cup Plain, FinishPlain(q) PROVE HistoryInv'
  BY <1>6, FinishPlainKeeps
<1>7. ASSUME NEW q \in Responses \cup Plain, AbortRequest(q) PROVE HistoryInv'
  BY <1>7, AbortRequestKeeps
<1>8. ASSUME NEW a \in OwningAccounts, RemoveAccount(a) PROVE HistoryInv'
  BY <1>8, RemoveAccountKeeps
<1>9. ASSUME NEW a \in OwningAccounts, ClearAccount(a) PROVE HistoryInv'
  BY <1>9, ClearAccountKeeps
<1>10. ASSUME NEW days \in TTLS, SetTtlDays(days) PROVE HistoryInv'
  BY <1>10, SetTtlDaysKeeps
<1>11. CASE Resolve
  BY <1>11, ResolveKeeps
<1>12. CASE ClaimCarrier
  BY <1>12, ClaimCarrierKeeps
<1>13. CASE ClearHistory
  BY <1>13, ClearHistoryKeeps
<1>14. CASE Restart
  BY <1>14, RestartKeeps
<1>15. CASE Tick
  BY <1>15, TickKeeps
<1>16. CASE UNCHANGED historyVars
  BY <1>16 DEF historyVars, HistoryInv, Remembers, Requests, Steps, Sound, Within, Histories, Linked, CheckpointsWithin,
     StoredReplay, Units, Checkpoints, Receipts, ReceiptRows, CheckpointRows, CarrierRows, Responses
<1> QED BY <1>1, <1>2, <1>3, <1>4, <1>5, <1>6, <1>7, <1>8, <1>9, <1>10, <1>11, <1>12, <1>13, <1>14, <1>15, <1>16 DEF HistoryNext

\* A response that was recorded is never taken for one that never existed, and a
\* carrier that can be presented is backed by a stored checkpoint, within the
\* limits of every table, for every limit and any number of responses.
THEOREM HistoryConsistent == HistorySpec => []HistoryIsConsistent
<1>1. HistoryInv => HistoryIsConsistent
  <2> SUFFICES ASSUME HistoryInv PROVE HistoryIsConsistent
    OBVIOUS
  <2>1. NothingIsForgotten
    BY DEF HistoryInv, NothingIsForgotten, Remembers
  <2>2. CarriersFollowCheckpoints
    BY DEF HistoryInv, CarriersFollowCheckpoints, Sound, Linked, Within, CheckpointsWithin, Checkpoints
  <2> QED BY <2>1, <2>2 DEF HistoryIsConsistent
<1> QED BY <1>1, InitHistory, NextHistory, PTL DEF HistorySpec
=============================================================================
