----------------------------- MODULE Diagnostics -----------------------------
(***************************************************************************)
(* DiagnosticRecorder (telemetry/diagnostics.ts): the traces of concurrent *)
(* requests, each with its own record limit, share one bounded queue that  *)
(* a callback drains into a sink, record by record, until the recorder     *)
(* fails or closes.  Records are stage records or priority records         *)
(* (request_failed, request_finished); their fields are left out.          *)
(***************************************************************************)
EXTENDS Naturals, Sequences, FiniteSets, SequencesExt

CONSTANTS Traces, REQUEST_RECORDS, DIAGNOSTIC_QUEUE, MAX_OFFERED \* a bound on the calls

ASSUME DiagnosticsAssumption == REQUEST_RECORDS \in Nat /\ REQUEST_RECORDS > 2 /\ DIAGNOSTIC_QUEUE \in Nat \ {0}

VARIABLES trace,     \* per request: seq, failureSeen, finished
          records,   \* the queue
          offered, written, droppedRecords,
          recorder,  \* recording, degraded, failed
          scheduled, \* a drain callback is scheduled
          closing,   \* no, closing
          drained    \* a close() that waits for the queue to drain

diagnosticVars == <<trace, records, offered, written, droppedRecords, recorder, scheduled, closing, drained>>

DiagnosticsInit ==
    /\ trace = [t \in Traces |-> [begun |-> FALSE, seq |-> 0, failed |-> FALSE, finished |-> FALSE]]
    /\ records = <<>> /\ offered = 0 /\ written = 0 /\ droppedRecords = 0
    /\ recorder = "recording" /\ scheduled = FALSE /\ closing = FALSE /\ drained = "none"

Dropped(n) ==
    /\ droppedRecords' = droppedRecords + n
    /\ recorder' = IF recorder = "failed" THEN recorder ELSE "degraded"

\* clear(): nothing is queued or scheduled and a waiting close() returns.
Clear ==
    /\ records' = <<>> /\ scheduled' = FALSE
    /\ drained' = IF drained = "waiting" THEN "done" ELSE drained

\* fail(): the queue is given up and counted.
Fail(extra) ==
    /\ recorder' = "failed" /\ droppedRecords' = droppedRecords + extra + Len(records)
    /\ Clear

\* enqueue(): a full queue makes room for a priority record only, at the
\* expense of its oldest stage record.
EnqueueRecord(event) ==
    LET stage == SelectInSeq(records, LAMBDA r : r = "stage")
        victim == IF event = "stage" THEN 0 ELSE stage
    IN CASE Len(records) < DIAGNOSTIC_QUEUE ->
              records' = Append(records, event) /\ scheduled' = TRUE /\ UNCHANGED <<droppedRecords, recorder>>
         [] Len(records) >= DIAGNOSTIC_QUEUE /\ victim = 0 ->
              Dropped(1) /\ UNCHANGED <<records, scheduled>>
         [] OTHER -> records' = Append(RemoveAt(records, victim), event) /\ scheduled' = TRUE /\ Dropped(1)

\* record(): refused by a failed or closing recorder, a failure of its own
\* when the observation throws, otherwise queued within the request's limit.
RecordOf(t, event, next) ==
    /\ offered < MAX_OFFERED /\ offered' = offered + 1
    /\ \/ /\ recorder = "failed" \/ closing
          /\ Dropped(1) /\ trace' = [trace EXCEPT ![t] = next]
          /\ UNCHANGED <<records, scheduled, drained>>
       \/ /\ recorder # "failed" /\ ~closing /\ trace' = [trace EXCEPT ![t] = next]
          /\ Fail(1)
       \/ /\ recorder # "failed" /\ ~closing /\ event = "stage" /\ trace[t].seq >= REQUEST_RECORDS - 2
          /\ Dropped(1) /\ trace' = [trace EXCEPT ![t] = next] /\ UNCHANGED <<records, scheduled, drained>>
       \/ /\ recorder # "failed" /\ ~closing /\ ~(event = "stage" /\ trace[t].seq >= REQUEST_RECORDS - 2)
          /\ trace' = [trace EXCEPT ![t] = [next EXCEPT !.seq = @ + 1]]
          /\ EnqueueRecord(event) \/ (Dropped(1) /\ UNCHANGED <<records, scheduled>>) \* too large
          /\ UNCHANGED drained
    /\ UNCHANGED <<written, closing>>

Stage(t) == ~trace[t].finished /\ RecordOf(t, "stage", [trace[t] EXCEPT !.begun = TRUE])
Failure(t) ==
    /\ trace[t].begun /\ ~trace[t].finished /\ ~trace[t].failed
    /\ RecordOf(t, "failed", [trace[t] EXCEPT !.failed = TRUE])
Finish(t) ==
    /\ trace[t].begun /\ ~trace[t].finished
    /\ RecordOf(t, "finished", [trace[t] EXCEPT !.finished = TRUE])

\* observe(): a field, a byte count or a stream event whose observer throws.
ObserverThrows ==
    /\ recorder # "failed" /\ ~closing /\ Fail(0)
    /\ UNCHANGED <<trace, offered, written, closing>>

\* Defect: the drain does not schedule its next turn.
Drain_Stops ==
    /\ scheduled /\ scheduled' = FALSE /\ records # <<>>
    /\ records' = Tail(records) /\ written' = written + 1
    /\ UNCHANGED <<trace, offered, droppedRecords, recorder, closing, drained>>

\* drain(): one record per callback; the sink may fail.
Drain ==
    /\ scheduled
    /\ \/ /\ records' = Tail(records) /\ written' = written + 1
          /\ scheduled' = (records' # <<>>)
          /\ drained' = IF records' = <<>> /\ drained = "waiting" THEN "done" ELSE drained
          /\ UNCHANGED <<droppedRecords, recorder>>
       \/ /\ recorder' = "failed" /\ droppedRecords' = droppedRecords + Len(records) /\ UNCHANGED written
          /\ Clear
    /\ UNCHANGED <<trace, offered, closing>>

CloseDiagnostics ==
    /\ drained = "none" /\ closing' = TRUE
    /\ drained' = IF records = <<>> THEN "done" ELSE "waiting"
    /\ UNCHANGED <<trace, records, offered, written, droppedRecords, recorder, scheduled>>

ForceCloseDiagnostics ==
    /\ closing' = TRUE /\ Clear
    /\ IF records # <<>> THEN Dropped(Len(records)) ELSE UNCHANGED <<droppedRecords, recorder>>
    /\ UNCHANGED <<trace, offered, written>>

DiagnosticsNext ==
    \/ \E t \in Traces : Stage(t) \/ Failure(t) \/ Finish(t)
    \/ ObserverThrows \/ Drain \/ CloseDiagnostics \/ ForceCloseDiagnostics

DiagnosticsSpec == DiagnosticsInit /\ [][DiagnosticsNext]_diagnosticVars

-----------------------------------------------------------------------------
\* Every record a request offers is written, queued or counted as dropped,
\* exactly once, whatever evictions, sink failures, throwing observers and
\* closes it meets (diagnostics.ts:334, :352, :367).
EveryRecordCounts ==
    offered = written + Len(records) + droppedRecords

\* A queued record has a callback that will write it, so a close() that waits
\* for the queue to drain is never left waiting (diagnostics.ts:308, :346).
DrainIsScheduled ==
    /\ scheduled <=> records # <<>>
    /\ drained = "waiting" => scheduled

\* No record vanishes without being counted, and none waits for a callback that
\* will never come (diagnostics.ts:308, :334, :352).
RecordsAreAccounted == EveryRecordCounts /\ DrainIsScheduled

=============================================================================
