----------------------------- MODULE DeviceFlow -----------------------------
(***************************************************************************)
(* DeviceFlowService (accounts/device_flow.ts): device sign-ins that are   *)
(* started, polled until GitHub authorises them and the account is         *)
(* written, and meanwhile cancelled, expired, collected or closed.  The    *)
(* account directory and the OAuth client (device_oauth.ts) are outcomes.  *)
(* A poll keeps working on its flow object after the map dropped it.       *)
(***************************************************************************)
EXTENDS Naturals, Sequences, FiniteSets, SequencesExt

CONSTANTS Flows, MAX_DEVICE_FLOWS

ASSUME DeviceFlowAssumption == MAX_DEVICE_FLOWS \in Nat \ {0}

VARIABLES flow,     \* the map: unused, starting, pending, terminal or gone
          ended,    \* the terminal flows of the map, oldest first
          status,   \* the outcome a terminal flow reports
          object,   \* the flow object: authorized, due, timer, its two abort signals
          poll,     \* the poll that works on the flow: none, exchanging, user, committing, writing
          cancels,  \* a cancel() that waits for the poll's settlement
          added,    \* upsertAuthenticated committed the account
          told,     \* a caller was told that the flow ended without an account
          collected,\* start() collected the flow while a poll worked on it
          service   \* open, closing, closed

deviceVars == <<flow, ended, status, object, poll, cancels, added, told, collected, service>>

DeviceInit ==
    /\ flow = [f \in Flows |-> "unused"] /\ ended = <<>> /\ status = [f \in Flows |-> "none"]
    /\ object = [f \in Flows |-> [authorized |-> "no", due |-> FALSE, timer |-> "none",
                                  cancelled |-> FALSE, settlement |-> FALSE]]
    /\ poll = [f \in Flows |-> "none"] /\ cancels = [f \in Flows |-> FALSE]
    /\ added = [f \in Flows |-> FALSE] /\ told = [f \in Flows |-> FALSE]
    /\ collected = [f \in Flows |-> FALSE] /\ service = "open"

Pending == {f \in Flows : flow[f] = "pending"}
Starting == {f \in Flows : flow[f] = "starting"}

\* removeFlow(): the timer is cleared and both signals of a pending flow abort.
Aborted(o) == [o EXCEPT !.timer = "none", !.cancelled = TRUE, !.settlement = TRUE]
Removed(F) == [f \in Flows |-> IF f \in F \cap Pending THEN Aborted(object[f]) ELSE object[f]]
RemoveFlow(f) ==
    /\ flow' = [flow EXCEPT ![f] = "gone"]
    /\ ended' = RemoveFirst(ended, f)
    /\ object' = Removed({f})

\* rememberTerminal(): a flow becomes the youngest terminal one and the oldest
\* gives way; a closed service remembers nothing.
Newest(s) == SubSeq(s, IF Len(s) > MAX_DEVICE_FLOWS THEN Len(s) - MAX_DEVICE_FLOWS + 1 ELSE 1, Len(s))
Kept(s, F) == Newest(s \o SetToSeq(F))
FlowAfter(F, kept) ==
    [f \in Flows |-> IF f \in F THEN "terminal"
                     ELSE IF flow[f] = "terminal" /\ f \notin ToSet(kept) THEN "gone" ELSE flow[f]]

Remember(F, kept, outcome) ==
    /\ ended' = kept
    /\ status' = [f \in Flows |-> IF f \in F THEN outcome ELSE status[f]]
    /\ object' = Removed(F)

RememberTerminal(f, outcome) ==
    IF service # "open"
    THEN UNCHANGED <<flow, ended, status, object>>
    ELSE LET kept == Kept(RemoveFirst(ended, f), {f})
         IN flow' = FlowAfter({f}, kept) /\ Remember({f}, kept, outcome)

\* start(): gc() first, which also collects due flows a poll is working on;
\* then the request for a device code, if there is room.
Due == {f \in Pending : object[f].due}

Room == Cardinality(Pending \ Due) + Cardinality(Starting) < MAX_DEVICE_FLOWS

StartFlow(f) ==
    /\ flow[f] = "unused" /\ service = "open"
    /\ Remember(Due, Kept(ended, Due), "ended")
    /\ flow' = [FlowAfter(Due, Kept(ended, Due)) EXCEPT ![f] = IF Room THEN "starting" ELSE @]
    /\ collected' = [g \in Flows |-> collected[g] \/ (g \in Due /\ poll[g] # "none")]
    /\ UNCHANGED <<poll, cancels, added, told, service>>

CodeArrives(f) ==
    /\ flow[f] = "starting"
    /\ \/ flow' = [flow EXCEPT ![f] = "gone"] /\ UNCHANGED object
       \/ /\ service = "open" /\ flow' = [flow EXCEPT ![f] = "pending"]
          /\ object' = [object EXCEPT ![f].timer = "first"]
    /\ UNCHANGED <<ended, status, poll, cancels, added, told, collected, service>>

-----------------------------------------------------------------------------
(* Time *)

TimePasses(f) ==
    /\ flow[f] = "pending" \/ poll[f] # "none"
    /\ ~object[f].due /\ object' = [object EXCEPT ![f].due = TRUE]
    /\ UNCHANGED <<flow, ended, status, poll, cancels, added, told, collected, service>>

\* The expiry timer of a flow aborts it; before authorisation it also ends the
\* flow unless a poll works on it.
TimerFires(f) ==
    /\ object[f].timer # "none" /\ object[f].due
    /\ IF object[f].timer = "first" /\ poll[f] = "none"
       THEN RememberTerminal(f, "ended")
       ELSE object' = [object EXCEPT ![f] = Aborted(@)] /\ UNCHANGED <<flow, ended, status>>
    /\ UNCHANGED <<poll, cancels, added, told, collected, service>>

\* A terminal flow is forgotten after its time to live.
TerminalForgotten(f) ==
    /\ flow[f] = "terminal" /\ RemoveFlow(f)
    /\ UNCHANGED <<status, poll, cancels, added, told, collected, service>>

-----------------------------------------------------------------------------
(* poll() *)

\* Terminal flows answer with their outcome, due ones end.
PollReports(f) ==
    /\ service = "open"
    /\ \/ flow[f] = "terminal" /\ told' = [told EXCEPT ![f] = @ \/ status[f] = "ended"] /\ UNCHANGED <<flow, ended, status, object>>
       \/ /\ flow[f] = "pending" /\ object[f].due /\ poll[f] = "none"
          /\ RememberTerminal(f, "ended") /\ told' = [told EXCEPT ![f] = TRUE]
    /\ UNCHANGED <<poll, cancels, added, collected, service>>

PollStarts(f) ==
    /\ service = "open" /\ flow[f] = "pending" /\ ~object[f].due /\ poll[f] = "none"
    /\ poll' = [poll EXCEPT ![f] = CASE object[f].authorized = "no" -> "exchanging"
                                     [] object[f].authorized = "token" -> "user"
                                     [] object[f].authorized = "user" -> "committing"]
    /\ UNCHANGED <<flow, ended, status, object, cancels, added, told, collected, service>>

\* Defect: the finally block does not settle the cancels that wait for the poll.
PollEnds_Unsettled(f) ==
    poll' = [poll EXCEPT ![f] = "none"] /\ UNCHANGED <<cancels, collected, service>>

\* The finally block: the poll is over and a waiting cancel() returns.
PollEnds(f) ==
    /\ poll' = [poll EXCEPT ![f] = "none"] /\ cancels' = [cancels EXCEPT ![f] = FALSE]
    /\ UNCHANGED <<collected, service>>

\* The exchange says authorised: the flow gets more time to be settled.
Authorized(f, how, next) ==
    /\ object' = [object EXCEPT ![f].authorized = how, ![f].due = FALSE, ![f].timer = "extended"]
    /\ poll' = [poll EXCEPT ![f] = next]
    /\ UNCHANGED <<flow, ended, status, cancels, added, told, collected, service>>

ExchangeAuthorizes(f) ==
    /\ poll[f] = "exchanging"
    /\ \/ Authorized(f, "token", "user") \/ Authorized(f, "user", "committing")

\* The poll throws or is told to wait: an exchange may at any time, an
\* authorised poll when no time is left to retry, a write when it failed.
\* A flow whose time is over expires, otherwise it stays as it is unless a
\* cancel() waits: that one removes it if the map still holds it.
MayGiveUp(f) ==
    CASE poll[f] \in {"exchanging", "writing"} -> TRUE
      [] poll[f] = "user" -> object[f].settlement \/ object[f].due
      [] poll[f] = "committing" -> object[f].settlement
      [] OTHER -> FALSE

PollGivesUp(f) ==
    /\ MayGiveUp(f)
    /\ \/ /\ object[f].due
          /\ RememberTerminal(f, "ended") /\ told' = [told EXCEPT ![f] = TRUE]
       \/ /\ ~(object[f].due /\ object[f].cancelled)
          /\ IF cancels[f] /\ flow[f] = "pending" THEN RemoveFlow(f) /\ UNCHANGED status
                                                ELSE UNCHANGED <<flow, ended, status, object>>
          /\ told' = [told EXCEPT ![f] = @ \/ cancels[f]]
    /\ PollEnds(f) /\ UNCHANGED added

\* GitHub refuses for good: the flow ends as denied, expired or failed.
PollFails(f) ==
    /\ poll[f] \in {"exchanging", "user"}
    /\ RememberTerminal(f, "ended") /\ told' = [told EXCEPT ![f] = TRUE]
    /\ PollEnds(f) /\ UNCHANGED added

UserArrives(f) ==
    /\ poll[f] = "user"
    /\ object' = [object EXCEPT ![f].authorized = "user"] /\ poll' = [poll EXCEPT ![f] = "committing"]
    /\ UNCHANGED <<flow, ended, status, cancels, added, told, collected, service>>

\* upsertAuthenticated() looks at the settlement signal before it writes.
CommitStarts(f) ==
    /\ poll[f] = "committing" /\ ~object[f].settlement
    /\ poll' = [poll EXCEPT ![f] = "writing"]
    /\ UNCHANGED <<flow, ended, status, object, cancels, added, told, collected, service>>

\* A failed write is retried while there is time.
CommitRetries(f) ==
    /\ poll[f] = "writing" /\ ~object[f].settlement /\ ~object[f].due
    /\ poll' = [poll EXCEPT ![f] = "committing"]
    /\ UNCHANGED <<flow, ended, status, object, cancels, added, told, collected, service>>

CommitSucceeds(f) ==
    /\ poll[f] = "writing"
    /\ added' = [added EXCEPT ![f] = TRUE]
    /\ RememberTerminal(f, "complete")
    /\ PollEnds(f) /\ UNCHANGED told

-----------------------------------------------------------------------------
(* cancel(), close(), forceClose() *)

\* Defect: a flow is removed although a poll works on it.
CancelFlow_Removes(f) ==
    /\ flow[f] = "pending" /\ ~cancels[f]
    /\ RemoveFlow(f) /\ told' = [told EXCEPT ![f] = TRUE]
    /\ UNCHANGED <<status, poll, cancels, added, collected, service>>

\* A flow a poll works on is only asked to stop; any other is removed now.
CancelFlow(f) ==
    /\ ~cancels[f]
    /\ \/ /\ flow[f] = "pending" /\ poll[f] # "none"
          /\ object' = [object EXCEPT ![f].cancelled = TRUE] /\ cancels' = [cancels EXCEPT ![f] = TRUE]
          /\ UNCHANGED <<flow, ended, status, told>>
       \/ /\ (flow[f] = "pending" /\ poll[f] = "none") \/ (flow[f] = "terminal" /\ status[f] = "ended")
          /\ RemoveFlow(f) /\ told' = [told EXCEPT ![f] = TRUE] /\ UNCHANGED <<status, cancels>>
    /\ UNCHANGED <<poll, added, collected, service>>

\* close() lets authorised polls settle, without their timer; the rest goes.
Settling == {f \in Pending : object[f].authorized # "no" /\ poll[f] # "none"}

CloseService ==
    /\ service = "open" /\ service' = "closing"
    /\ flow' = [f \in Flows |-> IF flow[f] \in {"unused", "starting"} \/ f \in Settling THEN flow[f] ELSE "gone"]
    /\ ended' = <<>>
    /\ object' = [f \in Flows |-> IF f \in Settling THEN [object[f] EXCEPT !.cancelled = TRUE, !.timer = "none"]
                                  ELSE Removed(Flows)[f]]
    /\ UNCHANGED <<status, poll, cancels, added, told, collected>>

Shut ==
    /\ service' = "closed" /\ ended' = <<>> /\ object' = Removed(Flows)
    /\ flow' = [f \in Flows |-> IF flow[f] \in {"unused", "starting"} THEN flow[f] ELSE "gone"]
    /\ UNCHANGED <<status, poll, cancels, added, told, collected>>

CloseReturns ==
    /\ service = "closing" /\ \A f \in Flows : poll[f] = "none"
    /\ Shut

ForceCloseService ==
    /\ service # "closed"
    /\ Shut

DeviceNext ==
    \/ \E f \in Flows : \/ StartFlow(f) \/ CodeArrives(f) \/ TimePasses(f) \/ TimerFires(f)
                        \/ TerminalForgotten(f) \/ PollReports(f) \/ PollStarts(f) \/ ExchangeAuthorizes(f)
                        \/ PollGivesUp(f) \/ PollFails(f) \/ UserArrives(f) \/ CommitStarts(f)
                        \/ CommitRetries(f) \/ CommitSucceeds(f) \/ CancelFlow(f)
    \/ CloseService \/ CloseReturns \/ ForceCloseService

PollStep(f) == UserArrives(f) \/ CommitStarts(f) \/ CommitSucceeds(f) \/ PollGivesUp(f)

DeviceSpec == DeviceInit /\ [][DeviceNext]_deviceVars

\* Time passes, timers fire and a poll's requests answer or time out.
DeviceFairness ==
    \A f \in Flows : /\ WF_deviceVars(TimePasses(f)) /\ WF_deviceVars(TimerFires(f))
                     /\ WF_deviceVars(PollStep(f))

-----------------------------------------------------------------------------
\* A caller that was told its sign-in ended (cancelled, expired, denied or
\* failed) never finds the account added afterwards, unless start() collected
\* the flow while its account was being written (device_flow.ts:417).  A
\* closing service no longer records outcomes and answers "canceled" to all.
EndedAddsNothing ==
    service = "open" => \A f \in Flows : told[f] /\ added[f] => collected[f]

\* Starting and pending flows together, and remembered terminal flows, stay
\* within the limit, however starts, expiries and late polls interleave.
FlowsAreBounded ==
    /\ Cardinality(Pending) + Cardinality(Starting) <= MAX_DEVICE_FLOWS
    /\ Len(ended) <= MAX_DEVICE_FLOWS

\* cancel() returns although it only asks the poll to stop: the poll settles
\* or runs out of time (device_flow.ts:359, :466).
CancelReturns ==
    \A f \in Flows : cancels[f] ~> ~cancels[f]

\* An ended sign-in adds no account, and starting and pending ones keep to their
\* limit (device_flow.ts:359, :417, :425).
FlowsEndOnce == EndedAddsNothing /\ FlowsAreBounded

=============================================================================
