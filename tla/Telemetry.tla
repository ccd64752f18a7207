------------------------------ MODULE Telemetry ------------------------------
(***************************************************************************)
(* Usage and operational events on their way to the administrator: the     *)
(* TelemetryRecorder's bounded queue (telemetry/recorder.ts), the          *)
(* TelemetryRuntime that flushes it (telemetry/runtime.ts), the event      *)
(* table and its paged and replayed reads (telemetry/admin.ts) and the     *)
(* AdminEventStreamHub with one subscriber (admin/events.ts).              *)
(* An event is its row id, 0 a performance frame; usage is a count per     *)
(* key.  A flush has no await inside: it is one step.                      *)
(***************************************************************************)
EXTENDS Integers, Sequences, FiniteSets, SequencesExt, FiniteSetsExt

CONSTANTS Keys,                \* usage keys (hour, account, protocol, model, outcome)
          QUEUE_CAP, FLUSH_BATCH, EVENT_ROW_CAP, REPLAY_BATCH, SUBSCRIBER_CAP,
          MAX_USAGE, MAX_EVENTS \* bounds on what is recorded

ASSUME TelemetryAssumption ==
    {QUEUE_CAP, FLUSH_BATCH, EVENT_ROW_CAP, REPLAY_BATCH, SUBSCRIBER_CAP} \subseteq Nat \ {0}

VARIABLES pending,   \* the queue: usage per key with its count, or events
          recorded,  \* calls of recordUsage and recordEvent so far
          drops,     \* the counters of dropped usage and events kept in memory
          lost,      \* drops forgotten because their transaction rolled back
          db,        \* usage stored, event rows, last row id, persisted drops
          runtime,   \* open, draining, closed
          hub,       \* open, closed
          sub,       \* the subscriber
          delivered, \* event ids and resets the subscriber's client received
          pager      \* a client that pages through the events: cursor and ids seen

telemetryVars == <<pending, recorded, drops, lost, db, runtime, hub, sub, delivered, pager>>

None == -1
Performance == 0
Heartbeat == -2
Reset(latest) == -10 - latest

Zero == [usage |-> 0, event |-> 0]
NoSubscriber == [open |-> FALSE, from |-> 0, cursor |-> None, through |-> None, started |-> FALSE, done |-> TRUE,
                 replay |-> <<>>, performance |-> FALSE, queue |-> <<>>, queued |-> 0,
                 latest |-> None, pull |-> "idle", read |-> [found |-> FALSE, latest |-> None, items |-> <<>>]]

TelemetryInit ==
    /\ pending = <<>> /\ recorded = Zero /\ drops = Zero /\ lost = Zero
    /\ db = [usage |-> 0, rows |-> <<>>, last |-> 0, drops |-> Zero]
    /\ runtime = "open" /\ hub = "open" /\ sub = NoSubscriber /\ delivered = <<>>
    /\ pager = [cursor |-> 0, seen |-> {}]

-----------------------------------------------------------------------------
(* Recording *)

IsUsage(item) == item.type = "usage"
IsEvent(item) == item.type = "event"
\* Where the update's key is queued, and the oldest of either kind; 0 for nowhere.
Queued(k) == SelectInSeq(pending, LAMBDA i : IsUsage(i) /\ i.key = k)
OldestUsage == SelectInSeq(pending, IsUsage)
OldestEvent == SelectInSeq(pending, IsEvent)
UsageItem(k) == [type |-> "usage", key |-> k, count |-> 1]
EventItem == [type |-> "event", key |-> "event", count |-> 1]

\* A key already queued absorbs the update; a full queue gives up its oldest
\* usage, or the update when it holds events only.
RecordUsage(k) ==
    LET full == Len(pending) >= QUEUE_CAP
    IN /\ recorded.usage < MAX_USAGE /\ runtime # "closed"
       /\ recorded' = [recorded EXCEPT !.usage = @ + 1]
       /\ \/ /\ Queued(k) # 0
             /\ pending' = [pending EXCEPT ![Queued(k)].count = @ + 1] /\ UNCHANGED drops
          \/ /\ Queued(k) = 0 /\ ~full
             /\ pending' = Append(pending, UsageItem(k)) /\ UNCHANGED drops
          \/ /\ Queued(k) = 0 /\ full /\ OldestUsage = 0
             /\ drops' = [drops EXCEPT !.usage = @ + 1] /\ UNCHANGED pending
          \/ /\ Queued(k) = 0 /\ full /\ OldestUsage # 0
             /\ pending' = Append(RemoveAt(pending, OldestUsage), UsageItem(k))
             /\ drops' = [drops EXCEPT !.usage = @ + pending[OldestUsage].count]
       /\ UNCHANGED <<lost, db, runtime, hub, sub, delivered, pager>>

\* A full queue gives up its oldest event, or the new one when it holds usage only.
RecordEvent ==
    LET full == Len(pending) >= QUEUE_CAP
    IN /\ recorded.event < MAX_EVENTS /\ runtime # "closed"
       /\ recorded' = [recorded EXCEPT !.event = @ + 1]
       /\ \/ ~full /\ pending' = Append(pending, EventItem) /\ UNCHANGED drops
          \/ /\ full /\ drops' = [drops EXCEPT !.event = @ + 1]
             /\ pending' = IF OldestEvent = 0 THEN pending
                           ELSE Append(RemoveAt(pending, OldestEvent), EventItem)
       /\ UNCHANGED <<lost, db, runtime, hub, sub, delivered, pager>>

-----------------------------------------------------------------------------
(* The hub's subscriber *)

\* closeSubscriber(): everything queued is forgotten.
Closed == NoSubscriber

\* enqueue() of a counted frame: a full subscriber is closed.
Enqueue(s, frame) ==
    IF s.queued + Len(s.replay) >= SUBSCRIBER_CAP THEN Closed
    ELSE [s EXCEPT !.queue = Append(@, frame), !.queued = @ + 1]

\* publish(): an event the replay covers or that was already queued is skipped.
Covered(s, id) == (s.through # None /\ id <= s.through) \/ (s.latest # None /\ id <= s.latest)

Publish(s, id) ==
    IF ~s.open \/ Covered(s, id) THEN s ELSE Enqueue([s EXCEPT !.latest = id], id)

-----------------------------------------------------------------------------
(* Flushing *)

Batch(n) == SubSeq(pending, 1, IF Len(pending) < n THEN Len(pending) ELSE n)
PartialSums(w) == LET sum[n \in 0..Len(w)] == IF n = 0 THEN 0 ELSE sum[n - 1] + w[n] IN sum
Total(w) == PartialSums(w)[Len(w)]
UsageIn(items) == Total([i \in DOMAIN items |-> IF IsUsage(items[i]) THEN items[i].count ELSE 0])
EventsIn(items) == Total([i \in DOMAIN items |-> IF IsEvent(items[i]) THEN 1 ELSE 0])
NewIds(n) == [i \in 1..EventsIn(Batch(n)) |-> db.last + i]

\* cleanup(): retention removes the k oldest rows, the row cap what is left over.
Cleaned(rows, k) ==
    LET over == IF Len(rows) - EVENT_ROW_CAP > k THEN Len(rows) - EVENT_ROW_CAP ELSE k
    IN SubSeq(rows, over + 1, Len(rows))

PersistDrops == [usage |-> db.drops.usage + drops.usage, event |-> db.drops.event + drops.event]

\* flush(), committed: rows first, observers after the transaction.
FlushCommits(n) ==
    /\ \E k \in 0..1 : k <= Len(db.rows) /\
          db' = [usage |-> db.usage + UsageIn(Batch(n)), rows |-> Cleaned(db.rows \o NewIds(n), k),
                 last |-> db.last + EventsIn(Batch(n)), drops |-> PersistDrops]
    /\ pending' = SubSeq(pending, Len(Batch(n)) + 1, Len(pending))
    /\ drops' = Zero /\ sub' = FoldLeft(Publish, sub, NewIds(n))
    /\ UNCHANGED <<recorded, lost, delivered, pager>>

\* Defect: the batch of a failed flush is not queued again.
FlushFails_LosesBatch(n) ==
    /\ pending' = SubSeq(pending, Len(Batch(n)) + 1, Len(pending))
    /\ UNCHANGED <<drops, lost, recorded, db, sub, delivered, pager>>

\* flush(), rolled back: the batch goes back to the queue's head, but the drop
\* counters are already reset when the failure comes after persistDrops().
FlushFails(n) ==
    /\ \/ UNCHANGED <<drops, lost>>
       \/ drops' = Zero /\ lost' = [usage |-> lost.usage + drops.usage, event |-> lost.event + drops.event]
    /\ UNCHANGED <<pending, recorded, db, sub, delivered, pager>>

ScheduledFlush ==
    /\ runtime = "open" /\ pending # <<>>
    /\ FlushCommits(FLUSH_BATCH) \/ FlushFails(FLUSH_BATCH)
    /\ UNCHANGED <<runtime, hub>>

\* close(): batches until the queue is empty; a failing flush ends the drain.
CloseRuntime ==
    /\ runtime = "open" /\ runtime' = "draining"
    /\ UNCHANGED <<pending, recorded, drops, lost, db, hub, sub, delivered, pager>>

DrainFlush ==
    /\ runtime = "draining"
    /\ \/ /\ FlushCommits(FLUSH_BATCH)
          /\ runtime' = IF Len(pending) > FLUSH_BATCH THEN "draining" ELSE "closed"
       \/ FlushFails(FLUSH_BATCH) /\ runtime' = "closed"
    /\ UNCHANGED hub

ForceCloseRuntime ==
    /\ runtime = "open" /\ runtime' = "closed"
    /\ IF pending = <<>> THEN UNCHANGED <<pending, recorded, drops, lost, db, sub, delivered, pager>>
       ELSE FlushCommits(FLUSH_BATCH) \/ FlushFails(FLUSH_BATCH)
    /\ UNCHANGED hub

-----------------------------------------------------------------------------
(* The subscriber's stream *)

\* open() with the Last-Event-ID the client knows, or none.
OpenStream(cursor) ==
    /\ hub = "open" /\ ~sub.open
    /\ sub' = [NoSubscriber EXCEPT !.open = TRUE, !.from = IF cursor = None THEN db.last ELSE cursor,
                                   !.cursor = cursor, !.done = cursor = None, !.performance = TRUE]
    /\ delivered' = <<>>
    /\ UNCHANGED <<pending, recorded, drops, lost, db, runtime, hub, pager>>

Delivers(s, frame) ==
    /\ sub' = s /\ delivered' = IF frame \in {Performance, Heartbeat} THEN delivered ELSE Append(delivered, frame)
    /\ UNCHANGED <<pending, recorded, drops, lost, db, runtime, hub, pager>>

\* A frame shifted from the live queue; heartbeats are not counted.
Shifted(s) ==
    [s EXCEPT !.queue = Tail(@), !.queued = IF Head(s.queue) = Heartbeat THEN @ ELSE @ - 1, !.pull = "idle"]

\* replayEvents() as the table stands now.
ReplayEvents(cursor) ==
    LET after == SelectSeq(db.rows, LAMBDA id : id > cursor)
        found == cursor \in ToSet(db.rows)
    IN [found |-> found, latest |-> IF db.rows = <<>> THEN None ELSE Last(db.rows),
        items |-> IF found THEN SubSeq(after, 1, IF Len(after) < REPLAY_BATCH THEN Len(after) ELSE REPLAY_BATCH) ELSE <<>>]

\* pull(): buffered replay, the next replay batch, performance, live.
Pull ==
    /\ sub.open /\ sub.pull = "idle"
    /\ CASE sub.replay # <<>> -> Delivers([sub EXCEPT !.replay = Tail(@)], Head(sub.replay))
         [] sub.replay = <<>> /\ ~sub.done ->
              Delivers([sub EXCEPT !.pull = "reading", !.read = ReplayEvents(sub.cursor)], Heartbeat)
         [] sub.replay = <<>> /\ sub.done /\ sub.performance ->
              Delivers([sub EXCEPT !.performance = FALSE], Performance)
         [] OTHER -> IF sub.queue = <<>> THEN Delivers([sub EXCEPT !.pull = "waiting"], Heartbeat)
                     ELSE Delivers(Shifted(sub), Head(sub.queue))

\* Defect: live events that the replay covers are delivered once more.
DiscardReplayedLiveEvents_Keeps(s) == s

\* The batch is applied a turn later: the first one fixes how far the replay
\* goes and discards the live events it covers.
DiscardReplayedLiveEvents(s) ==
    LET stays(frame) == frame \in {Performance, Heartbeat} \/ frame > s.through
    IN [s EXCEPT !.queue = SelectSeq(@, stays),
                 !.queued = @ - (Len(s.queue) - Len(SelectSeq(s.queue, stays)))]

NextInitialFrame ==
    LET read == sub.read
        first == [sub EXCEPT !.started = TRUE, !.through = IF read.latest = None THEN sub.cursor ELSE read.latest]
        s == [IF sub.started THEN sub ELSE DiscardReplayedLiveEvents(first)
              EXCEPT !.pull = "idle", !.read = NoSubscriber.read]
        items == SelectSeq(read.items, LAMBDA id : id <= s.through)
        ends == items = <<>> \/ Last(items) >= s.through
    IN /\ sub.pull = "reading"
       /\ CASE ~read.found -> Delivers([s EXCEPT !.done = TRUE], Reset(read.latest))
            [] read.found /\ s.queued + Len(items) > SUBSCRIBER_CAP -> Delivers(Closed, Heartbeat)
            [] read.found /\ s.queued + Len(items) <= SUBSCRIBER_CAP /\ items = <<>> -> Delivers([s EXCEPT !.done = TRUE], Heartbeat)
            [] OTHER -> Delivers([s EXCEPT !.replay = Tail(items), !.cursor = Last(items), !.done = ends], Head(items))

Wake ==
    /\ sub.pull = "waiting" /\ sub.queue # <<>>
    /\ Delivers(Shifted(sub), Head(sub.queue))

\* A performance transition is published to the subscriber as a counted frame.
ObservePerformance ==
    /\ sub.open /\ runtime = "open"
    /\ Delivers(Enqueue(sub, Performance), Heartbeat)

\* The keep-alive timer: only when nothing else waits.
KeepAlive ==
    /\ sub.open /\ sub.queue = <<>> /\ sub.replay = <<>> /\ ~sub.performance
    /\ Delivers([sub EXCEPT !.queue = <<Heartbeat>>], Heartbeat)

\* The client goes away, or the hub closes for good.
CloseStream ==
    /\ sub.open /\ Delivers(Closed, Heartbeat)

CloseHub ==
    /\ hub = "open" /\ hub' = "closed" /\ sub' = Closed
    /\ UNCHANGED <<pending, recorded, drops, lost, db, runtime, delivered, pager>>

-----------------------------------------------------------------------------
(* queryEvents(): a page is one row here, the cursor the last row of the page *)

Page(rows) == <<rows[1], rows[1]>>

QueryEvents ==
    LET after == SelectSeq(db.rows, LAMBDA id : id > pager.cursor)
        rows == SubSeq(after, 1, IF Len(after) < 2 THEN Len(after) ELSE 2)
    IN /\ rows # <<>>
       /\ pager' = [cursor |-> Page(rows)[2], seen |-> pager.seen \cup {Page(rows)[1]}]
       /\ UNCHANGED <<pending, recorded, drops, lost, db, runtime, hub, sub, delivered>>

TelemetryNext ==
    \/ \E k \in Keys : RecordUsage(k)
    \/ RecordEvent \/ ScheduledFlush \/ CloseRuntime \/ DrainFlush \/ ForceCloseRuntime
    \/ \E c \in {None} \cup 0..db.last : OpenStream(c)
    \/ Pull \/ NextInitialFrame \/ Wake \/ ObservePerformance \/ KeepAlive \/ CloseStream \/ CloseHub
    \/ QueryEvents

TelemetrySpec == TelemetryInit /\ [][TelemetryNext]_telemetryVars

-----------------------------------------------------------------------------
\* Everything recorded is stored, waits in the bounded queue or is counted as
\* dropped, however recordings, evictions, batches and failing flushes
\* interleave; only a rollback can forget a drop (recorder.ts:309).
EverythingIsAccounted ==
    /\ recorded.usage = db.usage + UsageIn(pending) + drops.usage + db.drops.usage + lost.usage
    /\ recorded.event = db.last + EventsIn(pending) + drops.event + db.drops.event + lost.event
    /\ Len(pending) <= QUEUE_CAP

\* A subscriber receives every event after its cursor once and in order, first
\* from the table and then live, although flushes and cleanups fall between
\* the batches; a reset tells it of a gap, and after a reset nothing younger
\* than the event the reset names is missing (events.ts:271).
EventsInOrder ==
    LET resets == {i \in DOMAIN delivered : delivered[i] < 0}
        cut == IF resets = {} THEN Len(delivered) ELSE Min(resets) - 1
        later == SubSeq(delivered, cut + 2, Len(delivered))
    IN sub.open => /\ \A i \in 1..cut : delivered[i] = sub.from + i
                   /\ Cardinality(resets) <= 1
                   /\ \A i \in 1..Len(later) : later[i] = later[1] + i - 1
                   /\ later # <<>> => /\ later[1] > sub.from + cut
                                      /\ \/ delivered[cut + 1] = Reset(None)
                                         \/ later[1] <= -10 - delivered[cut + 1] + 1

\* What a subscriber holds stays within its cap, the count agrees with the
\* queue, and a reader sleeps only while there is nothing for it (events.ts:224, :301).
SubscriberIsServed ==
    /\ sub.queued = Len(SelectSeq(sub.queue, LAMBDA frame : frame # Heartbeat))
    /\ sub.queued + Len(sub.replay) <= SUBSCRIBER_CAP
    /\ sub.pull = "waiting" => sub.done /\ sub.replay = <<>>

\* Pages chained by cursors skip no row that is still there (admin.ts:275).
PagesSkipNothing ==
    \A id \in ToSet(db.rows) : id <= pager.cursor => id \in pager.seen

\* Both readers of the event table, the live stream and the chained pages, see
\* every event that is still theirs, in order and within their limits
\* (events.ts:271, :301, admin.ts:275).
EventsReachTheirReaders == EventsInOrder /\ SubscriberIsServed /\ PagesSkipNothing

=============================================================================
