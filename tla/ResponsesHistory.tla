-------------------------- MODULE ResponsesHistory --------------------------
(***************************************************************************)
(* What /v1/responses remembers (protocols/openai_responses/history.ts,    *)
(* protocols/conversion/reasoning_carriers.ts): a route receipt and a      *)
(* replay checkpoint per response, reasoning carriers, legacy responses    *)
(* and the uncertainty mark, in one database whose transactions expire and *)
(* evict as they write.  Requests stream at the same time: a converted one *)
(* records route_only, partial and at last complete, with its carrier      *)
(* promoted in the same transaction; a native one records receipts only; a *)
(* plain one (chat, messages) has a carrier and no response.  A replay is  *)
(* a number: its size, 0 when nothing of the output can be replayed.       *)
(***************************************************************************)
EXTENDS Integers, FiniteSets, FiniteSetsExt, Sequences, SequencesExt

CONSTANTS Converted, Native, Plain, \* requests, and the response each of the first two makes
          Legacy,                   \* responses stored before receipts existed
          Owner,                    \* the account of each request
          MAX_RESPONSES, MAX_RECEIPTS, MAX_STORED_REPLAY, MAX_CARRIERS,
          TTLS, MAX_TIME, MAX_REQUESTS \* bounds: requests that one behaviour runs

\* A receipt outlives its checkpoint: the code keeps 512 checkpoints and 2048 receipts.
ASSUME HistoryAssumption ==
    /\ IsFiniteSet(Converted) /\ IsFiniteSet(Native) /\ IsFiniteSet(Plain) /\ IsFiniteSet(Legacy)
    /\ Converted \cap Plain = {} /\ Native \cap Plain = {} /\ Converted \cap Native = {}
    /\ {MAX_RESPONSES, MAX_RECEIPTS, MAX_STORED_REPLAY, MAX_CARRIERS} \subseteq Nat \ {0}
    /\ MAX_RESPONSES <= MAX_RECEIPTS /\ TTLS \subseteq Nat

Responses == Converted \cup Native
OwningAccounts == {Owner[q] : q \in Responses \cup Plain}

VARIABLES historyDb,      \* receipts, checkpoints, carriers, legacy, uncertain
          recency,  \* recentReceiptCleanup: [response, until], oldest first
          request, \* per request: where it is, the replay of its last intent
          active,  \* accounts that accountIsActive() accepts
          ttl, now,
          responsesRecorded \* responses recorded since the last clear()

historyVars == <<historyDb, recency, request, active, ttl, now, responsesRecorded>>

NoReceipt == [state |-> "none", born |-> 0, seq |-> 0]
NoCheckpoint == [size |-> 0, seq |-> 0]
NoCarrier == [state |-> "none", born |-> 0, seq |-> 0]

HistoryInit ==
    /\ historyDb \in [receipts : {[r \in Responses |-> NoReceipt]}, checkpoints : {[r \in Responses |-> NoCheckpoint]},
               carriers : {[q \in Converted \cup Plain |-> NoCarrier]}, legacy : SUBSET Legacy, uncertain : {FALSE}]
    /\ \E run \in kSubset(MAX_REQUESTS, Responses \cup Plain) :
          request = [q \in Responses \cup Plain |-> [step |-> IF q \in run THEN "idle" ELSE "failed", size |-> 0]]
    /\ recency = <<>>
    /\ active = OwningAccounts /\ ttl \in TTLS /\ now = 0 /\ responsesRecorded = {}

-----------------------------------------------------------------------------
(* Expiry and eviction *)

\* Responses whose receipt is in the set, in the order of insertion.
Receipts(h) == {r \in Responses : h.receipts[r].state # "none"}
Checkpoints(h) == {r \in Responses : h.checkpoints[r].size > 0}

\* A new row goes behind the others; only the order of insertion_seq matters.
Inserted(rows, k, row) ==
    LET Place(j) == Cardinality({i \in DOMAIN rows : 0 < rows[i].seq /\ rows[i].seq <= rows[j].seq})
        last == Cardinality({i \in DOMAIN rows : 0 < rows[i].seq})
    IN [j \in DOMAIN rows |-> IF j = k THEN [row EXCEPT !.seq = last + 1] ELSE [rows[j] EXCEPT !.seq = Place(j)]]

Overdue(born) == born + ttl <= now

WithoutCarriers(carriers, gone) ==
    [q \in DOMAIN carriers |-> IF q \in gone THEN NoCarrier ELSE carriers[q]]

ExpireReceipts(h) ==
    LET due == {r \in Receipts(h) : h.receipts[r].state # "expired" /\ Overdue(h.receipts[r].born)}
    IN [h EXCEPT !.receipts = [r \in Responses |-> IF r \in due THEN [@[r] EXCEPT !.state = "expired"] ELSE @[r]],
                 !.checkpoints = [r \in Responses |-> IF r \in due THEN NoCheckpoint ELSE @[r]],
                 !.carriers = WithoutCarriers(@, due)]

ExpireLegacy(h) ==
    IF h.legacy # {} /\ Overdue(0) THEN [h EXCEPT !.legacy = {}, !.uncertain = TRUE] ELSE h

\* A checkpoint goes with its carriers, and its receipt says route_only again.
DropCheckpoints(h, gone) ==
    [h EXCEPT !.checkpoints = [r \in Responses |-> IF r \in gone THEN NoCheckpoint ELSE @[r]],
              !.carriers = WithoutCarriers(@, gone),
              !.receipts = [r \in Responses |-> IF r \in gone /\ @[r].state # "expired"
                                                THEN [@[r] EXCEPT !.state = "route_only"] ELSE @[r]]]

Oldest(h, n) ==
    {r \in Checkpoints(h) : Cardinality({s \in Checkpoints(h) : h.checkpoints[s].seq < h.checkpoints[r].seq}) < n}
Units(h) == {u \in Responses \X (1 .. 9) : u[2] <= h.checkpoints[u[1]].size}
StoredReplay(h) == Cardinality(Units(h))

EvictCheckpointOverflow(h) ==
    LET over == Cardinality(Checkpoints(h)) + Cardinality(h.legacy) - MAX_RESPONSES
        \* legacy responses first, in any order
        old == IF over > 0 THEN Min({over, Cardinality(h.legacy)}) ELSE 0
        kept == CHOOSE rest \in SUBSET h.legacy : Cardinality(rest) = Cardinality(h.legacy) - old
        byCount == DropCheckpoints([h EXCEPT !.legacy = kept, !.uncertain = @ \/ old > 0],
                                   IF over > old THEN Oldest(h, over - old) ELSE {})
        fits == {n \in 0 .. Cardinality(Responses) :
                   StoredReplay(DropCheckpoints(byCount, Oldest(byCount, n))) <= MAX_STORED_REPLAY}
    IN DropCheckpoints(byCount, Oldest(byCount, Min(fits)))

\* Defect: an evicted id is not remembered as uncertain.
EvictReceiptOverflow_Forgets(h) ==
    LET over == Cardinality(Receipts(h)) - MAX_RECEIPTS
        loose == {r \in Receipts(h) : h.checkpoints[r].size = 0}
    IN IF over <= 0 THEN h
       ELSE [h EXCEPT !.receipts = [r \in Responses |-> IF r \in loose THEN NoReceipt ELSE @[r]]]

\* Receipts without a checkpoint, expired ones first; losing one makes every
\* unknown response id uncertain.
EvictReceiptOverflow(h) ==
    LET over == Cardinality(Receipts(h)) - MAX_RECEIPTS
        loose == Receipts(h) \ Checkpoints(h)
        Before(r, s) == \/ h.receipts[r].state = "expired" /\ h.receipts[s].state # "expired"
                        \/ /\ h.receipts[r].state = "expired" <=> h.receipts[s].state = "expired"
                           /\ h.receipts[r].seq < h.receipts[s].seq
        gone == {r \in loose : Cardinality({s \in loose : Before(s, r)}) < over}
    IN IF over <= 0 \/ gone = {} THEN h
       ELSE [h EXCEPT !.receipts = [r \in Responses |-> IF r \in gone THEN NoReceipt ELSE @[r]], !.uncertain = TRUE]

MutateIfChanged(h, work) ==
    IF work = h THEN h ELSE EvictReceiptOverflow(EvictCheckpointOverflow(work))

ExpiredAway(h) == ExpireLegacy(ExpireReceipts(h))

-----------------------------------------------------------------------------
(* Receipts, checkpoints, carriers.  A record whose ok is FALSE was thrown    *)
(* out of its transaction: nothing of it stays.                               *)

Done(h) == [ok |-> TRUE, h |-> h]
Failed == [ok |-> FALSE, h |-> historyDb]
Rank(state) == CASE state = "complete" -> 2 [] state = "partial" -> 1 [] OTHER -> 0

UpsertReceipt(h, r, state) ==
    LET row == h.receipts[r]
    IN IF Owner[r] \notin active \/ row.state = "expired" THEN Failed
       ELSE Done(IF row.state = "none"
                 THEN [h EXCEPT !.receipts = Inserted(@, r, [state |-> state, born |-> now, seq |-> 0])]
                 ELSE IF Rank(state) <= Rank(row.state) THEN h ELSE [h EXCEPT !.receipts[r].state = state])

UpsertCheckpoint(h, r, size) ==
    CASE size = 0 -> h
      [] size > 0 /\ h.checkpoints[r].size = 0 ->
           [h EXCEPT !.checkpoints = Inserted(@, r, [size |-> size, seq |-> 0])]
      [] OTHER -> [h EXCEPT !.checkpoints[r].size = size]

ExpireCarriers(h) ==
    [h EXCEPT !.carriers = WithoutCarriers(@, {q \in DOMAIN @ : @[q].state # "none" /\ Overdue(@[q].born)})]

\* promote(): a carrier that was expired or evicted cannot be promoted.
Promote(h, q) ==
    LET rows == ExpireCarriers(h)
    IN IF rows.carriers[q].state = "none" THEN Failed ELSE Done([rows EXCEPT !.carriers[q].state = "complete"])

Finalized(h, r, state, finalize) ==
    IF state = "complete" /\ finalize THEN Promote(h, r) ELSE Done(h)

CreateCarrier(h, q) ==
    LET rows == ExpireCarriers(h)
        held == {p \in DOMAIN rows.carriers : rows.carriers[p].state # "none"}
        over == Cardinality(held) + 1 - MAX_CARRIERS
        gone == {p \in held : Cardinality({s \in held : rows.carriers[s].seq < rows.carriers[p].seq}) < over}
        kept == WithoutCarriers(rows.carriers, gone)
    IN [rows EXCEPT !.carriers = Inserted(kept, q, [state |-> "partial", born |-> now, seq |-> 0])]

DiscardCarrier(h, q) ==
    IF q \in DOMAIN h.carriers /\ h.carriers[q].state = "partial" THEN [h EXCEPT !.carriers[q] = NoCarrier] ELSE h

-----------------------------------------------------------------------------
(* recordReceipt() and recordCheckpoint() *)

Recent(r) == {i \in DOMAIN recency : recency[i].response = r}

\* rememberReceiptCleanup(): nothing expires before the earliest receipt does.
RememberReceiptCleanup(h, r) ==
    LET ends == {h.receipts[s].born + ttl : s \in {t \in Receipts(h) : h.receipts[t].state # "expired"}}
                \cup {ttl : l \in h.legacy}
        entry == [response |-> r, until |-> IF ends = {} THEN MAX_TIME + 1 ELSE Min(ends)]
        all == IF Recent(r) = {} THEN Append(recency, entry) ELSE [recency EXCEPT ![CHOOSE i \in Recent(r) : TRUE] = entry]
    IN IF Len(all) > MAX_RECEIPTS THEN Tail(all) ELSE all

RecordReceipt(r, state) ==
    LET work == UpsertReceipt(ExpiredAway(historyDb), r, state)
    IN IF work.ok THEN Done(MutateIfChanged(historyDb, work.h)) ELSE Failed

\* The three ways of recordCheckpoint(): the receipt already says as much; it is
\* live, and expiry may be skipped when nothing can have expired since its
\* receipt was recorded; or the row is missing or has run out.
RecordCheckpoint(r, state, size, finalize) ==
    LET row == historyDb.receipts[r]
        live == row.state \notin {"none", "expired"} /\ ~Overdue(row.born)
        matches == size = 0 \/ historyDb.checkpoints[r].size = size
        skip == \E i \in Recent(r) : now < recency[i].until
        base == IF skip THEN historyDb ELSE ExpiredAway(historyDb)
        raised == IF Rank(state) > Rank(base.receipts[r].state) THEN [base EXCEPT !.receipts[r].state = state] ELSE base
        written == UpsertCheckpoint(raised, r, size)
        evicted == IF written = historyDb THEN historyDb ELSE EvictCheckpointOverflow(written)
        receipt == UpsertReceipt(ExpiredAway(historyDb), r, state)
        final == Finalized(UpsertCheckpoint(receipt.h, r, size), r, state, finalize)
    IN CASE Owner[r] \notin active -> Failed
         [] Owner[r] \in active /\ live /\ Rank(state) <= Rank(row.state) /\ matches -> Finalized(historyDb, r, state, finalize)
         [] Owner[r] \in active /\ live /\ ~(Rank(state) <= Rank(row.state) /\ matches) ->
              IF skip /\ state = "complete" /\ row.state = "partial" /\ matches
              THEN Finalized([historyDb EXCEPT !.receipts[r].state = "complete"], r, state, finalize)
              ELSE Finalized(IF base = historyDb THEN evicted ELSE EvictReceiptOverflow(evicted), r, state, finalize)
         [] Owner[r] \in active /\ ~live ->
              IF receipt.ok /\ final.ok THEN Done(MutateIfChanged(historyDb, final.h)) ELSE Failed

\* An entry is used up by a complete record, or once it no longer holds.
RecentAfter(r, state) ==
    LET row == historyDb.receipts[r]
        live == Owner[r] \in active /\ row.state \notin {"none", "expired"} /\ ~Overdue(row.born)
    IN IF live /\ (state = "complete" \/ ~\E i \in Recent(r) : now < recency[i].until)
       THEN SelectSeq(recency, LAMBDA e : e.response # r) ELSE recency

-----------------------------------------------------------------------------
(* Requests *)

Environment == UNCHANGED <<active, ttl, now>>
Moves(q, from, to) == request[q].step = from /\ request' = [request EXCEPT ![q].step = to]

\* A request that fails gives its partial carrier up.
Fails(q) == request' = [request EXCEPT ![q] = [step |-> "failed", size |-> 0]] /\ historyDb' = DiscardCarrier(historyDb, q)

NativeEvent(q, state) ==
    LET result == RecordReceipt(q, state)
    IN /\ q \in Native /\ request[q].step \in {"idle", "open"}
       /\ IF result.ok
          THEN /\ request' = [request EXCEPT ![q].step = IF state = "complete" THEN "done" ELSE "open"]
               /\ historyDb' = result.h /\ recency' = RememberReceiptCleanup(result.h, q) /\ responsesRecorded' = responsesRecorded \cup {q}
          ELSE Fails(q) /\ UNCHANGED <<recency, responsesRecorded>>
       /\ Environment

StartConverted(q) ==
    LET result == RecordReceipt(q, "route_only")
    IN /\ q \in Converted /\ Moves(q, "idle", IF result.ok THEN "open" ELSE "failed")
       /\ historyDb' = IF result.ok THEN result.h ELSE DiscardCarrier(historyDb, q)
       /\ recency' = IF result.ok THEN RememberReceiptCleanup(result.h, q) ELSE recency
       /\ responsesRecorded' = IF result.ok THEN responsesRecorded \cup {q} ELSE responsesRecorded
       /\ Environment

CreateStreamCarrier(q) ==
    /\ q \in Converted \cup Plain /\ request[q].step \in {"idle", "open"} /\ request[q].size < 10
    /\ request' = [request EXCEPT ![q].size = 10] /\ historyDb' = CreateCarrier(historyDb, q)
    /\ UNCHANGED <<recency, responsesRecorded>> /\ Environment

\* The converter's checkpoints; the complete one is stored as partial until the
\* client has everything.
PersistPartial(q, size, last) ==
    LET result == RecordCheckpoint(q, "partial", size, FALSE)
    IN /\ q \in Converted /\ request[q].step = "open"
       /\ IF result.ok
          THEN /\ historyDb' = result.h
               /\ request' = IF last THEN [request EXCEPT ![q] = [step |-> "finalizing", size |-> @.size + size]] ELSE request
               /\ responsesRecorded' = responsesRecorded \cup {q}
          ELSE Fails(q) /\ UNCHANGED responsesRecorded
       /\ recency' = RecentAfter(q, "partial") /\ Environment

\* finalizeSuccess(): the complete record promotes the carrier when the output
\* has calls; a carrier that is still partial then is discarded.
FinalizeSuccess(q) ==
    LET size == request[q].size % 10
        result == RecordCheckpoint(q, "complete", size, request[q].size >= 10 /\ size > 0)
    IN /\ q \in Converted /\ request[q].step = "finalizing"
       /\ IF result.ok
          THEN /\ request' = [request EXCEPT ![q] = [step |-> "done", size |-> 0]]
               /\ historyDb' = DiscardCarrier(result.h, q) /\ responsesRecorded' = responsesRecorded \cup {q}
          ELSE Fails(q) /\ UNCHANGED responsesRecorded
       /\ recency' = RecentAfter(q, "complete") /\ Environment

FinishPlain(q) ==
    LET result == Promote(historyDb, q)
    IN /\ q \in Plain /\ request[q].step = "idle" /\ request[q].size = 10
       /\ IF result.ok THEN historyDb' = result.h /\ request' = [request EXCEPT ![q] = [step |-> "done", size |-> 0]] ELSE Fails(q)
       /\ UNCHANGED <<recency, responsesRecorded>> /\ Environment

AbortRequest(q) ==
    /\ request[q].step \in {"open", "finalizing"} \/ request[q].size = 10
    /\ Fails(q) /\ UNCHANGED <<recency, responsesRecorded>> /\ Environment

-----------------------------------------------------------------------------
(* resolve() and enrich(), administration, time, restart *)

Resolve ==
    /\ historyDb' = MutateIfChanged(historyDb, ExpiredAway(historyDb)) /\ historyDb' # historyDb
    /\ UNCHANGED <<recency, request, responsesRecorded>> /\ Environment

ClaimCarrier ==
    /\ historyDb' = ExpireCarriers(historyDb) /\ historyDb' # historyDb /\ UNCHANGED <<recency, request, responsesRecorded>> /\ Environment

SetTtlDays(days) ==
    /\ days # ttl /\ ttl' = days /\ recency' = <<>>
    /\ historyDb' = [historyDb EXCEPT !.carriers = WithoutCarriers(@, {q \in DOMAIN @ : @[q].state # "none" /\ @[q].born + days <= now})]
    /\ UNCHANGED <<request, active, now, responsesRecorded>>

\* clear() with the current revision; with another it changes nothing.
ClearHistory ==
    /\ recency' = <<>> /\ responsesRecorded' = {}
    /\ historyDb' = [receipts |-> [r \in Responses |-> NoReceipt], checkpoints |-> [r \in Responses |-> NoCheckpoint],
              carriers |-> [q \in DOMAIN historyDb.carriers |-> NoCarrier], legacy |-> {}, uncertain |-> FALSE]
    /\ UNCHANGED request /\ Environment

RemoveAccount(a) ==
    /\ a \in active /\ active' = active \ {a} /\ UNCHANGED <<historyDb, recency, request, ttl, now, responsesRecorded>>

ClearAccount(a) ==
    LET h == ExpiredAway(historyDb)
        gone == {r \in Receipts(h) : Owner[r] = a}
        work == [h EXCEPT !.receipts = [r \in Responses |-> IF r \in gone THEN NoReceipt ELSE @[r]],
                          !.checkpoints = [r \in Responses |-> IF r \in gone THEN NoCheckpoint ELSE @[r]],
                          !.carriers = WithoutCarriers(@, {q \in DOMAIN @ : Owner[q] = a}),
                          !.uncertain = @ \/ gone # {}]
    IN /\ a \notin active /\ historyDb' = MutateIfChanged(historyDb, work) /\ historyDb' # historyDb
       /\ recency' = SelectSeq(recency, LAMBDA e : Owner[e.response] # a)
       /\ UNCHANGED <<request, responsesRecorded>> /\ Environment

Restart ==
    /\ recency' = <<>> /\ historyDb' = ExpireCarriers(MutateIfChanged(historyDb, ExpiredAway(historyDb)))
    /\ request' = [q \in DOMAIN request |-> IF request[q].step = "done" THEN request[q] ELSE [step |-> "failed", size |-> 0]]
    /\ UNCHANGED responsesRecorded /\ Environment

Tick ==
    /\ now < MAX_TIME /\ now' = now + 1 /\ UNCHANGED <<historyDb, recency, request, active, ttl, responsesRecorded>>

HistoryNext ==
    \/ \E q \in Responses \cup Plain :
          \/ (\E state \in {"route_only", "complete"} : NativeEvent(q, state)) \/ StartConverted(q) \/ CreateStreamCarrier(q)
          \/ (\E size \in 0 .. 2, last \in BOOLEAN : PersistPartial(q, size, last))
          \/ FinalizeSuccess(q) \/ FinishPlain(q) \/ AbortRequest(q)
    \/ \E a \in OwningAccounts : RemoveAccount(a) \/ ClearAccount(a)
    \/ \E days \in TTLS : SetTtlDays(days)
    \/ Resolve \/ ClaimCarrier \/ ClearHistory \/ Restart \/ Tick

HistorySpec == HistoryInit /\ [][HistoryNext]_historyVars

-----------------------------------------------------------------------------
\* A response that was recorded is never taken for one that never existed:
\* its receipt is there, or the history says that it is uncertain
\* (history.ts:343, :855, :951), whatever expires, overflows or is removed.
NothingIsForgotten ==
    \A r \in responsesRecorded : historyDb.receipts[r].state # "none" \/ historyDb.uncertain

\* A carrier that a client can still present is backed by the checkpoint its
\* response replays: promotion, eviction, expiry and removal go together
\* (history.ts:666, :904; endpoint.ts:474), and the stores keep their limits.
CarriersFollowCheckpoints ==
    /\ \A r \in Converted : historyDb.carriers[r].state = "complete" =>
          historyDb.checkpoints[r].size > 0 /\ historyDb.receipts[r].state = "complete"
    /\ \A r \in Checkpoints(historyDb) : historyDb.receipts[r].state \in {"partial", "complete"}
    /\ StoredReplay(historyDb) <= MAX_STORED_REPLAY /\ Cardinality(Checkpoints(historyDb)) <= MAX_RESPONSES
    /\ Cardinality(Receipts(historyDb)) <= MAX_RECEIPTS

\* Receipts, checkpoints and carriers stay in step through expiry, overflow,
\* removal and restart (history.ts:343, :666, :904, :951).
HistoryIsConsistent == NothingIsForgotten /\ CarriersFollowCheckpoints

=============================================================================
