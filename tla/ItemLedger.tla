------------------------------ MODULE ItemLedger ------------------------------
(***************************************************************************)
(* protocols/conversion/ledger.ts: what a converted response has said so   *)
(* far.  Every operator takes and returns the converter's state c: the     *)
(* context, the ledger, the emitter, what goes out, whether output has     *)
(* begun and whether an operation has thrown.                              *)
(***************************************************************************)
EXTENDS ChatDecoder, MessagesDecoder, ResponsesDecoder

Fail(c) == [c EXCEPT !.bad = TRUE]
\* f, unless something before it has thrown.
Unless(c, f(_)) == IF c.bad THEN c ELSE f(c)
Each(c, seq, f(_, _)) == FoldLeft(LAMBDA e, x : IF e.bad THEN e ELSE f(e, x), c, seq)

LedgerStart == [order |-> <<>>, parts |-> <<>>, frozen |-> {}, reasoning |-> <<>>, tools |-> <<>>]

WithEntry(l, kind, k) ==
  IF \E n \in DOMAIN l.order : l.order[n] = <<kind, k>> THEN l
  ELSE [l EXCEPT !.order = Append(@, <<kind, k>>)]

\* startMessage()
StartMessage(c, k) == [c EXCEPT !.led = WithEntry(@, "message", k)]

\* observeText(), observeRefusal(); medium is the kind of content.
Observable(c, k, o) ==
  IF k \in DOMAIN c.led.parts THEN c.led.parts[k].group = o ELSE o \notin c.led.frozen
FirstSight(c, k, medium) == k \notin DOMAIN c.led.parts \/ medium \notin c.led.parts[k].seen

ObservePart(c, k, o, medium) ==
  LET part == Get(c.led.parts, k, [group |-> o, text |-> <<>>, refusal |-> <<>>, seen |-> {}, frozen |-> FALSE])
  IN IF ~Observable(c, k, o) THEN Fail(c)
     ELSE [c EXCEPT !.led = [WithEntry(@, "message", o) EXCEPT
             !.parts = Put(@, k, [part EXCEPT !.seen = @ \cup {medium}])]]

\* textValue(), refusalValue()
Said(c, k, medium) == IF k \in DOMAIN c.led.parts THEN c.led.parts[k][medium] ELSE <<>>

\* appendText(), appendRefusal()
AppendPart(c, k, o, medium, toks) ==
  Unless(ObservePart(c, k, o, medium), LAMBDA e :
    IF e.led.parts[k].frozen THEN Fail(c)
    ELSE [e EXCEPT !.led.parts[k][medium] = @ \o toks])

FinishContent(c, k) ==
  IF k \notin DOMAIN c.led.parts THEN Fail(c) ELSE [c EXCEPT !.led.parts[k].frozen = TRUE]

FinishMessage(c, k) ==
  [c EXCEPT !.led = [WithEntry(@, "message", k) EXCEPT
     !.frozen = @ \cup {k},
     !.parts = [p \in DOMAIN @ |-> IF @[p].group = k THEN [@[p] EXCEPT !.frozen = TRUE] ELSE @[p]]]]

-------------------------------------------------------------------------------
NewReasoning == [text |-> <<>>, frozen |-> FALSE, status |-> "", thinking |-> FALSE, opaque |-> ""]

\* Defect: only a reasoning_opaque may still change a frozen item.
Replaces_Grows(r, opaque) == r.frozen /\ r.opaque = "chat" /\ opaque = "chat opaque"

\* A frozen item may still get the Responses state that rotates, or the Chat state
\* that grows by a late reasoning_opaque.
Replaces(r, opaque) ==
  r.frozen /\ (opaque \in {"responses", "responses rotated"} \/ (r.opaque = "chat" /\ opaque = "chat opaque"))

\* startReasoning()
StartReasoning(c, k, carried) ==
  LET r == Get(c.led.reasoning, k, NewReasoning)
      opaque == IF carried \in OpaqueStates THEN carried ELSE ""
  IN IF opaque # "" /\ r.opaque \notin {"", opaque} /\ ~Replaces(r, opaque) THEN Fail(c)
     ELSE [c EXCEPT !.led = [WithEntry(@, "reasoning", k) EXCEPT
             !.reasoning = Put(@, k, [r EXCEPT !.thinking = @ \/ carried = "thinking",
                                               !.opaque = IF opaque = "" THEN @ ELSE opaque])]]

\* reasoningValue()
Thought(c, k) == IF k \in DOMAIN c.led.reasoning THEN c.led.reasoning[k].text ELSE <<>>

\* appendReasoning()
AppendReasoning(c, k, toks) ==
  Unless(StartReasoning(c, k, ""), LAMBDA e :
    IF e.led.reasoning[k].frozen THEN Fail(c)
    ELSE [e EXCEPT !.led.reasoning[k].text = @ \o toks])

FinishReasoning(c, k, status) ==
  IF k \notin DOMAIN c.led.reasoning THEN Fail(c)
  ELSE LET r == c.led.reasoning[k]
       IN IF r.frozen THEN (IF r.status = status THEN c ELSE Fail(c))
          ELSE [c EXCEPT !.led.reasoning[k] = [r EXCEPT !.frozen = TRUE, !.status = status]]

KeysOf(c, kind) ==
  LET entries == SelectSeq(c.led.order, LAMBDA e : e[1] = kind) IN [n \in DOMAIN entries |-> entries[n][2]]
\* finishOpenReasoning(): which it finishes
OpenReasoning(c) == SelectSeq(KeysOf(c, "reasoning"), LAMBDA k : ~c.led.reasoning[k].frozen)

-------------------------------------------------------------------------------
\* The arguments of a finished call are a JSON object: never an empty text.
ValidArguments(toks) == toks # <<>>

StartTool(c, k) ==
  IF k \in DOMAIN c.led.tools THEN Fail(c)
  ELSE [c EXCEPT !.led = [WithEntry(@, "tool", k) EXCEPT !.tools = Put(@, k, [args |-> <<>>, done |-> FALSE])]]

AppendToolArguments(c, k, toks) ==
  IF k \notin DOMAIN c.led.tools \/ (k \in DOMAIN c.led.tools /\ c.led.tools[k].done) THEN Fail(c)
  ELSE [c EXCEPT !.led.tools[k].args = @ \o toks]

\* finishTool(); snapshot is the arguments themselves when the event has none.
FinishTool(c, k, snapshot, completed) ==
  LET tool == c.led.tools[k]
  IN IF \/ k \notin DOMAIN c.led.tools
        \/ IF tool.done THEN snapshot # tool.args ELSE ~IsPrefix(tool.args, snapshot)
        \/ completed /\ ~ValidArguments(snapshot)
     THEN Fail(c)
     ELSE [c EXCEPT !.led.tools[k] = [args |-> snapshot, done |-> TRUE]]

FinishOpenTools(c, validate) ==
  IF validate /\ \E k \in DOMAIN c.led.tools : ~ValidArguments(c.led.tools[k].args) THEN Fail(c)
  ELSE [c EXCEPT !.led.tools = [k \in DOMAIN @ |-> [@[k] EXCEPT !.done = TRUE]]]

\* items(): Responses items in the order of their indexes, others as they came.
SortedEntries(c) ==
  IF c.ctx.source = "responses" THEN SortSeq(c.led.order, LAMBDA a, b : a[2][2] < b[2][2]) ELSE c.led.order
SortedParts(c, k) ==
  SetToSortSeq({p \in DOMAIN c.led.parts : c.led.parts[p].group = k},
               LAMBDA a, b : c.ctx.source = "responses" /\ a[3] < b[3])

Contents(c, k) ==
  LET parts == SortedParts(c, k)
      One(n, medium) == IF medium \in c.led.parts[parts[n]].seen
                        THEN <<[key |-> parts[n], medium |-> medium, text |-> c.led.parts[parts[n]][medium]]>> ELSE <<>>
  IN Concat(Len(parts), LAMBDA n : One(n, "text") \o One(n, "refusal"))

Items(c) ==
  LET item(e) == [kind |-> e[1], key |-> e[2], content |-> IF e[1] = "message" THEN Contents(c, e[2]) ELSE <<>>]
      all == [n \in DOMAIN c.led.order |-> item(SortedEntries(c)[n])]
  IN SelectSeq(all, LAMBDA x : x.kind # "message" \/ x.content # <<>> \/ x.key \in c.led.frozen)

\* A call that is not finished has no place in a completed response.
ItemsAllowed(c, status) == status = "completed" => \A k \in DOMAIN c.led.tools : c.led.tools[k].done

===============================================================================
