------------------------------ MODULE ChatEmitter ------------------------------
(***************************************************************************)
(* protocols/conversion/stream.ts: ResponseEmissionFrontier and            *)
(* ChatEmitter.  Items of a Responses stream may interleave; Chat and      *)
(* Messages have one place to write at, so the frontier holds back what is *)
(* not at the first unfinished item and part.                              *)
(***************************************************************************)
EXTENDS ItemLedger

\* One event to the client: type, index, content index, text, and a detail.
Wire(t, i, c, x, f) == [t |-> t, i |-> i, c |-> c, x |-> x, f |-> f]
Emit(c, w) == [c EXCEPT !.out = Append(@, w)]
Without(f, k) == [x \in DOMAIN f \ {k} |-> f[x]]
FromResponses(c) == c.ctx.source = "responses"

\* item and content: the place; ended, parts: what has been marked done.
FrontierStart == [item |-> 0, content |-> <<>>, ended |-> {}, parts |-> {}]
ContentAt(fr) == Get(fr.content, fr.item, 0)

\* Defect: the parts of an item may come in any order.
AllowsContent_Item(fr, k, o) == o[2] = fr.item

AllowsContent(fr, k, o) == o[2] = fr.item /\ k[3] = ContentAt(fr)

AllowsItem(fr, k) == k[2] = fr.item
MarkContentDone(fr, k) == [fr EXCEPT !.parts = @ \cup {<<k[2], k[3]>>}]
MarkItemDone(fr, i) == [fr EXCEPT !.ended = @ \cup {i}]
ContentDoneAtFrontier(fr) == <<fr.item, ContentAt(fr)>> \in fr.parts
ItemDoneAtFrontier(fr) == fr.item \in fr.ended
AdvanceContent(fr) ==
  [fr EXCEPT !.parts = @ \ {<<fr.item, ContentAt(fr)>>}, !.content = Put(@, fr.item, ContentAt(fr) + 1)]
AdvanceItem(fr) == [fr EXCEPT !.ended = @ \ {fr.item}, !.item = @ + 1]

\* queueContent(), recordStreamed()
QueueContent(c, k, medium, toks) ==
  [c EXCEPT !.em.held = Put(@, k, [medium |-> medium, text |-> Get(@, k, [text |-> <<>>]).text \o toks])]
NothingStreamed == [text |-> <<>>, refusal |-> <<>>]
RecordStreamed(c, k, medium, toks) ==
  [c EXCEPT !.em.streamed = Put(@, k, [Get(@, k, NothingStreamed) EXCEPT ![medium] = @ \o toks])]
Streamed(c, k, medium) == Get(c.em.streamed, k, NothingStreamed)[medium]
HeldHere(c) ==
  LET here == {PartKey(c.em.front.item, ContentAt(c.em.front), m) : m \in {"text", "refusal"}}
  IN here \cap DOMAIN c.em.held

-------------------------------------------------------------------------------
\* tools: the keys in the order of their indexes; held...: what waits for its place.
ChatEmitterStart ==
  [role |-> FALSE, tools |-> <<>>, args |-> <<>>, heldTools |-> <<>>, streamed |-> <<>>, thoughts |-> <<>>,
   heldReasoning |-> {}, held |-> <<>>, front |-> FrontierStart, carried |-> {}]

\* The first chunk names the role.
Chunk(c, w) ==
  LET e == IF c.em.role THEN c ELSE Emit(c, Wire("role", 0, 0, <<>>, ""))
  IN [Emit(e, w) EXCEPT !.em.role = TRUE]

ToolIndex(c, k) == CHOOSE n \in DOMAIN c.em.tools : c.em.tools[n] = k
HasIndex(c, k) == k \in {c.em.tools[n] : n \in DOMAIN c.em.tools}

\* start()
ChatBegin(c) == IF FromResponses(c) THEN [Emit(c, Wire("role", 0, 0, <<>>, "")) EXCEPT !.em.role = TRUE] ELSE c

\* textDelta(), refusalDelta()
ChatSay(c, k, o, medium, toks) ==
  IF FromResponses(c) /\ ~AllowsContent(c.em.front, k, o) THEN QueueContent(c, k, medium, toks)
  ELSE LET e == Chunk(c, Wire(medium, 0, 0, toks, "")) IN IF FromResponses(c) THEN RecordStreamed(e, k, medium, toks) ELSE e

\* emitReasoningDelta()
ChatThink(c, k, toks) ==
  [Chunk(c, Wire("reasoning", 0, 0, toks, "")) EXCEPT !.em.thoughts = Put(@, k, Get(@, k, <<>>) \o toks)]
\* reasoningDelta(), reasoningDone()
ChatReasoningSaid(c, k, toks) == IF FromResponses(c) THEN c ELSE ChatThink(c, k, toks)
ChatReasoningDone(c, k) ==
  IF ~FromResponses(c) THEN c
  ELSE IF k \in c.em.heldReasoning THEN Fail(c) ELSE [c EXCEPT !.em.heldReasoning = @ \cup {k}]

\* emitReasoningItem(): the rest of its text, and its state behind a carrier.
ChatReasoningItem(c, k, allowCarrier) ==
  LET r == c.led.reasoning[k]
      rest == SubSeq(r.text, Len(Get(c.em.thoughts, k, <<>>)) + 1, Len(r.text))
      e == IF rest = <<>> THEN c ELSE ChatThink(c, k, rest)
      carries == allowCarrier /\ c.ctx.carrier /\ k \notin c.em.carried /\ r.opaque \in {"responses", "responses rotated"}
  IN IF ~IsPrefix(Get(c.em.thoughts, k, <<>>), r.text) THEN Fail(c)
     ELSE IF carries THEN [Emit(e, Wire("reasoning_items", 0, 0, <<>>, "")) EXCEPT !.em.carried = @ \cup {k}] ELSE e

\* emitToolStart(), toolStart(), toolArgumentsDelta()
ChatToolBegin(c, k) ==
  [Chunk(c, Wire("tool", Len(c.em.tools), 0, <<>>, "")) EXCEPT !.em.tools = Append(@, k), !.em.args = Put(@, k, <<>>)]
ChatToolStart(c, k) ==
  IF FromResponses(c) /\ ~AllowsItem(c.em.front, k) THEN [c EXCEPT !.em.heldTools = Put(@, k, <<>>)]
  ELSE ChatToolBegin(c, k)
ChatToolArguments(c, k, toks) ==
  CASE k \in DOMAIN c.em.heldTools -> [c EXCEPT !.em.heldTools[k] = @ \o toks]
    [] k \notin DOMAIN c.em.heldTools /\ ~HasIndex(c, k) -> IF FromResponses(c) THEN c ELSE Fail(c)
    [] OTHER -> [Emit(c, Wire("args", ToolIndex(c, k) - 1, 0, toks, "")) EXCEPT !.em.args = Put(@, k, @[k] \o toks)]

\* drainReadyContent(): everything at the frontier goes out, then it moves on.
\* A reasoning item whose state needs a carrier stops it for good.
ChatReleaseReasoning(c, k) ==
  IF k \in c.em.heldReasoning THEN ChatReasoningItem([c EXCEPT !.em.heldReasoning = @ \ {k}], k, FALSE) ELSE c
ChatReleaseArguments(c, k, toks) == IF toks = <<>> THEN c ELSE ChatToolArguments(c, k, toks)
ChatReleaseTool(c, k) ==
  IF k \notin DOMAIN c.em.heldTools THEN c
  ELSE ChatReleaseArguments(ChatToolBegin([c EXCEPT !.em.heldTools = Without(@, k)], k), k, c.em.heldTools[k])

HeldKey(c) == CHOOSE x \in HeldHere(c) : x[4] = "text" \/ HeldHere(c) = {x}
NotHeld(c, k) == [c EXCEPT !.em.held = Without(@, k)]
ChatReleaseHeld(c, k) ==
  RecordStreamed(NotHeld(Emit(c, Wire(c.em.held[k].medium, 0, 0, c.em.held[k].text, "")), k),
                 k, c.em.held[k].medium, c.em.held[k].text)
ChatReleaseContent(c) == IF HeldHere(c) = {} THEN c ELSE ChatReleaseHeld(c, HeldKey(c))

RequiresCarrier(c, k) == c.ctx.carrier /\ c.led.reasoning[k].opaque \in {"responses", "responses rotated"}
WaitsForCarrier(c, k) == k \in c.em.heldReasoning /\ RequiresCarrier(c, k) /\ ItemDoneAtFrontier(c.em.front)

RECURSIVE ChatDrain(_), ChatMoveOn(_)
ChatMoveOn(c) ==
  IF c.bad THEN c
  ELSE IF ContentDoneAtFrontier(c.em.front) THEN ChatDrain([c EXCEPT !.em.front = AdvanceContent(@)])
  ELSE IF ItemDoneAtFrontier(c.em.front) THEN ChatDrain([c EXCEPT !.em.front = AdvanceItem(@)])
  ELSE c
ChatDrain(c) ==
  LET i == c.em.front.item
  IN IF WaitsForCarrier(c, ReasoningKey(i)) THEN c
     ELSE ChatMoveOn(Unless(Unless(ChatReleaseReasoning(c, ReasoningKey(i)),
                                   LAMBDA e : ChatReleaseTool(e, ToolKey(i))), ChatReleaseContent))

\* contentDone(), itemDone()
ChatContentDone(c, k) == IF FromResponses(c) THEN ChatDrain([c EXCEPT !.em.front = MarkContentDone(@, k)]) ELSE c
ChatItemDone(c, i) == ChatDrain([c EXCEPT !.em.front = MarkItemDone(@, i)])

\* emitBufferedResponseItems(): what the frontier still held, and the carriers.
Remaining(whole, part) == SubSeq(whole, Len(part) + 1, Len(whole))
ChatBufferedPart(c, p) ==
  LET before == Streamed(c, p.key, p.medium)
  IN IF ~IsPrefix(before, p.text) THEN Fail(c)
     ELSE IF before = p.text THEN c ELSE Emit(c, Wire(p.medium, 0, 0, Remaining(p.text, before), ""))
ChatBufferedTool(c, k) ==
  LET args == c.led.tools[k].args
  IN IF HasIndex(c, k)
     THEN IF ~IsPrefix(c.em.args[k], args) THEN Fail(c)
          ELSE IF args = c.em.args[k] THEN c
          ELSE Emit(c, Wire("args", ToolIndex(c, k) - 1, 0, Remaining(args, c.em.args[k]), ""))
     ELSE [Emit(c, Wire("tool", Len(c.em.tools), 0, args, "")) EXCEPT !.em.tools = Append(@, k), !.em.args = Put(@, k, args)]

ChatBufferedItems(c, items, allowCarriers) ==
  Each(c, items, LAMBDA e, item :
    CASE item.kind = "reasoning" -> ChatReasoningItem(e, item.key, allowCarriers)
      [] item.kind = "message" -> Each(e, item.content, ChatBufferedPart)
      [] OTHER -> ChatBufferedTool(e, item.key))

HasTool(items) == \E n \in DOMAIN items : items[n].kind = "tool"

\* finish()
ChatFinishStream(c, status, finish, items) ==
  Unless(IF FromResponses(c) THEN ChatBufferedItems(c, items, status = "completed" /\ HasTool(items)) ELSE c, LAMBDA e :
    LET named == IF e.em.role THEN e ELSE Chunk(e, Wire("text", 0, 0, <<>>, ""))
        reason == IF finish = "refusal" THEN "content_filter" ELSE finish
    IN Emit(Emit(Emit(named, Wire("finish", 0, 0, <<>>, reason)), Wire("usage", 0, 0, <<>>, "")), Wire("done", 0, 0, <<>>, "")))

===============================================================================
