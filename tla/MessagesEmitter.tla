---------------------------- MODULE MessagesEmitter ----------------------------
(***************************************************************************)
(* MessagesEmitter of protocols/conversion/stream.ts: one content block    *)
(* open at a time, indexes without gaps.                                   *)
(***************************************************************************)
EXTENDS ChatEmitter

\* active: the text block that is open; after: a tool has begun, later text waits
\* for the end (unless the source is Responses); tools: in order of arrival.
MessagesEmitterStart ==
  [next |-> 0, active |-> [key |-> NoKey, index |-> 0], after |-> FALSE, first |-> NoKey, front |-> FrontierStart,
   held |-> <<>>, streamed |-> <<>>, heldReasoning |-> {}, shown |-> {}, tools |-> <<>>, order |-> <<>>]

NewTool == [args |-> <<>>, done |-> FALSE, index |-> -1, closed |-> FALSE, ended |-> FALSE]

StopBlock(c, index) == Emit(c, Wire("stop", index, 0, <<>>, ""))
Inside(c, index, what, toks) == Emit(c, Wire("delta", index, 0, toks, what))
OpenBlock(c, type, detail) == [Emit(c, Wire("start", c.em.next, 0, detail, type)) EXCEPT !.em.next = @ + 1]

CloseActiveText(c) ==
  IF c.em.active.key = NoKey THEN c
  ELSE [StopBlock(c, c.em.active.index) EXCEPT !.em.active = [key |-> NoKey, index |-> 0]]

\* start()
MessagesBegin(c) == Emit(c, Wire("message_start", 0, 0, <<>>, ""))

\* messageStart(), reserveMessage()
MessagesReserve(c, o) == [c EXCEPT !.em.first = IF @ = NoKey THEN o ELSE @]

\* emitLiveText()
LiveText(c, k, toks) ==
  LET e == IF c.em.active.key = k THEN c
           ELSE [OpenBlock(CloseActiveText(c), "text", <<>>) EXCEPT !.em.active = [key |-> k, index |-> c.em.next]]
  IN Inside(e, e.em.active.index, "text", toks)
\* A refusal is text in a block of its own.
BlockOf(k, medium) == <<medium, k>>

\* textDelta(), refusalDelta()
MessagesSay(c0, k, o, medium, toks) ==
  LET c == MessagesReserve(c0, o)
      now == IF FromResponses(c) THEN AllowsContent(c.em.front, k, o) ELSE ~c.em.after /\ o = c.em.first
  IN IF now THEN RecordStreamed(LiveText(c, BlockOf(k, medium), toks), k, medium, toks)
     ELSE IF FromResponses(c) THEN QueueContent(c, k, medium, toks) ELSE c

\* emitReasoning(): a signed block as it was, or a Responses item behind a carrier.
ShowReasoning(c, k, allowCarrier) ==
  LET r == c.led.reasoning[k]
      carries == allowCarrier /\ c.ctx.carrier /\ r.opaque \in {"responses", "responses rotated"}
      o == OpenBlock(CloseActiveText(c), IF carries THEN "carrier" ELSE "thinking", <<>>)
  IN IF k \in c.em.shown \/ (~r.thinking /\ ~carries) THEN c
     ELSE [StopBlock(o, c.em.next) EXCEPT !.em.shown = @ \cup {k}]

\* reasoningDone()
MessagesReasoningDone(c, k) ==
  IF FromResponses(c) THEN [c EXCEPT !.em.heldReasoning = @ \cup {k}]
  ELSE IF c.led.reasoning[k].thinking THEN ShowReasoning(c, k, TRUE) ELSE c

\* emitTool(): its block, closed when it is known to be done.
ShowTool(c, k, close) ==
  LET t == c.em.tools[k]
      ends == (t.done \/ t.ended \/ close) /\ ~t.closed
      Filled(o) == IF t.args = <<>> THEN o ELSE Inside(o, c.em.next, "args", t.args)
      Stopped(o) == IF ends THEN StopBlock(o, c.em.next) ELSE o
  IN IF t.index >= 0 THEN c
     ELSE [Stopped(Filled(OpenBlock(CloseActiveText(c), "tool", <<>>))) EXCEPT
             !.em.tools[k].index = c.em.next, !.em.tools[k].closed = @ \/ ends]

\* Defect: a block that is closed already is closed again.
CloseTool_Again(c, k) ==
  IF c.em.tools[k].index < 0 THEN c ELSE [StopBlock(c, c.em.tools[k].index) EXCEPT !.em.tools[k].closed = TRUE]

\* closes the block of a tool that has one
CloseTool(c, k) ==
  IF c.em.tools[k].index < 0 \/ c.em.tools[k].closed THEN c
  ELSE [StopBlock(c, c.em.tools[k].index) EXCEPT !.em.tools[k].closed = TRUE]

MessagesToolStart(c0, k) ==
  LET c == CloseActiveText(c0)
      e == [c EXCEPT !.em.after = TRUE, !.em.tools = Put(@, k, NewTool), !.em.order = Append(@, k)]
  IN IF k \in DOMAIN c.em.tools THEN Fail(c)
     ELSE IF FromResponses(c) /\ AllowsItem(c.em.front, k) THEN ShowTool(e, k, FALSE) ELSE e

MessagesToolArguments(c, k, toks) ==
  IF k \notin DOMAIN c.em.tools \/ (k \in DOMAIN c.em.tools /\ c.em.tools[k].done) THEN Fail(c)
  ELSE LET e == [c EXCEPT !.em.tools[k].args = @ \o toks]
       IN IF FromResponses(c) /\ c.em.tools[k].index >= 0 THEN Inside(e, c.em.tools[k].index, "args", toks) ELSE e

MessagesToolDone(c0, k, args) ==
  LET c == CloseActiveText(c0)
      e == [c EXCEPT !.em.tools[k].done = TRUE]
  IN IF k \notin DOMAIN c.em.tools \/ (k \in DOMAIN c.em.tools /\ c.em.tools[k].done) THEN c
     ELSE IF args # c.em.tools[k].args THEN Fail(c)
     ELSE IF FromResponses(c) THEN CloseTool(e, k) ELSE e

\* drainReadyContent()
MessagesReleaseTool(c, k) == IF k \in DOMAIN c.em.tools /\ c.em.tools[k].index < 0 THEN ShowTool(c, k, FALSE) ELSE c
MessagesReleaseHeld(c, k) ==
  RecordStreamed(LiveText(NotHeld(c, k), BlockOf(k, c.em.held[k].medium), c.em.held[k].text),
                 k, c.em.held[k].medium, c.em.held[k].text)
MessagesReleaseContent(c) == IF HeldHere(c) = {} THEN c ELSE MessagesReleaseHeld(c, HeldKey(c))

RECURSIVE MessagesDrain(_), MessagesMoveOn(_)
MessagesMoveOn(c) ==
  IF ContentDoneAtFrontier(c.em.front) THEN MessagesDrain([c EXCEPT !.em.front = AdvanceContent(@)])
  ELSE IF ItemDoneAtFrontier(c.em.front)
  THEN MessagesDrain([c EXCEPT !.em.front = AdvanceItem(@), !.em.heldReasoning = @ \ {ReasoningKey(c.em.front.item)}])
  ELSE c
MessagesDrain(c) ==
  LET i == c.em.front.item
  IN IF WaitsForCarrier(c, ReasoningKey(i)) THEN c
     ELSE MessagesMoveOn(MessagesReleaseContent(MessagesReleaseTool(c, ToolKey(i))))

\* contentDone(), itemDone()
MessagesContentDone(c, k) ==
  IF FromResponses(c) THEN MessagesDrain([c EXCEPT !.em.front = MarkContentDone(@, k)]) ELSE c
MessagesItemDone(c, i) ==
  LET k == ToolKey(i)
      e == IF k \in DOMAIN c.em.tools THEN CloseTool([c EXCEPT !.em.tools[k].ended = TRUE], k) ELSE c
  IN MessagesDrain([e EXCEPT !.em.front = MarkItemDone(@, i)])

\* emitBufferedItems(), finish()
MessagesBufferedPart(c, p) ==
  LET before == Streamed(c, p.key, p.medium)
  IN IF ~IsPrefix(before, p.text) THEN Fail(c)
     ELSE IF before = p.text THEN c
     ELSE StopBlock(Inside(OpenBlock(c, "text", <<>>), c.em.next, "text", Remaining(p.text, before)), c.em.next)

CloseOpenTools(c) == Each(c, c.em.order, CloseTool)

MessagesBufferedItems(c, items, allowCarriers) ==
  Each(c, items, LAMBDA e, item :
    CASE item.kind = "reasoning" -> ShowReasoning(e, item.key, allowCarriers)
      [] item.kind = "message" -> Each(e, item.content, MessagesBufferedPart)
      [] OTHER -> IF item.key \notin DOMAIN e.em.tools THEN Fail(e)
                  ELSE IF e.em.tools[item.key].index >= 0 THEN e ELSE ShowTool(e, item.key, TRUE))

MessagesFinishStream(c, status, finish, items) ==
  Unless(MessagesBufferedItems(CloseOpenTools(CloseActiveText(c)), items, status = "completed" /\ HasTool(items)), LAMBDA e :
    Emit(Emit(CloseOpenTools(e), Wire("message_delta", 0, 0, <<>>, finish)), Wire("message_stop", 0, 0, <<>>, "")))

================================================================================
