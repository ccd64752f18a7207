--------------------------- MODULE ResponsesEmitter ---------------------------
(***************************************************************************)
(* ResponsesEmitter of protocols/conversion/stream.ts: output items with   *)
(* their life cycle, the checkpoints between them and the carriers of      *)
(* reasoning state.  Sequence numbers count the events and are left out;   *)
(* every tool is a plain function (the restoration of extended tools only  *)
(* renames its events).                                                    *)
(***************************************************************************)
EXTENDS MessagesEmitter

\* Maps by key with the order of insertion; completed: the indexes of finished items.
ResponsesEmitterStart ==
  [next |-> 0, messages |-> <<>>, order |-> <<>>, tools |-> <<>>, reasoning |-> <<>>, completed |-> {}]

NewMessage(index) ==
  [index |-> index, added |-> FALSE, parts |-> <<>>, text |-> <<>>, refusal |-> <<>>, close |-> "", done |-> FALSE]
\* minted: the state its carrier holds; capacity: minting failed.
NewOutputReasoning(index) ==
  [index |-> index, added |-> FALSE, begun |-> FALSE, text |-> <<>>, done |-> FALSE, closed |-> FALSE,
   minted |-> "", capacity |-> FALSE]

EnsureMessage(c, k) ==
  IF k \in DOMAIN c.em.messages THEN c
  ELSE [c EXCEPT !.em.messages = Put(@, k, NewMessage(c.em.next)), !.em.order = Append(@, k), !.em.next = @ + 1]
EnsureReasoning(c, k) ==
  IF k \in DOMAIN c.em.reasoning THEN c
  ELSE [c EXCEPT !.em.reasoning = Put(@, k, NewOutputReasoning(c.em.next)), !.em.next = @ + 1]

ItemEvent(c, t, index, detail) == Emit(c, Wire(t, index, 0, <<>>, detail))
Checkpoint(c, state, indexes) == Emit(c, Wire("checkpoint", 0, 0, indexes, state))
Minted(c) == {k \in DOMAIN c.em.reasoning : c.em.reasoning[k].minted # ""}

\* start()
ResponsesBegin(c) == ItemEvent(ItemEvent(Checkpoint(c, "route_only", {}), "created", 0, ""), "in_progress", 0, "")

\* The content index of a medium is its place in parts.
PartIndex(m, medium) == CHOOSE n \in DOMAIN m.parts : m.parts[n] = medium
HasPart(m, medium) == medium \in {m.parts[n] : n \in DOMAIN m.parts}

\* openMessageItem(), with the parts reserved before
OpenMessageItem(c, k) ==
  LET m == c.em.messages[k]
      e == ItemEvent([c EXCEPT !.em.messages[k].added = TRUE], "added", m.index, "message")
      Add(s, medium) == IF HasPart(m, medium) THEN Emit(s, Wire("part", m.index, PartIndex(m, medium), <<>>, medium)) ELSE s
  IN IF m.added THEN c ELSE Add(Add(e, "text"), "refusal")

\* closeMessageItem()
CloseMessageItem(c, k) ==
  LET m == c.em.messages[k]
      e == [c EXCEPT !.em.messages[k].done = TRUE, !.em.completed = @ \cup {m.index}]
      End(s, medium) == IF HasPart(m, medium)
                        THEN Emit(s, Wire("part done", m.index, PartIndex(m, medium), m[medium], medium)) ELSE s
  IN IF m.done \/ m.close = "" \/ ~m.added THEN c
     ELSE ItemEvent(End(End(e, "text"), "refusal"), "done", m.index, m.close)

\* closeCompletedMessages(): a later item takes over the output.
CloseCompletedMessages(c) ==
  Each(c, c.em.order, LAMBDA e, k :
    IF e.em.messages[k].close # "" THEN e ELSE CloseMessageItem([e EXCEPT !.em.messages[k].close = "completed"], k))

\* activateReserved(), reserveMessage(), contentDone()
ActivateReserved(c) == Each(c, c.em.order, LAMBDA e, k : CloseMessageItem(OpenMessageItem(e, k), k))
ResponsesReserve(c, o, medium) ==
  LET e == EnsureMessage(c, o)
  IN IF HasPart(e.em.messages[o], medium) THEN e ELSE [e EXCEPT !.em.messages[o].parts = Append(@, medium)]
ResponsesContentDone(c, o) ==
  IF o \notin DOMAIN c.em.messages THEN c
  ELSE CloseMessageItem([c EXCEPT !.em.messages[o].close = IF @ = "" THEN "completed" ELSE @], o)

\* textDelta(), refusalDelta()
Announced(c, o) ==
  IF c.em.messages[o].added THEN c
  ELSE ItemEvent([c EXCEPT !.em.messages[o].added = TRUE], "added", c.em.messages[o].index, "message")
WithPart(c, o, medium) ==
  LET m == c.em.messages[o]
  IN IF HasPart(m, medium) THEN c
     ELSE Emit([c EXCEPT !.em.messages[o].parts = Append(@, medium)],
               Wire("part", m.index, Len(m.parts) + 1, <<>>, medium))
SayInPart(c, o, medium, toks) ==
  LET m == c.em.messages[o]
  IN Emit([c EXCEPT !.em.messages[o][medium] = @ \o toks], Wire("say", m.index, PartIndex(m, medium), toks, medium))
ResponsesSay(c, o, medium, toks) ==
  Unless(EnsureMessage(IF o \in DOMAIN c.em.messages THEN c ELSE CloseCompletedMessages(c), o), LAMBDA e :
    IF e.em.messages[o].close # "" THEN Fail(e) ELSE SayInPart(WithPart(Announced(e, o), o, medium), o, medium, toks))

-------------------------------------------------------------------------------
AddReasoning(c, k) ==
  LET r == c.em.reasoning[k]
  IN IF r.added THEN c ELSE ItemEvent([c EXCEPT !.em.reasoning[k].added = TRUE], "added", r.index, "reasoning")

\* reasoningDelta()
Think(c, k, toks) ==
  LET r == c.em.reasoning[k]
      part == IF r.begun THEN c ELSE Emit(c, Wire("part", r.index, 1, <<>>, "reasoning"))
  IN Emit([part EXCEPT !.em.reasoning[k].begun = TRUE, !.em.reasoning[k].text = @ \o toks],
          Wire("say", r.index, 1, toks, "reasoning"))
ResponsesReasoningSaid(c, k, toks) == Think(AddReasoning(EnsureReasoning(CloseCompletedMessages(c), k), k), k, toks)

\* reasoningWireEvents()
ReasoningWire(c0, k) ==
  LET c == AddReasoning(c0, k)
      said == c.led.reasoning[k].text
  IN IF said = <<>> THEN c
     ELSE IF c.em.reasoning[k].text # said THEN Fail(c)
     ELSE Emit(c, Wire("part done", c.em.reasoning[k].index, 1, said, "reasoning"))

\* refreshReasoningCarrier(): a new carrier when the state is not the one minted.
\* The store may be out of room.
NeedsCarrier(c, k) == c.led.reasoning[k].opaque \notin {"", c.em.reasoning[k].minted}
Mint(c, k) == [c EXCEPT !.em.reasoning[k].minted = c.led.reasoning[k].opaque]

\* reasoningDone()
ResponsesReasoningDone(c0, k) ==
  LET l == c0.led.reasoning[k]
      c == EnsureReasoning(c0, k)
      minted == IF ~c.ctx.carrier \/ ~NeedsCarrier(c, k) THEN c
                ELSE IF c.ctx.full THEN [c EXCEPT !.em.reasoning[k].capacity = TRUE] ELSE Mint(c, k)
      index == c.em.reasoning[k].index
      skips == l.text = <<>> /\ (l.opaque = "" \/ c0.ctx.source = "chat")
  IN IF skips \/ (~skips /\ c.em.reasoning[k].done) THEN (IF skips THEN c0 ELSE c)
     ELSE Unless(ReasoningWire(minted, k), LAMBDA w :
            LET d == [w EXCEPT !.em.reasoning[k].done = TRUE, !.em.reasoning[k].closed = TRUE, !.em.completed = @ \cup {index}]
                p == IF d.em.reasoning[k].minted = "" THEN d ELSE Checkpoint(d, "partial", d.em.completed)
            IN ItemEvent(p, "done", index, l.status))

-------------------------------------------------------------------------------
ResponsesToolStart(c0, k) ==
  LET c == CloseCompletedMessages(c0)
  IN ItemEvent([c EXCEPT !.em.tools = Put(@, k, [index |-> c.em.next, done |-> FALSE]), !.em.next = @ + 1],
               "added", c.em.next, "tool")

ResponsesToolArguments(c, k, toks) ==
  IF k \notin DOMAIN c.em.tools THEN Fail(c) ELSE Emit(c, Wire("say", c.em.tools[k].index, 1, toks, "args"))

\* Defect: the call is announced as done before its checkpoint.
ResponsesToolDone_Late(c, k, args) ==
  IF k \notin DOMAIN c.em.tools \/ (k \in DOMAIN c.em.tools /\ c.em.tools[k].done) THEN c
  ELSE LET index == c.em.tools[k].index
           e == [c EXCEPT !.em.tools[k].done = TRUE, !.em.completed = @ \cup {index}]
       IN Checkpoint(ItemEvent(Emit(e, Wire("part done", index, 1, args, "args")), "done", index, "completed"),
                     "partial", e.em.completed)

\* toolDone(): the checkpoint comes before the client may answer the call.
ResponsesToolDone(c, k, args) ==
  IF k \notin DOMAIN c.em.tools \/ (k \in DOMAIN c.em.tools /\ c.em.tools[k].done) THEN c
  ELSE LET index == c.em.tools[k].index
           e == [c EXCEPT !.em.tools[k].done = TRUE, !.em.completed = @ \cup {index}]
       IN ItemEvent(Emit(Checkpoint(e, "partial", e.em.completed), Wire("part done", index, 1, args, "args")),
                    "done", index, "completed")

-------------------------------------------------------------------------------
\* finish(), in its parts.  A completed response with calls carries every opaque
\* state: the first carrier that does not fit is fatal.
MintForTools(c, items) ==
  Each(c, items, LAMBDA e0, item :
    IF item.kind # "reasoning" \/ (item.kind = "reasoning" /\ e0.led.reasoning[item.key].opaque = "") THEN e0
    ELSE LET e == EnsureReasoning(e0, item.key)
             r == e.em.reasoning[item.key]
             done == [e EXCEPT !.em.completed = @ \cup {r.index}]
         IN IF r.capacity \/ (NeedsCarrier(e, item.key) /\ e.ctx.full /\ r.minted = "") THEN Fail(e)
            ELSE IF NeedsCarrier(e, item.key) /\ ~e.ctx.full THEN Mint(done, item.key) ELSE done)

\* Carriers whose state has grown since are minted again.
MintAgain(c, items) ==
  Each(c, items, LAMBDA e, item :
    IF item.kind = "reasoning" /\ item.key \in Minted(e) /\ ~e.ctx.full THEN Mint(e, item.key) ELSE e)

OpenFinalMessages(c, items) ==
  Each(c, items, LAMBDA e0, item :
    IF item.kind # "message" THEN e0
    ELSE OpenMessageItem(Each(EnsureMessage(e0, item.key), item.content,
                              LAMBDA e, p : ResponsesReserve(e, item.key, p.medium)), item.key))

CloseWith(c, status) ==
  [c EXCEPT !.em.messages = [k \in DOMAIN @ |-> [@[k] EXCEPT !.close = IF @ = "" THEN status ELSE @]]]

\* Opaque-only Chat reasoning is announced only now.
CloseReasoningItems(c, items, status) ==
  Each(c, items, LAMBDA e, item :
    IF item.kind # "reasoning" \/ item.key \notin DOMAIN e.em.reasoning THEN e
    ELSE LET r == e.em.reasoning[item.key]
         IN IF r.closed \/ e.led.reasoning[item.key].opaque = "" THEN e
            ELSE Unless(IF r.done THEN e ELSE ReasoningWire(e, item.key), LAMBDA w :
                   ItemEvent([w EXCEPT !.em.reasoning[item.key].done = TRUE, !.em.reasoning[item.key].closed = TRUE,
                                       !.em.completed = @ \cup {r.index}], "done", r.index,
                             e.led.reasoning[item.key].status)))

\* responseOutput(): the indexes of the items in the final output.
IndexOf(c, item) ==
  CASE item.kind = "message" -> c.em.messages[item.key].index
    [] item.kind = "tool" -> c.em.tools[item.key].index
    [] OTHER -> c.em.reasoning[item.key].index
OutputIndexes(c, items) ==
  {IndexOf(c, items[n]) : n \in {m \in DOMAIN items :
     items[m].kind = "reasoning" => /\ items[m].key \in DOMAIN c.em.reasoning
                                    /\ c.led.reasoning[items[m].key].text # <<>> \/ c.led.reasoning[items[m].key].opaque # ""}}

ResponsesFinishStream(c, status, finish, items) ==
  LET carries == c.ctx.carrier /\ status = "completed" /\ HasTool(items)
      minted == IF carries THEN MintForTools(c, items) ELSE c
      saved == IF ~carries \/ minted.bad \/ Minted(minted) = {} THEN minted
               ELSE Checkpoint(minted, "partial", OutputIndexes(minted, items))
  IN Unless(saved, LAMBDA s : Unless(OpenFinalMessages(s, items), LAMBDA o :
       LET again == IF c.ctx.carrier THEN MintAgain(CloseWith(o, status), items) ELSE CloseWith(o, status)
           kept == IF status = "completed" THEN Checkpoint(again, "complete", OutputIndexes(again, items)) ELSE again
           closed == Each(kept, kept.em.order, CloseMessageItem)
       IN Unless(IF c.ctx.carrier THEN CloseReasoningItems(closed, items, status) ELSE closed, LAMBDA e :
            Emit(e, Wire("end", 0, 0, OutputIndexes(again, items), status)))))

===============================================================================
