--------------------------- MODULE ResponsesDecoder ---------------------------
(***************************************************************************)
(* decodeResponsesStream of protocols/conversion/stream_decoders.ts.       *)
(*                                                                         *)
(* An item is [type, content, text, opaque, status]: a message's content   *)
(* parts as <<kind, text>>, a call's arguments or a reasoning item's text, *)
(* the opaque state a reasoning item carries, and "" for no status.  A     *)
(* reasoning item has one part.  Wrong types, ids that change, sequence    *)
(* numbers that do not grow and the byte budget are "malformed".           *)
(***************************************************************************)
EXTENDS SemanticEvents

NoItem == -1
ToolKey(i) == <<"tool", i>>
MessageKey(i) == <<"message", i>>
ReasoningKey(i) == <<"reasoning", i>>
PartKey(i, c, kind) == <<"part", i, c, kind>>

\* indexes: observed; types, statuses: what they were said to have; content: the parts observed; ended: what
\* a reasoning part said when it was done; final: the reasoning items done.
ResponsesStart ==
  [indexes |-> {}, types |-> <<>>, statuses |-> <<>>, content |-> {}, added |-> {}, done |-> {},
   tools |-> {}, seen |-> {}, ended |-> <<>>, final |-> <<>>, pending |-> NoItem]

Put(f, k, v) == [x \in DOMAIN f \cup {k} |-> IF x = k THEN v ELSE f[x]]
Get(f, k, default) == IF k \in DOMAIN f THEN f[k] ELSE default

\* finishPendingStatuslessReasoning(), when an event is about another item
FlushStatusless(d, i, status) ==
  IF d.pending \in {NoItem, i} THEN Yields(d, <<>>)
  ELSE Yields([d EXCEPT !.pending = NoItem],
              <<ReasoningDone(ReasoningKey(d.pending), status), ItemDone(d.pending, "reasoning")>>)

Observe(d, i, type) ==
  IF Get(d.types, i, type) # type THEN Throws(d, <<>>)
  ELSE Yields([d EXCEPT !.types = Put(@, i, type), !.indexes = @ \cup {i}], <<>>)

Concat(n, f(_)) == FoldLeft(LAMBDA acc, x : acc \o f(x), <<>>, [x \in 1 .. n |-> x])

\* messageContentEvents()
PartDone(i, c, kind, text) ==
  IF kind = "text" THEN TextDone(PartKey(i, c, kind), MessageKey(i), text)
  ELSE RefusalDone(PartKey(i, c, kind), MessageKey(i), text)

MessageContent(i, content, complete) ==
  Concat(Len(content), LAMBDA c :
    <<PartDone(i, c - 1, content[c][1], content[c][2])>>
      \o (IF complete THEN <<ContentDone(PartKey(i, c - 1, content[c][1]), MessageKey(i))>> ELSE <<>>))

PartsOf(i, item) == {PartKey(i, c - 1, item.content[c][1]) : c \in DOMAIN item.content}

\* responseReasoningItemEvents(): a completed item repeats every part it has shown.
ReasoningItem(d, i, item, complete, already) ==
  LET k == ReasoningKey(i)
      opaque == IF item.opaque = "" THEN <<>> ELSE <<ReasoningStart(k, item.opaque)>>
      shown == IF item.text = <<>> THEN <<>> ELSE <<ReasoningSnapshot(k, item.text)>>
      progress == IF item.text = <<>> /\ item.opaque # "" THEN <<Progress>> ELSE <<>>
      done == IF item.status = "" THEN <<>> ELSE <<ReasoningDone(k, item.status)>>
      known == [d EXCEPT !.seen = @ \cup (IF item.text = <<>> THEN {} ELSE {i}), !.final = IF complete THEN Put(@, i, item) ELSE @]
      same(x) == /\ x.status = "" \/ item.status = "" \/ x.status = item.status
                 /\ x.text = item.text /\ (x.opaque = "") = (item.opaque = "")
  IN CASE already -> IF i \in DOMAIN d.final /\ same(d.final[i]) THEN Yields(known, opaque) ELSE Throws(d, <<>>)
       [] ~already /\ ~complete -> Yields(known, <<ReasoningStart(k, "")>> \o shown \o progress)
       [] OTHER -> IF (i \in d.seen /\ item.text = <<>>) \/ Get(d.ended, i, <<item.text>>)[1] # item.text THEN Throws(d, opaque)
                   ELSE Yields(known, opaque \o <<ReasoningStart(k, "")>> \o shown \o progress \o done)

\* finalItemEvents()
FinalItem(d, i, item, already) ==
  CASE item.type = "message" -> Yields(d, MessageContent(i, item.content, TRUE))
    [] item.type = "tool" ->
         Yields([d EXCEPT !.tools = @ \cup {i}],
                (IF i \in d.tools THEN <<>> ELSE <<ToolStart(ToolKey(i))>>)
                  \o <<ToolSnapshot(ToolKey(i), item.text, IF item.status = "completed" THEN "completed" ELSE "incomplete")>>)
    [] OTHER -> ReasoningItem(d, i, item, TRUE, already)

\* response.output_item.added
ItemAdded(d0, i, item) ==
  Then(FlushStatusless(d0, i, "completed"), LAMBDA d :
    IF i \in d.added \cup d.done THEN Throws(d, <<>>)
    ELSE Then(Observe([d EXCEPT !.added = @ \cup {i}, !.content = @ \cup PartsOf(i, item)], i, item.type), LAMBDA e :
      CASE item.type = "message" -> Yields(e, <<MessageStart(MessageKey(i))>> \o MessageContent(i, item.content, FALSE))
        [] item.type = "tool" ->
             Yields([e EXCEPT !.tools = @ \cup {i}],
                    <<ToolStart(ToolKey(i))>>
                      \o (IF item.text = <<>> THEN <<>> ELSE <<ToolArguments(ToolKey(i), item.text)>>))
        [] OTHER -> ReasoningItem(e, i, item, FALSE, FALSE)))

\* response.output_text and response.refusal (delta, done) and response.content_part
\* (added, done) for them
ContentEvent(d0, i, c, kind, form, toks) ==
  Then(FlushStatusless(d0, i, "completed"), LAMBDA d :
    LET k == PartKey(i, c, kind)
        e == [d EXCEPT !.content = @ \cup {k}, !.indexes = @ \cup {i}]
        ended == IF form \in {"done", "part done"} THEN <<ContentDone(k, MessageKey(i))>> ELSE <<>>
    IN CASE i \in d.done -> Throws(d, <<>>)
         [] i \notin d.done /\ form = "delta" ->
              Yields(e, <<IF kind = "text" THEN TextDelta(k, MessageKey(i), toks) ELSE RefusalDelta(k, MessageKey(i), toks)>>)
         [] OTHER -> Yields(e, <<PartDone(i, c, kind, toks)>> \o ended))

\* response.function_call_arguments (delta, done)
ArgumentsEvent(d0, i, form, toks) ==
  Then(FlushStatusless(d0, i, "completed"), LAMBDA d :
    IF i \in d.done \/ i \notin d.tools THEN Throws(d, <<>>)
    ELSE Yields(d, <<IF form = "delta" THEN ToolArguments(ToolKey(i), toks) ELSE ToolSnapshot(ToolKey(i), toks, "")>>))

\* response.reasoning_summary_text, reasoning_text and their parts
ReasoningEvent(d0, i, form, toks) ==
  Then(FlushStatusless(d0, i, "completed"), LAMBDA f : Then(Observe(f, i, "reasoning"), LAMBDA d :
    LET e == [d EXCEPT !.seen = @ \cup {i},
                       !.ended = IF form \in {"done", "part done"} THEN Put(@, i, <<toks, form>>) ELSE @]
    IN IF i \in d.done \/ (i \in DOMAIN d.ended /\ ~(form = "part done" /\ d.ended[i] = <<toks, "done">>)) THEN Throws(d, <<>>)
       ELSE Yields(e, <<IF form = "delta" THEN ReasoningDelta(ReasoningKey(i), toks)
                        ELSE ReasoningSnapshot(ReasoningKey(i), toks)>>)))

\* response.output_item.done
OutputItemDone(d0, i, item) ==
  Then(FlushStatusless(d0, i, "completed"), LAMBDA f :
    IF i \in f.done \/ (item.status = "" /\ item.type # "reasoning") THEN Throws(f, <<>>)
    ELSE Then(Observe([f EXCEPT !.statuses = IF item.status = "" THEN @ ELSE Put(@, i, item.status),
                                !.content = @ \cup PartsOf(i, item)], i, item.type), LAMBDA d :
         Then(FinalItem(d, i, item, FALSE), LAMBDA e :
           IF item.type = "reasoning" /\ item.status = ""
           THEN IF e.pending # NoItem THEN Throws(e, <<>>)
                ELSE Yields([e EXCEPT !.done = @ \cup {i}, !.pending = i], <<>>)
           ELSE Yields([e EXCEPT !.done = @ \cup {i}], <<ItemDone(i, item.type)>>))))

\* validateTerminalResponse(): the output holds everything that was shown.
AgreesWithOutput(d, status, output) ==
  /\ \A n \in DOMAIN output : /\ output[n].type # "reasoning" => output[n].status # ""
                              /\ status = "completed" => output[n].status \in {"", "completed"}
  /\ \A i \in d.indexes : i < Len(output) /\ output[i + 1].type = Get(d.types, i, output[i + 1].type)
  /\ \A i \in DOMAIN d.statuses : output[i + 1].status \in {"", d.statuses[i]}
  /\ \A k \in d.content : /\ output[k[2] + 1].type = "message" /\ k[3] < Len(output[k[2] + 1].content)
                          /\ output[k[2] + 1].content[k[3] + 1][1] = k[4]

\* response.completed and response.incomplete
ResponseEnds(d, status, reason, output) ==
  LET refused == \E n \in DOMAIN output : \E c \in DOMAIN output[n].content : output[n].content[c][1] = "refusal"
      final == FoldLeft(LAMBDA r, n : Then(r, LAMBDA e : FinalItem(e, n - 1, output[n], (n - 1) \in d.done)),
                        Yields(d, <<>>), [n \in DOMAIN output |-> n])
  IN IF ~AgreesWithOutput(d, status, output) THEN Throws(d, <<>>)
     ELSE Then(final, LAMBDA e : Then(FlushStatusless(e, NoItem, status), LAMBDA f :
            Yields(f, <<Terminal(CASE status = "incomplete" -> reason
                                   [] status = "completed" /\ refused -> "refusal"
                                   [] status = "completed" /\ ~refused /\ f.tools # {} -> "tool_calls"
                                   [] OTHER -> "stop", status)>>)))

===============================================================================
