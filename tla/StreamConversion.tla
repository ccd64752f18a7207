--------------------------- MODULE StreamConversion ---------------------------
(***************************************************************************)
(* convertProtocolStream of protocols/conversion/stream.ts: an upstream    *)
(* stream of one protocol becomes the client's stream of another.  An      *)
(* honest upstream sends events one by one; what goes out is read by a     *)
(* client that knows its own protocol only.  The properties compare what   *)
(* the client understood with what the upstream meant.                     *)
(***************************************************************************)
EXTENDS ResponsesEmitter

CONSTANTS CHAT_EVENTS, MESSAGES_EVENTS, RESPONSES_EVENTS, \* upstream events of a stream
          OUTPUT_ITEMS, CONTENT_PARTS                     \* items of a response, parts of a message

VARIABLES up,     \* what the upstream has said: its items, tokens used, events sent
          dec,    \* the decoder of the source protocol
          decoded,\* what it made of the last event: semantic events, then perhaps an error
          conv,   \* the converter: context, ledger, emitter
          client  \* what the client has read

conversionVars == <<up, dec, decoded, conv, client>>

-------------------------------------------------------------------------------
(* The emitter of the target *)

EmitterStart(t) ==
  CASE t = "chat" -> ChatEmitterStart [] t = "messages" -> MessagesEmitterStart [] OTHER -> ResponsesEmitterStart
To(c, t) == c.ctx.target = t

EmBegin(c) ==
  IF To(c, "chat") THEN ChatBegin(c) ELSE IF To(c, "messages") THEN MessagesBegin(c) ELSE ActivateReserved(ResponsesBegin(c))
EmReserve(c, o, medium) ==
  IF To(c, "chat") THEN c ELSE IF To(c, "messages") THEN MessagesReserve(c, o) ELSE ResponsesReserve(c, o, medium)
EmSay(c, k, o, medium, toks) ==
  IF To(c, "chat") THEN ChatSay(c, k, o, medium, toks)
  ELSE IF To(c, "messages") THEN MessagesSay(c, k, o, medium, toks) ELSE ResponsesSay(c, o, medium, toks)
EmContentDone(c, k, o) ==
  IF To(c, "chat") THEN ChatContentDone(c, k)
  ELSE IF To(c, "messages") THEN MessagesContentDone(c, k) ELSE ResponsesContentDone(c, o)
EmItemDone(c, i) ==
  IF To(c, "chat") THEN ChatItemDone(c, i) ELSE IF To(c, "messages") THEN MessagesItemDone(c, i) ELSE c
EmReasoning(c, k, toks) ==
  IF To(c, "chat") THEN ChatReasoningSaid(c, k, toks)
  ELSE IF To(c, "messages") THEN c ELSE ResponsesReasoningSaid(c, k, toks)
EmReasoningDone(c, k) ==
  IF To(c, "chat") THEN ChatReasoningDone(c, k)
  ELSE IF To(c, "messages") THEN MessagesReasoningDone(c, k) ELSE ResponsesReasoningDone(c, k)
EmToolStart(c, k) ==
  IF To(c, "chat") THEN ChatToolStart(c, k) ELSE IF To(c, "messages") THEN MessagesToolStart(c, k) ELSE ResponsesToolStart(c, k)
EmToolArguments(c, k, toks) ==
  IF To(c, "chat") THEN ChatToolArguments(c, k, toks)
  ELSE IF To(c, "messages") THEN MessagesToolArguments(c, k, toks) ELSE ResponsesToolArguments(c, k, toks)
EmToolDone(c, k) ==
  IF To(c, "chat") THEN c
  ELSE IF To(c, "messages") THEN MessagesToolDone(c, k, c.led.tools[k].args) ELSE ResponsesToolDone(c, k, c.led.tools[k].args)
EmFinish(c, status, finish, items) ==
  IF To(c, "chat") THEN ChatFinishStream(c, status, finish, items)
  ELSE IF To(c, "messages") THEN MessagesFinishStream(c, status, finish, items)
  ELSE ResponsesFinishStream(c, status, finish, items)

-------------------------------------------------------------------------------
(* convertProtocolStream *)

\* measuredEvent(): what an event emits is collected first, so a failure on the way
\* sends nothing of it.
Measured(c, f(_)) == IF c.bad THEN c ELSE LET n == f(c) IN IF n.bad THEN Fail(c) ELSE n

\* startsSemanticOutput()
StartsOutput(e) ==
  \/ e.kind \in {"semantic_progress", "tool_start", "tool_done", "tool_snapshot", "terminal"}
  \/ e.kind \in {"text_delta", "text_done", "refusal_delta", "refusal_done", "tool_arguments_delta",
                 "reasoning_delta", "reasoning_snapshot"} /\ e.text # <<>>
Begun(c, e) == IF ~c.started /\ StartsOutput(e) THEN EmBegin([c EXCEPT !.started = TRUE]) ELSE c

Medium(e) == IF e.kind \in {"text_delta", "text_done"} THEN "text" ELSE "refusal"

\* text_delta, refusal_delta
SaidDelta(c, e) ==
  Unless(AppendPart(c, e.key, e.order, Medium(e), e.text), LAMBDA a :
    IF a.started THEN EmSay(a, e.key, e.order, Medium(e), e.text) ELSE EmReserve(a, e.order, Medium(e)))

\* text_done, refusal_done: reconcileSnapshot() gives what is new in it.
SaidDone(c, e) ==
  LET m == Medium(e)
      first == FirstSight(c, e.key, m)
      rest == Remaining(e.text, Said(c, e.key, m))
  IN IF ~IsPrefix(Said(c, e.key, m), e.text) THEN Fail(c)
     ELSE Unless(ObservePart(c, e.key, e.order, m), LAMBDA o :
            CASE rest # <<>> -> Unless(AppendPart(o, e.key, e.order, m, rest), LAMBDA a :
                                  IF a.started THEN EmSay(a, e.key, e.order, m, rest) ELSE a)
              [] rest = <<>> /\ ~first -> o
              [] OTHER -> IF o.started THEN EmSay(o, e.key, e.order, m, <<>>) ELSE EmReserve(o, e.order, m))

\* reasoning_delta, reasoning_snapshot
Reasoned(c, k, toks) ==
  IF toks = <<>> THEN c
  ELSE Unless(AppendReasoning(c, k, toks), LAMBDA a : IF a.started THEN EmReasoning(a, k, toks) ELSE a)

\* tool_done: a Messages client's block ends here unless the call is incomplete.
ToolFinished(c, e) ==
  LET k == e.key
      args == c.led.tools[k].args
      whole == IF e.kind = "tool_snapshot" THEN e.text ELSE args
  IN IF k \notin DOMAIN c.led.tools THEN Fail(c)
     ELSE Unless(FinishTool(c, k, whole, e.flag = "completed"), LAMBDA f :
          Unless(IF Remaining(whole, args) = <<>> THEN f ELSE EmToolArguments(f, k, Remaining(whole, args)), LAMBDA g :
            IF To(c, "messages") /\ e.flag # "incomplete" THEN EmToolDone(g, k) ELSE g))

\* terminal: open calls and reasoning are finished, then the emitter writes the rest.
CallsEnded(c, status) ==
  IF status # "completed" /\ ~c.ctx.bound THEN c
  ELSE Unless(Measured(c, LAMBDA x : FinishOpenTools(x, status = "completed")), LAMBDA f :
         Each(f, KeysOf(f, "tool"), LAMBDA x, k : Measured(x, LAMBDA y : EmToolDone(y, k))))
ReasoningEnded(c, open, status) ==
  Each(Each(c, open, LAMBDA x, k : FinishReasoning(x, k, status)), open,
       LAMBDA x, k : Measured(x, LAMBDA y : EmReasoningDone(y, k)))
OutputEnded(c, status, finish) ==
  IF ItemsAllowed(c, status) THEN Measured(c, LAMBDA x : EmFinish(x, status, finish, Items(x))) ELSE Fail(c)
Ended(c, status, finish) ==
  Unless(OutputEnded(Unless(CallsEnded(c, status), LAMBDA x : ReasoningEnded(x, OpenReasoning(x), status)), status, finish),
         LAMBDA x : [x EXCEPT !.ended = status])

ConvertBegun(c, e) ==
  CASE e.kind \in {"usage", "semantic_progress"} -> c
    [] e.kind = "message_start" ->
          LET s == StartMessage(c, e.key) IN IF To(c, "messages") THEN MessagesReserve(s, e.key) ELSE s
    [] e.kind = "reasoning_start" -> Measured(c, LAMBDA x : StartReasoning(x, e.key, e.flag))
    [] e.kind = "reasoning_delta" -> Measured(c, LAMBDA x : Reasoned(x, e.key, e.text))
    [] e.kind = "reasoning_snapshot" ->
          IF IsPrefix(Thought(c, e.key), e.text)
          THEN Measured(c, LAMBDA x : Reasoned(x, e.key, Remaining(e.text, Thought(x, e.key)))) ELSE Fail(c)
    [] e.kind = "reasoning_done" ->
          Measured(c, LAMBDA x : Unless(FinishReasoning(x, e.key, e.flag), LAMBDA y : EmReasoningDone(y, e.key)))
    [] e.kind \in {"text_delta", "refusal_delta"} -> Measured(c, LAMBDA x : SaidDelta(x, e))
    [] e.kind \in {"text_done", "refusal_done"} -> Measured(c, LAMBDA x : SaidDone(x, e))
    [] e.kind = "content_done" ->
          Measured(c, LAMBDA x : Unless(FinishContent(x, e.key), LAMBDA y : EmContentDone(y, e.key, e.order)))
    [] e.kind = "item_done" ->
          Measured(c, LAMBDA x : EmItemDone(IF e.flag = "message" THEN FinishMessage(x, MessageKey(e.key[1])) ELSE x, e.key[1]))
    [] e.kind = "tool_start" -> Measured(c, LAMBDA x : Unless(StartTool(x, e.key), LAMBDA y : EmToolStart(y, e.key)))
    [] e.kind = "tool_arguments_delta" ->
          Measured(c, LAMBDA x : Unless(AppendToolArguments(x, e.key, e.text), LAMBDA y : EmToolArguments(y, e.key, e.text)))
    [] e.kind \in {"tool_done", "tool_snapshot"} -> Measured(c, LAMBDA x : ToolFinished(x, e))
    [] OTHER -> Ended(c, e.text[1], e.flag)
ConvertEvent(c, e) == ConvertBegun(IF e.kind \in {"usage", "message_start"} THEN c ELSE Begun(c, e), e)

-------------------------------------------------------------------------------
(* The client: a reader of the target protocol that knows nothing else *)

NewClient == [ok |-> TRUE, stage |-> "", text |-> <<>>, refusal |-> <<>>, reasoning |-> <<>>,
              items |-> <<>>, saved |-> {}, early |-> FALSE]
NewEntry(kind, said) == [kind |-> kind, said |-> said, closed |-> {}, done |-> FALSE]

If(cl, legal, next) == IF cl.ok /\ legal THEN next ELSE [cl EXCEPT !.ok = FALSE]
Stage(cl, from, to) == If(cl, cl.stage = from, [cl EXCEPT !.stage = to])
Hears(cl, medium, toks) == IF medium = "args" THEN cl ELSE [cl EXCEPT ![medium] = @ \o toks]
Entries(cl) == DOMAIN cl.items
OpenEntries(cl) == {i \in Entries(cl) : ~cl.items[i].done}

ReadsChat(cl, w) ==
  CASE w.t = "role" -> Stage(cl, "", "open")
    [] w.t \in {"text", "refusal", "reasoning"} -> If(cl, cl.stage = "open", Hears(cl, w.t, w.x))
    [] w.t = "tool" -> If(cl, cl.stage = "open" /\ w.i = Cardinality(Entries(cl)),
                          [cl EXCEPT !.items = Put(@, w.i, NewEntry("tool", <<w.x>>))])
    [] w.t = "args" -> If(cl, cl.stage = "open" /\ w.i \in Entries(cl), [cl EXCEPT !.items[w.i].said[1] = @ \o w.x])
    [] w.t = "finish" -> Stage(cl, "open", "finished")
    [] w.t = "done" -> Stage(cl, "finished", "done")
    [] OTHER -> If(cl, cl.stage \in {"open", "finished"}, cl)

\* One block at a time, at the next index; deltas of the kind of the open block.
ReadsMessages(cl, w) ==
  CASE w.t = "message_start" -> Stage(cl, "", "open")
    [] w.t = "start" -> If(cl, cl.stage = "open" /\ OpenEntries(cl) = {} /\ w.i = Cardinality(Entries(cl)),
                           [cl EXCEPT !.items = Put(@, w.i, NewEntry(w.f, <<<<>>>>))])
    [] w.t = "delta" -> If(cl, w.i \in OpenEntries(cl) /\ (w.f = "args") = (cl.items[w.i].kind = "tool"),
                           Hears([cl EXCEPT !.items[w.i].said[1] = @ \o w.x], w.f, w.x))
    [] w.t = "stop" -> If(cl, w.i \in OpenEntries(cl), [cl EXCEPT !.items[w.i].done = TRUE])
    [] w.t = "message_delta" -> If(cl, OpenEntries(cl) = {}, Stage(cl, "open", "finished"))
    [] OTHER -> Stage(cl, "finished", "done")

\* Items and parts are announced, filled and closed once, and the snapshots repeat
\* what was said.
ReadsResponses(cl, w) ==
  LET entry == cl.items[w.i]
      live == cl.stage = "open" /\ w.i \in OpenEntries(cl)
  IN CASE w.t = "checkpoint" -> IF w.f = "route_only" THEN Stage(cl, "", "stored")
                                ELSE If(cl, cl.stage = "open", [cl EXCEPT !.saved = w.x])
       [] w.t = "created" -> Stage(cl, "stored", "created")
       [] w.t = "in_progress" -> Stage(cl, "created", "open")
       [] w.t = "added" -> If(cl, cl.stage = "open" /\ w.i \notin Entries(cl),
                              [cl EXCEPT !.items = Put(@, w.i, NewEntry(w.f, IF w.f = "tool" THEN <<<<>>>> ELSE <<>>))])
       [] w.t = "part" -> If(cl, live /\ w.c = Len(entry.said) + 1, [cl EXCEPT !.items[w.i].said = Append(@, <<>>)])
       [] w.t = "say" -> If(cl, live /\ w.c \in DOMAIN entry.said \ entry.closed,
                            Hears([cl EXCEPT !.items[w.i].said[w.c] = @ \o w.x], w.f, w.x))
       [] w.t = "part done" -> If(cl, live /\ w.c \in DOMAIN entry.said \ entry.closed /\ w.x = entry.said[w.c],
                                  [cl EXCEPT !.items[w.i].closed = @ \cup {w.c}])
       [] w.t = "done" -> If(cl, live /\ entry.closed = DOMAIN entry.said,
                             [cl EXCEPT !.items[w.i].done = TRUE, !.early = @ \/ (entry.kind = "tool" /\ w.i \notin cl.saved)])
       [] OTHER -> If(cl, /\ w.x = Entries(cl) /\ w.x = 0 .. Cardinality(w.x) - 1
                          /\ w.f = "completed" => OpenEntries(cl) = {} /\ cl.saved = w.x, Stage(cl, "open", "done"))

Reads(cl, events) ==
  FoldLeft(LAMBDA a, w : IF To(conv, "chat") THEN ReadsChat(a, w)
                         ELSE IF To(conv, "messages") THEN ReadsMessages(a, w) ELSE ReadsResponses(a, w), cl, events)

-------------------------------------------------------------------------------
(* The upstream *)

\* said: what stands at each place <<item, part>> of the answer; closed: the places
\* and items that are finished; stage: how far the stream is; honest: it has kept
\* to its protocol.
NewUpstream == [n |-> 0, said |-> <<>>, closed |-> {}, stage |-> "open", honest |-> TRUE]
Tok == up.n + 1
Saying(u, place, kind, toks) ==
  [u EXCEPT !.said = Put(@, place, [kind |-> kind, text |-> Get(@, place, [text |-> <<>>]).text \o toks])]
SaidAt(place) == Get(up.said, place, [text |-> <<>>]).text
Closing(u, place) == [u EXCEPT !.closed = @ \cup {place}]
Staged(u, stage) == [u EXCEPT !.stage = stage]
Lying(u) == [u EXCEPT !.honest = FALSE]

\* One event of the upstream, and what the decoder makes of it.
Decode(r, u) ==
  /\ ~conv.bad /\ conv.ended = ""
  /\ up' = [u EXCEPT !.n = @ + 1]
  /\ dec' = r.d
  /\ decoded' = [out |-> r.out, bad |-> r.bad]

\* Its events have gone through the converter; what that wrote goes to the client.
Write(c) ==
  /\ conv' = [c EXCEPT !.out = <<>>, !.bad = @ \/ decoded'.bad]
  /\ client' = Reads(client, c.out)

Streams(source, bound) == conv.ctx.source = source /\ up.stage = "open" /\ up.n < bound

\* Chat: reasoning, text before the calls, the calls by index, text after them.
TextPlace == <<IF dec.toolSeen THEN 3 ELSE 1, 0>>
RefusalPlace == <<IF dec.toolSeen THEN 3 ELSE 1, 1>>
KnownTools == {i \in ChatToolIndexes : dec.tools[i].known}
WellFormedTools == KnownTools = 0 .. Cardinality(KnownTools) - 1 /\ \A i \in KnownTools : dec.tools[i].named /\ SaidAt(<<2, i>>) # <<>>

ChatStreams ==
  /\ Streams("chat", CHAT_EVENTS)
  /\ \/ LET u == Saying(up, <<0, 0>>, "reasoning", <<Tok>>)
        IN IF ReasoningOver(dec) THEN up.n < 2 /\ Decode(ChatReasoningDelta(dec, Tok), Lying(up)) ELSE Decode(ChatReasoningDelta(dec, Tok), u)
     \/ ~dec.opaque /\ Decode(ChatOpaqueDelta(dec), up)
     \/ ~ReasoningOver(dec) /\ dec.blocks = 0 /\ Decode(ChatThinkingBlock(dec), up)
     \/ Decode(ChatContentDelta(dec, Tok), Saying(up, TextPlace, "text", <<Tok>>))
     \/ Decode(ChatRefusalDelta(dec, Tok), Saying(up, RefusalPlace, "refusal", <<Tok>>))
     \/ \E i \in ChatToolIndexes, named \in BOOLEAN, toks \in {<<>>, <<Tok>>} :
          Decode(ChatToolDelta(dec, i, named, toks), Saying(up, <<2, i>>, "call", toks))

\* The answer once more as a whole, perhaps with a token or a call that was not
\* streamed; a message that leaves out text or calls contradicts the stream.
ChatRepeats ==
  /\ conv.ctx.source = "chat" /\ up.stage = "open"
  /\ LET full(S) == [i \in S |-> SaidAt(<<2, i>>)]
     IN \/ WellFormedTools /\ Decode(ChatFinalMessage(dec, <<>>, TRUE, full(KnownTools)), Staged(up, "final"))
        \/ WellFormedTools /\ up.n < CHAT_EVENTS
           /\ Decode(ChatFinalMessage(dec, <<Tok>>, TRUE, full(KnownTools)), Saying(Staged(up, "final"), TextPlace, "text", <<Tok>>))
        \/ KnownTools = {} /\ up.n < CHAT_EVENTS
           /\ Decode(ChatFinalMessage(dec, <<>>, TRUE, 0 :> <<Tok>>), Saying(Staged(up, "final"), <<2, 0>>, "call", <<Tok>>))
        \/ KnownTools # {} /\ Decode(ChatFinalMessage(dec, <<>>, TRUE, <<>>), Lying(up))
        \/ dec.text # <<>> /\ Decode(ChatFinalMessage(dec, <<>>, FALSE, <<>>), Lying(up))

\* An answer cut short after opaque reasoning has been closed is one the ledger
\* refuses: the item would end twice, completed and incomplete.
ChatEnds ==
  /\ conv.ctx.source = "chat"
  /\ \/ /\ up.stage \in {"open", "final"}
        /\ \/ KnownTools = {} /\ Decode(ChatFinish(dec, "stop"), Staged(up, "finished"))
           \/ KnownTools # {} /\ WellFormedTools /\ Decode(ChatFinish(dec, "tool_calls"), Staged(up, "finished"))
           \/ (\A i \in KnownTools : dec.tools[i].named)
              /\ Decode(ChatFinish(dec, "length"), LET u == Staged(up, "finished") IN IF dec.opaque THEN Lying(u) ELSE u)
     \/ up.stage = "finished" /\ Decode(ChatDone(dec), up)
     \/ up.stage # "finished" /\ up.n = 1 /\ Decode(ChatDone(dec), Lying(up))

\* Messages: one block after the other.
LastBlock == Len(dec.blocks) - 1
BlockOpen == dec.blocks # <<>> /\ ~dec.blocks[LastBlock + 1].closed
BlockPlace == <<LastBlock, 0>>
KindOf(type) == CASE type = "tool" -> "call" [] type \in {"thinking", "redacted"} -> "reasoning" [] OTHER -> type

MessagesStreams ==
  /\ Streams("messages", MESSAGES_EVENTS)
  /\ \/ ~BlockOpen /\ \E type \in {"text", "refusal", "tool", "thinking"}, toks \in {<<>>, <<Tok>>} :
          Decode(BlockStart(dec, type, toks), Saying(up, <<LastBlock + 1, 0>>, KindOf(type), toks))
     \/ ~BlockOpen /\ Decode(BlockStart(dec, "redacted", <<Tok>>), up)
     \/ /\ BlockOpen /\ dec.blocks[LastBlock + 1].type # "redacted"
        /\ LET b == dec.blocks[LastBlock + 1]
           IN IF b.whole # NoInput
              THEN ~b.saw /\ \/ Decode(BlockDelta(dec, LastBlock, b.whole), up)
                             \/ Decode(BlockDelta(dec, LastBlock, <<Tok>>), Lying(up))
              ELSE Decode(BlockDelta(dec, LastBlock, <<Tok>>), Saying(up, BlockPlace, KindOf(b.type), <<Tok>>))
     \/ /\ BlockOpen /\ dec.blocks[LastBlock + 1].type = "thinking" /\ ~dec.blocks[LastBlock + 1].signed
        /\ Decode(BlockSignature(dec, LastBlock), up)

\* A call without arguments has the input {}.
MessagesCloses ==
  /\ conv.ctx.source = "messages" /\ up.stage = "open" /\ BlockOpen
  /\ Decode(BlockStop(dec, LastBlock),
          IF dec.blocks[LastBlock + 1].type = "tool" /\ SaidAt(BlockPlace) = <<>> THEN Saying(up, BlockPlace, "call", NoInput) ELSE up)

MessagesEnds ==
  /\ conv.ctx.source = "messages"
  /\ \/ /\ up.stage = "open"
        /\ \E finish \in {"length", IF \E i \in DOMAIN dec.blocks : dec.blocks[i].type = "tool" THEN "tool_calls" ELSE "stop"} :
             ~BlockOpen /\ Decode(MessageDelta(dec, finish), Staged(up, "finished"))
     \/ up.stage = "finished" /\ Decode(MessageStop(dec), up)
     \/ up.stage = "open" /\ up.n = 1 /\ Decode(MessageStop(dec), Lying(up))

\* Responses: items are announced in order, then their events interleave.
Listed == {p[1] : p \in DOMAIN up.said}
TypeAt(i) == CHOOSE kind \in {"message", "tool", "reasoning"} : <<i, -1>> \in DOMAIN up.said /\ up.said[<<i, -1>>].kind = kind
PartsAt(i) == Cardinality({p \in DOMAIN up.said : p[1] = i /\ p[2] >= 0})
Live == Listed \ {i \in Listed : <<i, -1>> \in up.closed}
ItemOf(i, opaque, status) ==
  [type |-> TypeAt(i), opaque |-> opaque, status |-> status,
   content |-> IF TypeAt(i) # "message" THEN <<>>
               ELSE [c \in 1 .. PartsAt(i) |-> <<up.said[<<i, c - 1>>].kind, up.said[<<i, c - 1>>].text>>],
   text |-> IF TypeAt(i) = "message" THEN <<>> ELSE SaidAt(<<i, 0>>)]

ResponsesAdds ==
  /\ Streams("responses", RESPONSES_EVENTS) /\ Cardinality(Listed) < OUTPUT_ITEMS
  /\ \E type \in {"message", "tool", "reasoning"} :
       Decode(ItemAdded(dec, Cardinality(Listed),
                      [type |-> type, content |-> <<>>, text |-> <<>>, opaque |-> "", status |-> ""]),
            LET u == Saying(up, <<Cardinality(Listed), -1>>, type, <<>>)
            IN IF type = "tool" THEN Saying(u, <<Cardinality(Listed), 0>>, "call", <<>>) ELSE u)

\* A snapshot repeats what was said, perhaps with the last token.
ResponsesStreams ==
  /\ Streams("responses", RESPONSES_EVENTS)
  /\ \E i \in Live, form \in {"delta", "done", "part done"}, toks \in {<<>>, <<Tok>>} :
       LET ends == form # "delta"
           After(u, place) == IF ends THEN Closing(u, place) ELSE u
           Whole(place) == IF ends THEN SaidAt(place) \o toks ELSE toks
       IN /\ ends \/ toks # <<>>
          /\ CASE TypeAt(i) = "message" ->
                    \E c \in 0 .. PartsAt(i), kind \in {"text", "refusal"} :
                      /\ c < CONTENT_PARTS /\ <<i, c>> \notin up.closed
                      /\ <<i, c>> \in DOMAIN up.said => up.said[<<i, c>>].kind = kind
                      /\ Decode(ContentEvent(dec, i, c, kind, form, Whole(<<i, c>>)), After(Saying(up, <<i, c>>, kind, toks), <<i, c>>))
               [] TypeAt(i) = "tool" ->
                    /\ <<i, 0>> \notin up.closed /\ form # "part done" /\ Whole(<<i, 0>>) # <<>>
                    /\ Decode(ArgumentsEvent(dec, i, form, Whole(<<i, 0>>)), After(Saying(up, <<i, 0>>, "call", toks), <<i, 0>>))
               [] OTHER ->
                    /\ <<i, 0>> \notin up.closed /\ Whole(<<i, 0>>) # <<>>
                    /\ Decode(ReasoningEvent(dec, i, form, Whole(<<i, 0>>)), After(Saying(up, <<i, 0>>, "reasoning", toks), <<i, 0>>))

ResponsesCloses ==
  /\ conv.ctx.source = "responses" /\ up.stage = "open"
  /\ \E i \in Live :
       /\ TypeAt(i) = "tool" => SaidAt(<<i, 0>>) # <<>>
       /\ \E opaque \in {"", "responses"}, status \in {"", "completed"} :
            /\ TypeAt(i) = "reasoning" \/ (opaque = "" /\ status = "completed")
            /\ Decode(OutputItemDone(dec, i, ItemOf(i, opaque, status)), Closing(up, <<i, -1>>))

\* The final output repeats every item; the opaque state of a finished reasoning item
\* may be another encryption of the same, which the ledger accepts for an item that
\* is frozen: not for one that is still to be finished because it has no status.
FinalOutput(status, rotated) ==
  [n \in 1 .. Cardinality(Listed) |->
     LET i == n - 1
         opaque == IF i \in DOMAIN dec.final THEN dec.final[i].opaque ELSE ""
     IN ItemOf(i, IF opaque # "" /\ rotated THEN "responses rotated" ELSE opaque,
               IF i \in Live THEN status ELSE Get(dec.statuses, i, "completed"))]

ResponsesEnds ==
  /\ conv.ctx.source = "responses" /\ up.stage = "open"
  /\ \/ /\ \A i \in Listed : TypeAt(i) = "tool" => SaidAt(<<i, 0>>) # <<>>
        /\ \E rotated \in BOOLEAN :
             Decode(ResponseEnds(dec, "completed", "", FinalOutput("completed", rotated)),
                  LET u == Staged(up, "finished") IN IF rotated /\ dec.pending # NoItem THEN Lying(u) ELSE u)
     \/ Decode(ResponseEnds(dec, "incomplete", "length", FinalOutput("incomplete", FALSE)), Staged(up, "finished"))
     \/ Listed # {} /\ Decode(ResponseEnds(dec, "completed", "", <<>>), Lying(up))

-------------------------------------------------------------------------------
Contexts ==
  {x \in [source : {"chat", "messages", "responses"}, target : {"chat", "messages", "responses"},
          carrier : BOOLEAN, full : BOOLEAN, bound : BOOLEAN] :
     /\ x.source # x.target
     /\ x.carrier => "responses" \in {x.source, x.target}
     /\ x.full => x.carrier /\ x.target = "responses"
     /\ x.bound => x.target = "responses"}

ConversionInit ==
  \E x \in Contexts :
    /\ up = NewUpstream /\ client = NewClient
    /\ dec = (CASE x.source = "chat" -> ChatStart [] x.source = "messages" -> MessagesStart [] OTHER -> ResponsesStart)
    /\ decoded = [out |-> <<>>, bad |-> FALSE]
    /\ conv = [ctx |-> x, led |-> LedgerStart, em |-> EmitterStart(x.target), out |-> <<>>,
               started |-> FALSE, bad |-> FALSE, ended |-> ""]

ConversionNext ==
  /\ \/ ChatStreams \/ ChatRepeats \/ ChatEnds
     \/ MessagesStreams \/ MessagesCloses \/ MessagesEnds
     \/ ResponsesAdds \/ ResponsesStreams \/ ResponsesCloses \/ ResponsesEnds
  /\ Write(Each(conv, decoded'.out, ConvertEvent))

ConversionSpec == ConversionInit /\ [][ConversionNext]_conversionVars

-------------------------------------------------------------------------------
\* What the client reads is a legal stream of its protocol at every moment: blocks,
\* items and parts are opened, filled and closed once, at indexes without gaps,
\* nothing follows the end, and every snapshot repeats what was streamed.
ClientAccepts == client.ok /\ (client.stage = "done") = (conv.ended # "")

Places == SetToSortSeq({p \in DOMAIN up.said : p[2] >= 0}, LAMBDA a, b : a[1] < b[1] \/ (a[1] = b[1] /\ a[2] < b[2]))
PlacesOf(kind) == SelectSeq(Places, LAMBDA p : up.said[p].kind = kind)
Meant(kind) == Concat(Len(PlacesOf(kind)), LAMBDA n : up.said[PlacesOf(kind)[n]].text)
ToksOf(kind) == {Meant(kind)[n] : n \in DOMAIN Meant(kind)}
Understood(kind) ==
  IF To(conv, "messages") THEN SelectSeq(client.text, LAMBDA t : t \in ToksOf(kind)) ELSE client[kind]
Calls == LET S == {i \in Entries(client) : client.items[i].kind = "tool"}
             seq == SetToSortSeq(S, <)
         IN [n \in DOMAIN seq |-> client.items[seq[n]].said[1]]
Kinds == {"text", "refusal"} \cup (IF To(conv, "messages") THEN {} ELSE {"reasoning"})

\* Whatever order the upstream's items arrive in, the client reads every kind of
\* content, and the arguments of every call, as a prefix of what the upstream said
\* in the order of its output; once the stream has ended it has read all of it.
NothingLostOrMoved ==
  /\ \A kind \in Kinds : /\ IsPrefix(Understood(kind), Meant(kind))
                         /\ conv.ended # "" => Understood(kind) = Meant(kind)
  /\ \A n \in DOMAIN Calls : n <= Len(PlacesOf("call")) /\ IsPrefix(Calls[n], up.said[PlacesOf("call")[n]].text)
  /\ conv.ended # "" => /\ Len(Calls) = Len(PlacesOf("call"))
                        /\ \A n \in DOMAIN Calls : Calls[n] = up.said[PlacesOf("call")[n]].text

\* A Responses client is told that a call is finished only after a checkpoint that
\* holds the call: it may answer at once, and the answer must find the call.
CallsAreCheckpointed == ~client.early

\* The converter gives up only on an upstream that has contradicted itself, or when
\* there is no room for a reasoning carrier.
LegalStreamsAreServed == conv.bad => ~up.honest \/ conv.ctx.full

===============================================================================
