------------------------------ MODULE ChatDecoder ------------------------------
(***************************************************************************)
(* decodeChatStream of protocols/conversion/stream_decoders.ts.            *)
(*                                                                         *)
(* A chunk carries one thing: the code looks at reasoning, content,        *)
(* refusal, tool calls, final message and finish in this order, so a chunk *)
(* with several acts as several chunks in a row.  Malformed JSON, members  *)
(* of the wrong type, contradicting ids and names and an exhausted budget  *)
(* all throw the same failure: the event "malformed".                      *)
(***************************************************************************)
EXTENDS SemanticEvents

CONSTANT ChatTools      \* the tool indexes are 0 .. ChatTools-1

ChatToolIndexes == 0 .. ChatTools - 1
NoTool == [known |-> FALSE, named |-> FALSE, args |-> <<>>, seen |-> FALSE,
           started |-> FALSE, done |-> FALSE]

\* The closure variables of decodeChatStream.
ChatStart ==
  [tools |-> [i \in ChatToolIndexes |-> NoTool], nextTool |-> 0, finish |-> "",
   text |-> <<>>, refusal |-> <<>>, reasoning |-> <<>>, open |-> FALSE, closed |-> FALSE,
   opaque |-> FALSE, blocks |-> 0, pending |-> <<>>, toolSeen |-> FALSE, post |-> <<>>]

Generic == <<"generic">>
Block(i) == <<"block", i>>
ChatTool(i) == <<"tool", i>>
\* Text after the tool calls belongs to a second message.
ChatMessage(d) == <<"message", IF d.toolSeen THEN 1 ELSE 0>>

\* reasoningClosed, or output has begun: no more reasoning.
ReasoningOver(d) == d.closed \/ d.text # <<>> \/ d.refusal # <<>> \/ d.toolSeen

\* closeReasoning(): the opaque value is never forgotten, so an item that has one
\* is finished again each time.
CloseReasoning(d, status) ==
  LET generic == IF d.open \/ d.opaque
                 THEN <<ReasoningStart(Generic, IF d.opaque THEN "chat opaque" ELSE "chat"), ReasoningDone(Generic, status)>>
                 ELSE <<>>
      out == generic \o [i \in 1..Len(d.pending) |-> ReasoningDone(d.pending[i], status)]
  IN Yields([d EXCEPT !.open = FALSE, !.pending = <<>>, !.closed = @ \/ out # <<>>], out)

Completing(d) == CloseReasoning(d, "completed")

\* A content or refusal event goes out, or waits until the tools are done.
Say(d, event) ==
  IF d.toolSeen THEN Yields([d EXCEPT !.post = Append(@, event)], <<>>)
  ELSE Yields(d, <<event>>)

FlushPost(d) == Yields([d EXCEPT !.post = <<>>], d.post)

\* startReadyTools(): in the order of their indexes, as soon as they have an
\* identity and arguments.
Ready(d, i) == i \in ChatToolIndexes /\ LET t == d.tools[i]
                                        IN ~t.started /\ t.seen /\ t.named
ReadyTools(d) ==
  {i \in ChatToolIndexes : i >= d.nextTool /\ \A k \in d.nextTool .. i : Ready(d, k)}

StartOf(d, i) ==
  <<ToolStart(ChatTool(i))>>
    \o (IF d.tools[i].args = <<>> THEN <<>> ELSE <<ToolArguments(ChatTool(i), d.tools[i].args)>>)

Started(d, S) ==
  [d EXCEPT !.tools = [i \in ChatToolIndexes |->
     IF i \in S THEN [@[i] EXCEPT !.started = TRUE, !.args = <<>>] ELSE @[i]]]

InOrder(S, f(_)) ==
  FoldLeft(LAMBDA acc, i : acc \o f(i), <<>>, SetToSortSeq(S, <))

StartReadyTools(d) ==
  LET S == ReadyTools(d)
  IN Yields([Started(d, S) EXCEPT !.nextTool = @ + Cardinality(S)],
            InOrder(S, LAMBDA i : StartOf(d, i)))

\* startIdentifiedTools(): a truncated answer starts whatever has an identity.
StartIdentifiedTools(d) ==
  LET S == {i \in ChatToolIndexes : d.tools[i].known /\ ~d.tools[i].started}
      named == {i \in S : \A k \in S : k <= i => d.tools[k].named}
      out == InOrder(named, LAMBDA i : StartOf(d, i))
  IN IF named = S THEN Yields(Started(d, S), out) ELSE Throws(d, out)

\* delta.reasoning_content
ChatReasoningDelta(d, tok) ==
  IF ReasoningOver(d) THEN Throws(d, <<>>)
  ELSE Yields([d EXCEPT !.reasoning = Append(@, tok), !.open = TRUE],
              <<ReasoningDelta(Generic, <<tok>>)>>)

\* delta.reasoning_opaque
ChatOpaqueDelta(d) == Yields([d EXCEPT !.opaque = TRUE], <<>>)

\* delta.thinking_blocks with one more block, signed or redacted.
ChatThinkingBlock(d) ==
  IF ReasoningOver(d) THEN Throws(d, <<>>)
  ELSE Yields([d EXCEPT !.blocks = @ + 1, !.pending = Append(@, Block(d.blocks))],
              <<ReasoningStart(Block(d.blocks), "thinking"), Progress>>)

\* delta.content and delta.refusal
ChatContentDelta(d, tok) ==
  Then(Completing(d), LAMBDA c :
    Say([c EXCEPT !.text = Append(@, tok)], TextDelta(ChatMessage(c), ChatMessage(c), <<tok>>)))

ChatRefusalDelta(d, tok) ==
  Then(Completing(d), LAMBDA c :
    Say([c EXCEPT !.refusal = Append(@, tok)], RefusalDelta(ChatMessage(c), ChatMessage(c), <<tok>>)))

\* delta.tool_calls with one fragment: perhaps identity, perhaps arguments.
ChatToolDelta(d, i, named, toks) ==
  Then(Completing(d), LAMBDA c :
    LET t == [c.tools[i] EXCEPT !.known = TRUE, !.named = @ \/ named,
                                !.seen = @ \/ toks # <<>>, !.args = @ \o toks]
        sends == t.started /\ toks # <<>>
        stored == [c EXCEPT !.tools[i] = IF sends THEN [t EXCEPT !.args = <<>>] ELSE t]
    IN Then(Yields(stored, IF sends THEN <<ToolArguments(ChatTool(i), t.args)>> ELSE <<>>),
            LAMBDA s : Then(StartReadyTools(s),
                            LAMBDA u : Yields([u EXCEPT !.toolSeen = TRUE], <<>>))))

\* choice.message: the whole answer again, perhaps with one more token of text, or
\* without the text that was streamed.  full gives each tool's whole arguments.
ChatFinalMessage(d, more, kept, full) ==
  LET known == {i \in ChatToolIndexes : d.tools[i].known}
      listed == DOMAIN full
      withText == IF more = <<>> THEN Yields(d, <<>>)
                  ELSE Then(Completing(d), LAMBDA c :
                         Say([c EXCEPT !.text = @ \o more],
                             TextDelta(ChatMessage(c), ChatMessage(c), more)))
      adopt(c) == [c EXCEPT !.tools = [i \in ChatToolIndexes |->
                     IF i \in listed THEN [@[i] EXCEPT !.known = TRUE, !.named = TRUE, !.seen = TRUE]
                     ELSE @[i]]]
      finishTools(c) ==
        LET ok == {i \in listed : c.tools[i].started}
            out == InOrder(listed, LAMBDA i : <<ToolSnapshot(ChatTool(i), full[i], "")>>)
        IN IF ok = listed
           THEN Yields([c EXCEPT !.tools = [i \in ChatToolIndexes |->
                          IF i \in listed THEN [@[i] EXCEPT !.done = TRUE] ELSE @[i]]], out)
           ELSE Throws(c, InOrder({i \in listed : \A k \in listed : k <= i => k \in ok},
                                  LAMBDA i : <<ToolSnapshot(ChatTool(i), full[i], "")>>))
  IN CASE ~kept -> Throws(d, <<>>)
       [] kept /\ listed = {} /\ known # {} -> Throws(withText.d, withText.out)
       [] kept /\ listed = {} /\ known = {} -> withText
       [] OTHER -> Then(withText, LAMBDA c : Then(Completing(c), LAMBDA e :
                     IF known \subseteq listed
                     THEN Then(StartReadyTools(adopt(e)), LAMBDA s : finishTools(s))
                     ELSE Throws(e, <<>>)))

\* choice.finish_reason
ChatFinish(d, finish) ==
  IF \/ d.finish \notin {"", finish}
     \/ finish = "tool_calls" /\ \A i \in ChatToolIndexes : ~d.tools[i].known
  THEN Throws(d, <<>>)
  ELSE LET f == [d EXCEPT !.finish = finish]
       IN Then(IF finish \in Truncating THEN StartIdentifiedTools(f) ELSE StartReadyTools(f),
               LAMBDA s : FlushPost(s))

\* [DONE]
ChatDone(d) ==
  LET cut == d.finish \in Truncating
      open(c) == {i \in ChatToolIndexes : c.tools[i].known /\ ~c.tools[i].done}
      endTools(c) ==
        IF cut THEN Yields(c, <<>>)
        ELSE LET ready == {i \in open(c) : \A k \in ChatToolIndexes :
                             k <= i /\ c.tools[k].known => c.tools[k].started}
                 out == InOrder(ready, LAMBDA i : <<ToolDone(ChatTool(i), "completed")>>)
             IN IF ready = open(c) THEN Yields(c, out) ELSE Throws(c, out)
      finish == IF d.refusal # <<>> /\ d.finish = "stop" THEN "refusal" ELSE d.finish
  IN IF d.finish = "" THEN Throws(d, <<>>)
     ELSE Then(IF cut THEN StartIdentifiedTools(d) ELSE Yields(d, <<>>), LAMBDA s :
          Then(CloseReasoning(s, IF cut THEN "incomplete" ELSE "completed"), LAMBDA c :
          Then(endTools(c), LAMBDA e :
          Then(FlushPost(e), LAMBDA f : Yields(f, <<Terminal(finish, StatusOf(finish))>>)))))

================================================================================
