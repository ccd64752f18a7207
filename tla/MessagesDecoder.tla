---------------------------- MODULE MessagesDecoder ----------------------------
(***************************************************************************)
(* decodeMessagesStream of protocols/conversion/stream_decoders.ts: the    *)
(* blocks of an Anthropic Messages stream.  ping, citations, malformed     *)
(* payloads and the byte budget are the event "malformed" or nothing.      *)
(***************************************************************************)
EXTENDS SemanticEvents

\* blocks: by index in order of arrival; pending: reasoning that waits to be done.
MessagesStart == [blocks |-> <<>>, finish |-> "", pending |-> <<>>]

BlockKey(type, index) == <<type, index>>
Keyed(type, index) == BlockKey(IF type \in {"thinking", "redacted"} THEN "reasoning" ELSE type, index)

\* The serialised input "{}" of a tool that streams its arguments or has none.
NoInput == <<0>>
NewBlock(type) ==
  [type |-> type, closed |-> FALSE, saw |-> FALSE, whole |-> NoInput, buffered |-> <<>>, signed |-> FALSE]

PendingDone(d, status) ==
  Yields([d EXCEPT !.pending = <<>>],
         [i \in DOMAIN d.pending |-> ReasoningDone(d.pending[i], status)])

SayIn(type, k, toks) ==
  CASE type = "text" -> <<TextDelta(k, k, toks)>>
    [] type = "refusal" -> <<RefusalDelta(k, k, toks)>>
    [] type = "tool" -> <<ToolArguments(k, toks)>>
    [] OTHER -> <<ReasoningDelta(k, toks)>>

\* content_block_start, with the text, input or data that comes with it.
BlockStart(d, type, toks) ==
  LET index == Len(d.blocks)
      k == Keyed(type, index)
      block == [NewBlock(type) EXCEPT !.saw = type # "tool" /\ toks # <<>>,
                                      !.whole = IF type = "tool" /\ toks # <<>> THEN toks ELSE NoInput]
      out == CASE type = "tool" -> <<ToolStart(k)>>
               [] type = "redacted" -> IF toks = <<>> THEN <<>> ELSE <<ReasoningStart(k, "messages"), Progress>>
               [] OTHER -> IF toks = <<>> THEN <<>> ELSE SayIn(type, k, toks)
  IN Then(PendingDone(d, "completed"), LAMBDA e : Yields([e EXCEPT !.blocks = Append(@, block)], out))

\* content_block_delta.  Arguments after a whole input only repeat it: they are kept
\* for comparison.
BlockDelta(d, index, toks) ==
  LET block == d.blocks[index + 1]
      seen == [d EXCEPT !.blocks[index + 1].saw = @ \/ toks # <<>>]
  IN IF block.closed \/ block.type = "redacted" THEN Throws(d, <<>>)
     ELSE IF block.type = "tool" /\ toks = <<>> THEN Yields(d, <<>>)
     ELSE IF block.type = "tool" /\ block.whole # NoInput
     THEN Yields([seen EXCEPT !.blocks[index + 1].buffered = @ \o toks], <<>>)
     ELSE Yields(seen, SayIn(block.type, Keyed(block.type, index), toks))

\* content_block_delta with a signature_delta
BlockSignature(d, index) ==
  IF d.blocks[index + 1].closed \/ d.blocks[index + 1].type # "thinking" THEN Throws(d, <<>>)
  ELSE Yields([d EXCEPT !.blocks[index + 1].signed = TRUE], <<Progress>>)

\* content_block_stop
BlockStop(d, index) ==
  LET block == d.blocks[index + 1]
      k == Keyed(block.type, index)
      closed == [d EXCEPT !.blocks[index + 1].closed = TRUE]
      waits == [closed EXCEPT !.pending = Append(@, k)]
      content(done) == Yields(closed, (IF block.saw THEN <<>> ELSE <<done>>) \o <<ContentDone(k, k)>>)
  IN CASE block.closed -> Throws(d, <<>>)
       [] ~block.closed /\ block.type = "tool" ->
            IF block.saw /\ block.whole # NoInput /\ block.whole # block.buffered THEN Throws(closed, <<>>)
            ELSE Yields(closed, IF block.whole # NoInput \/ ~block.saw THEN <<ToolArguments(k, block.whole)>> ELSE <<>>)
       [] ~block.closed /\ block.type = "text" -> content(TextDone(k, k, <<>>))
       [] ~block.closed /\ block.type = "refusal" -> content(RefusalDone(k, k, <<>>))
       [] ~block.closed /\ block.type = "thinking" ->
            IF block.signed THEN Yields(waits, <<ReasoningStart(k, "messages")>>)
            ELSE Yields(IF block.saw THEN waits ELSE closed, <<>>)
       [] OTHER -> Yields(waits, <<>>)

\* message_delta with a stop reason
MessageDelta(d, finish) ==
  IF d.finish \notin {"", finish} THEN Throws(d, <<>>) ELSE Yields([d EXCEPT !.finish = finish], <<Usage>>)

\* message_stop
MessageStop(d) ==
  LET status == StatusOf(d.finish)
      tools == SelectSeq([i \in DOMAIN d.blocks |-> <<d.blocks[i].type, i - 1>>], LAMBDA b : b[1] = "tool")
  IN IF d.finish = "" \/ \E i \in DOMAIN d.blocks : ~d.blocks[i].closed THEN Throws(d, <<>>)
     ELSE Then(Yields(d, [i \in DOMAIN tools |-> ToolDone(tools[i], status)]), LAMBDA e :
          Then(PendingDone(e, status), LAMBDA f : Yields(f, <<Terminal(d.finish, status)>>)))

================================================================================
