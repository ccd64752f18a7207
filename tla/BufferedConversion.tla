------------------------- MODULE BufferedConversion -------------------------
(***************************************************************************)
(* A whole answer of one protocol turned into an answer of another          *)
(* (protocols/conversion/buffered.ts): decoded into reasoning, messages and *)
(* calls, and written as the envelope the client expects, with reasoning    *)
(* carriers for what the client must send back, and the checkpoint of a     *)
(* Responses answer.  An upstream answer grows block by block and is then   *)
(* converted in one step; text is a sequence of tokens, and opaque state is *)
(* named by the block that holds it.                                        *)
(***************************************************************************)
EXTENDS Integers, Sequences, FiniteSets, SequencesExt

CONSTANTS CallIds, MAX_BLOCKS   \* bound: blocks of an answer

WireProtocols == {"chat", "messages", "responses"}

VARIABLES received,   \* the upstream's answer: protocol, blocks
          answer      \* what the conversion made of it

bufferedVars == <<received, answer>>

NotConverted == [at |-> "open"]

(***************************************************************************)
(* Upstream answers.  A block has a kind, a text, an opaque state (0: none) *)
(* or a call; a Responses item has a status of its own, and `joined` says   *)
(* that a part belongs to the message before it.                            *)
(***************************************************************************)
Block(kind, value, state, call, whole, status, joined) ==
    [kind |-> kind, value |-> value, state |-> state, call |-> call, whole |-> whole, status |-> status, joined |-> joined]

\* The parts of a Chat message are members of one object: their order is fixed.
ChatRank == [reasoning |-> 1, thinking |-> 2, redacted |-> 2, text |-> 3, refusal |-> 4, call |-> 5]

Follows(source, blocks, b) ==
    IF source = "chat"
    THEN /\ \A i \in DOMAIN blocks : ChatRank[blocks[i].kind] <= ChatRank[b.kind]
         /\ b.kind \in {"reasoning", "text", "refusal"} => \A i \in DOMAIN blocks : blocks[i].kind # b.kind
         /\ b.status = "none" /\ ~b.joined
    ELSE /\ b.kind # "reasoning"
         /\ source = "messages" => b.status = "none" /\ ~b.joined
         /\ source = "responses" => b.kind # "redacted"
         /\ b.joined => blocks # <<>> /\ Last(blocks).kind \in {"text", "refusal"} /\ b.status = Last(blocks).status

AddBlock ==
    /\ answer = NotConverted /\ Len(received.blocks) < MAX_BLOCKS
    /\ LET n == Len(received.blocks) + 1
       IN \E kind \in DOMAIN ChatRank, empty, opaque, whole, joined \in BOOLEAN,
             call \in CallIds, status \in {"none", "completed", "incomplete"} :
              LET b == Block(kind, IF empty \/ kind \in {"call", "redacted"} THEN <<>> ELSE <<n>>, IF opaque THEN n ELSE 0,
                             IF kind = "call" THEN call ELSE "none", whole, status, joined)
              IN /\ kind \in {"text", "refusal"} => ~empty /\ ~opaque
                 /\ kind = "call" => ~empty /\ ~opaque
                 /\ kind # "call" => whole /\ status # "completed"   \* only a call's arguments tell it from none
                 /\ kind \notin {"text", "refusal"} => ~joined
                 /\ Follows(received.source, received.blocks, b)
                 /\ received' = [received EXCEPT !.blocks = Append(@, b)]
    /\ UNCHANGED answer

(***************************************************************************)
(* Decoding. Rejected is the refusal; an item is what the conversion is    *)
(* about: reasoning with the parts shown, the state to carry and, from a    *)
(* Chat message, a Messages block to pass on; a message; or a call.         *)
(***************************************************************************)
Item(type, content, opaque, state, block, call, whole) ==
    [type |-> type, content |-> content, opaque |-> opaque, state |-> state, block |-> block, call |-> call, whole |-> whole]

Thinking(parts, opaque, state) == Item("reasoning", parts, opaque, state, "none", "none", TRUE)

MessageItem(parts) == Item("message", parts, "none", 0, "none", "none", TRUE)

CallItem(b) == Item("call", <<>>, "none", 0, "none", b.call, b.whole)

Part(b) == [kind |-> b.kind, value |-> b.value]

Decoded(items, status, finish) == [ok |-> TRUE, items |-> items, status |-> status, finish |-> finish]

Rejected == [ok |-> FALSE, items |-> <<>>, status |-> "none", finish |-> "none"]

Of(blocks, kinds) == SelectSeq(blocks, LAMBDA b : b.kind \in kinds)

Text(blocks) == FoldLeft(LAMBDA said, b : said \o b.value, <<>>, blocks)

Ended(finish) == IF finish \in {"length", "content_filter", "refusal"} THEN "incomplete" ELSE "completed"

\* The scalar reasoning and the thinking blocks may both tell the story, if one begins the other.
Presentation(scalar, thinking) == IF IsPrefix(scalar, thinking) THEN thinking ELSE scalar

Compatible(scalar, thinking) == IsPrefix(scalar, thinking) \/ IsPrefix(thinking, scalar)

\* Signed or redacted blocks are kept whole, for a Messages client.
KeptBlocks(blocks) ==
    LET kept == SelectSeq(blocks, LAMBDA b : b.kind \in {"thinking", "redacted"} /\ b.state # 0)
    IN [i \in DOMAIN kept |-> Item("reasoning", <<>>, "none", kept[i].state, kept[i].kind, "none", TRUE)]

DecodeChat(blocks, finish) ==
    LET scalar == Of(blocks, {"reasoning"})
        thinking == Text(Of(blocks, {"thinking"}))
        shown == Presentation(Text(scalar), thinking)
        parts == [i \in DOMAIN Of(blocks, {"text", "refusal"}) |-> Part(Of(blocks, {"text", "refusal"})[i])]
        calls == Of(blocks, {"call"})
        reasoning == IF shown # <<>> \/ scalar # <<>>
                     THEN <<Thinking(<<[kind |-> "text", value |-> shown]>>,
                                      IF scalar = <<>> THEN "none" ELSE "chat_state", IF scalar = <<>> THEN 0 ELSE 1)>>
                     ELSE <<>>
        reason == IF Of(blocks, {"refusal"}) # <<>> /\ finish = "stop" THEN "refusal" ELSE finish
    IN IF \/ ~Compatible(Text(scalar), thinking)
          \/ finish \in {"stop", "tool_calls"} /\ \E i \in DOMAIN calls : ~calls[i].whole
          \/ finish = "tool_calls" /\ calls = <<>>
       THEN Rejected
       ELSE Decoded(reasoning \o KeptBlocks(blocks) \o (IF parts = <<>> THEN <<>> ELSE <<MessageItem(parts)>>)
                        \o [i \in DOMAIN calls |-> CallItem(calls[i])], Ended(reason), reason)

Flush(d) == IF d.open = <<>> THEN d ELSE [items |-> Append(d.items, MessageItem(d.open)), open |-> <<>>]

\* Defect: the open text is not flushed before a call.
DecodeBlock_NoFlush(d, b) ==
    IF b.kind \in {"text", "refusal"} THEN [d EXCEPT !.open = Append(@, Part(b))]
    ELSE IF b.kind = "call" THEN [d EXCEPT !.items = Append(@, CallItem(b))]
    ELSE LET before == IF b.kind = "redacted" THEN d ELSE Flush(d)
         IN IF b.value = <<>> /\ b.state = 0 THEN before
            ELSE [before EXCEPT !.items = Append(@, Thinking(
                     IF b.value = <<>> THEN <<>> ELSE <<[kind |-> "text", value |-> b.value]>>,
                     IF b.state = 0 THEN "none" ELSE "messages_block", b.state))]

\* One Messages block: text gathers into a message until a call or a thinking block ends it.  A
\* redacted block does not.
DecodeBlock(d, b) ==
    IF b.kind \in {"text", "refusal"} THEN [d EXCEPT !.open = Append(@, Part(b))]
    ELSE IF b.kind = "call" THEN [Flush(d) EXCEPT !.items = Append(@, CallItem(b))]
    ELSE LET before == IF b.kind = "redacted" THEN d ELSE Flush(d)
         IN IF b.value = <<>> /\ b.state = 0 THEN before
            ELSE [before EXCEPT !.items = Append(@, Thinking(
                     IF b.value = <<>> THEN <<>> ELSE <<[kind |-> "text", value |-> b.value]>>,
                     IF b.state = 0 THEN "none" ELSE "messages_block", b.state))]

\* A refused answer is a refusal throughout.
Refusing(items) ==
    [i \in DOMAIN items |-> IF items[i].type = "message"
                            THEN [items[i] EXCEPT !.content = [j \in DOMAIN @ |-> [@[j] EXCEPT !.kind = "refusal"]]]
                            ELSE items[i]]

DecodeMessages(blocks, finish) ==
    LET items == Flush(FoldLeft(LAMBDA d, b : DecodeBlock(d, b), [items |-> <<>>, open |-> <<>>], blocks)).items
    IN Decoded(IF finish = "refusal" THEN Refusing(items) ELSE items, Ended(finish), finish)

\* One Responses item, or the next part of a message.
DecodeItem(items, b) ==
    IF b.kind \in {"text", "refusal"}
    THEN IF b.joined THEN [items EXCEPT ![Len(items)].content = Append(@, Part(b))]
         ELSE Append(items, MessageItem(<<Part(b)>>))
    ELSE IF b.kind = "call" THEN Append(items, CallItem(b))
    ELSE IF b.value = <<>> /\ b.state = 0 THEN items
    ELSE Append(items, Thinking(<<[kind |-> "text", value |-> b.value]>>,
                                 IF b.state = 0 THEN "none" ELSE "responses_item", b.state))

BadItem(b, status) ==
    \/ status = "completed" /\ b.status = "incomplete"
    \/ b.kind = "call" /\ ~b.whole /\ (b.status = "completed" \/ (b.status = "none" /\ status = "completed"))

DecodeResponses(blocks, finish) ==
    LET status == IF finish \in {"length", "content_filter"} THEN "incomplete" ELSE "completed"
        items == FoldLeft(LAMBDA d, b : DecodeItem(d, b), <<>>, blocks)
        refused == \E i \in DOMAIN items : items[i].type = "message" /\ \E p \in Range(items[i].content) : p.kind = "refusal"
    IN IF finish = "failed" \/ \E i \in DOMAIN blocks : BadItem(blocks[i], status) THEN Rejected
       ELSE Decoded(items, status,
                    IF status = "incomplete" THEN finish
                    ELSE IF \E i \in DOMAIN items : items[i].type = "call" THEN "tool_calls"
                    ELSE IF refused THEN "refusal" ELSE "stop")

Finishes == [chat |-> {"stop", "tool_calls", "length", "content_filter"},
             messages |-> {"stop", "tool_calls", "length", "refusal"},
             responses |-> {"completed", "failed", "length", "content_filter"}]

DecodeBuffered(source, blocks, finish) ==
    IF source = "chat" THEN DecodeChat(blocks, finish)
    ELSE IF source = "messages" THEN DecodeMessages(blocks, finish) ELSE DecodeResponses(blocks, finish)

UniqueCallIds(items) ==
    \A i, j \in DOMAIN items : (items[i].type = "call" /\ items[j].type = "call" /\ items[i].call = items[j].call) => i = j

(***************************************************************************)
(* The envelopes: the client's blocks in order.  `token` names the state a  *)
(* carrier stands for; `state` is opaque state shown as it is.              *)
(***************************************************************************)
Out(kind, value, token, call) == [kind |-> kind, value |-> value, token |-> token, call |-> call]

Shown(item) == FoldLeft(LAMBDA said, p : said \o p.value, <<>>, item.content)

Flat(sequences) == FoldLeft(LAMBDA done, s : done \o s, <<>>, sequences)

\* Carriers are made only for a completed answer that calls: nothing else is sent back.
OutputCarrier(decoded, target, source) ==
    /\ "responses" \in {target, source}
    /\ decoded.status = "completed"
    /\ \E i \in DOMAIN decoded.items : decoded.items[i].type = "call"

\* Chat has one place for each kind; reasoning after anything else has none.
ChatAccepts(items) ==
    \A i, j \in DOMAIN items : (items[i].type = "reasoning" /\ items[j].type # "reasoning") => i < j

PartsOfKind(items, kind) ==
    Flat([i \in DOMAIN items |-> IF items[i].type # "message" THEN <<>>
                                 ELSE Flat([j \in DOMAIN items[i].content |->
                                     IF items[i].content[j].kind = kind THEN items[i].content[j].value ELSE <<>>])])

ChatEnvelope(items, carried) ==
    LET reasoning == SelectSeq(items, LAMBDA i : i.type = "reasoning")
        carriers == SelectSeq(reasoning, LAMBDA i : carried /\ i.opaque = "responses_item")
        calls == SelectSeq(items, LAMBDA i : i.type = "call")
        one(kind, value) == IF value = <<>> THEN <<>> ELSE <<Out(kind, value, 0, "none")>>
    IN one("reasoning", Flat([i \in DOMAIN reasoning |-> Shown(reasoning[i])]))
       \o [i \in DOMAIN carriers |-> Out("carrier", <<>>, carriers[i].state, "none")]
       \o one("text", PartsOfKind(items, "text")) \o one("refusal", PartsOfKind(items, "refusal"))
       \o [i \in DOMAIN calls |-> Out("call", <<>>, 0, calls[i].call)]

MessagesBlocks(item, carried) ==
    IF item.type = "message" THEN [j \in DOMAIN item.content |-> Out("text", item.content[j].value, 0, "none")]
    ELSE IF item.type = "call" THEN <<Out("call", <<>>, 0, item.call)>>
    ELSE IF carried /\ item.opaque = "responses_item" THEN <<Out("carrier", Shown(item), item.state, "none")>>
    ELSE IF item.block # "none" THEN <<Out(item.block, <<>>, 0, "none")>> ELSE <<>>

\* A call whose arguments are not an object cannot be written as a block.
MessagesAccepts(items) == \A i \in DOMAIN items : items[i].whole

ResponsesItems(item, carried) ==
    IF item.type = "message"
    THEN <<Out("message", Shown(item), 0, "none")>>
    ELSE IF item.type = "call" THEN <<Out("call", <<>>, 0, item.call)>>
    ELSE IF item.content = <<>> /\ item.opaque = "none" THEN <<>>
    ELSE <<Out("reasoning", Shown(item), IF carried THEN item.state ELSE 0, "none")>>

Envelope(target, items, carried) ==
    IF target = "chat" THEN ChatEnvelope(items, carried)
    ELSE IF target = "messages" THEN Flat([i \in DOMAIN items |-> MessagesBlocks(items[i], carried)])
    ELSE Flat([i \in DOMAIN items |-> ResponsesItems(items[i], carried)])

TargetFinish(target, finish) ==
    IF target = "chat" THEN IF finish = "refusal" THEN "content_filter" ELSE finish
    ELSE IF target = "messages" THEN IF finish = "content_filter" THEN "refusal" ELSE finish
    ELSE IF finish = "refusal" THEN "content_filter" ELSE finish

\* createCarrier and the tokens it reports.
Created(output) == SelectSeq([i \in DOMAIN output |-> output[i].token], LAMBDA t : t # 0)

Checkpoint(decoded, output) ==
    [state |-> IF decoded.status = "completed" THEN "complete" ELSE "route_only",
     output |-> IF decoded.status = "completed" THEN output ELSE <<>>, tokens |-> Created(output)]

(***************************************************************************)
(* Usage: what the upstream counts, and how the client is told.             *)
(***************************************************************************)
Counts == {[input |-> 3, read |-> r, write |-> 1 - r, output |-> 2, reasoning |-> 1, detailed |-> d] :
              r \in {0, 1}, d \in BOOLEAN}

\* Messages counts cached input apart, and Chat may count reasoning apart from the output.
DecodeUsage(source, c) ==
    [input |-> IF source = "messages" THEN c.input + c.read + c.write ELSE c.input,
     output |-> IF source = "chat" /\ ~c.detailed THEN c.output + c.reasoning ELSE c.output,
     read |-> c.read, write |-> c.write, reasoning |-> c.reasoning]

EncodeUsage(target, u) ==
    [input |-> IF target # "messages" THEN u.input
               ELSE IF u.read + u.write > u.input THEN 0 ELSE u.input - u.read - u.write,
     output |-> u.output, read |-> u.read, write |-> u.write, reasoning |-> u.reasoning, detailed |-> TRUE]

Convert(target, finish, counts) ==
    /\ answer = NotConverted /\ target # received.source
    /\ LET decoded == DecodeBuffered(received.source, received.blocks, finish)
           carried == OutputCarrier(decoded, target, received.source)
           output == Envelope(target, decoded.items, carried)
           accepted == /\ decoded.ok /\ UniqueCallIds(decoded.items)
                       /\ target = "chat" => ChatAccepts(decoded.items)
                       /\ target = "messages" => MessagesAccepts(decoded.items)
       IN answer' = IF ~accepted THEN [at |-> "refused", finish |-> finish]
                    ELSE [at |-> "given", target |-> target, output |-> output, status |-> decoded.status,
                          finish |-> TargetFinish(target, decoded.finish), created |-> Created(output),
                          checkpoint |-> Checkpoint(decoded, output), counted |-> DecodeUsage(received.source, counts),
                          usage |-> EncodeUsage(target, DecodeUsage(received.source, counts))]
    /\ UNCHANGED received

BufferedInit == received \in {[source |-> p, blocks |-> <<>>] : p \in WireProtocols} /\ answer = NotConverted

BufferedNext ==
    \/ AddBlock
    \/ \E target \in WireProtocols, finish \in Finishes[received.source], counts \in Counts : Convert(target, finish, counts)

(***************************************************************************)
(* Properties.                                                             *)
(***************************************************************************)
Said(output) == Flat([i \in DOMAIN output |-> IF output[i].kind \in {"text", "refusal", "message"} THEN output[i].value
                                              ELSE IF output[i].kind = "call" THEN <<output[i].call>> ELSE <<>>])

MeantBy(kinds) == Flat([i \in DOMAIN received.blocks |->
                      LET b == received.blocks[i]
                      IN IF b.kind \notin kinds THEN <<>> ELSE IF b.kind = "call" THEN <<b.call>> ELSE b.value])

Meant == MeantBy({"text", "refusal", "call"})

Words(s) == SelectSeq(s, LAMBDA x : x \notin CallIds)
CallsOf(s) == SelectSeq(s, LAMBDA x : x \in CallIds)

\* Every text, refusal and call of an accepted answer reaches the client once and in order; a Chat
\* client, whose message has one place for each, gets each kind in order.  The token counts the
\* client reads from its own protocol are those the upstream reported (buffered.ts 603-809, 878-972).
ContentIsKept ==
    answer.at = "given" =>
        /\ IF answer.target = "chat"
           THEN /\ CallsOf(Said(answer.output)) = CallsOf(Meant)
                /\ Words(Said(answer.output)) \in {MeantBy({"text"}) \o MeantBy({"refusal"}), MeantBy({"text", "refusal"})}
           ELSE Said(answer.output) = Meant
        /\ DecodeUsage(answer.target, answer.usage) = answer.counted

\* The states carried before each call, in order: what a client that answers the call sends back.
CarriedIn(output) == Flat([i \in DOMAIN output |-> IF output[i].token # 0 THEN <<output[i].token>>
                                                   ELSE IF output[i].kind = "call" THEN <<output[i].call>> ELSE <<>>])

CarriedBy(blocks) == Flat([i \in DOMAIN blocks |-> IF blocks[i].kind = "call" THEN <<blocks[i].call>>
                                                   ELSE IF blocks[i].kind = "reasoning" THEN <<1>>
                                                   ELSE IF blocks[i].state # 0 THEN <<blocks[i].state>> ELSE <<>>])

\* An answer that may be continued carries the upstream's opaque reasoning state, all of it and in
\* front of the same calls; the carriers made are exactly those the client was given, none is made
\* for an answer nobody can continue, and the checkpoint names them and is complete only then
\* (buffered.ts 106-138, 822-876).
StateIsCarried ==
    answer.at = "given" =>
        /\ answer.created # <<>> => answer.status = "completed" /\ CallsOf(Said(answer.output)) # <<>>
        /\ answer.checkpoint.tokens = answer.created
        /\ (answer.checkpoint.state = "complete") <=> (answer.status = "completed")
        /\ (answer.status = "completed" /\ CallsOf(Meant) # <<>> /\ received.source = "responses") =>
               CarriedIn(answer.output) = CarriedBy(received.blocks)
        /\ (answer.status = "completed" /\ CallsOf(Meant) # <<>> /\ received.source = "messages" /\ answer.target = "responses") =>
               CarriedIn(answer.output) = CarriedBy(received.blocks)

\* A converted answer says what the upstream said and carries what a client needs
\* to continue it (buffered.ts 603-809, 822-972).
AnswersAreFaithful == ContentIsKept /\ StateIsCarried

=============================================================================
