------------------------- MODULE ContinuationReplay -------------------------
(***************************************************************************)
(* What a checkpoint keeps of a response's output and how the next request *)
(* gets it back (protocols/openai_responses/history.ts): extraction into   *)
(* groups, validation when it is read, and enrich(), which walks the input *)
(* and restores the calls that its tool outputs answer.  Items are chosen  *)
(* one by one: an output, then an input.                                   *)
(***************************************************************************)
EXTENDS Naturals, Sequences, SequencesExt, FiniteSets

CONSTANTS Calls, Strangers, \* call ids: of this response, of others
          Carriers,         \* encrypted contents of reasoning items
          MAX_OUTPUT, MAX_INPUT

NoCarrierId == "no carrier"
Reasoning(carrier) == [kind |-> "reasoning", id |-> carrier]
Call(id) == [kind |-> "call", id |-> id]
ToolOutput(id) == [kind |-> "output", id |-> id]
Message == [kind |-> "message", id |-> "-"]

OutputItems == {Reasoning(c) : c \in Carriers \cup {NoCarrierId}} \cup {Call(c) : c \in Calls} \cup {Message}
InputItems == {Reasoning(c) : c \in Carriers \cup {NoCarrierId}} \cup {Message}
              \cup {Call(c) : c \in Calls \cup Strangers} \cup {ToolOutput(c) : c \in Calls \cup Strangers}

VARIABLES version, \* replayFormatVersion(): 1 or 2
          output,  \* the response's output items
          stored,  \* the replay: items with their group and place; <<>> when there is none
          input,   \* the items of the request that continues it
          walk     \* enrich(): items done, result, calls emitted, group inserted

replayVars == <<version, output, stored, input, walk>>

NotWalking == [at |-> 0, items |-> <<>>, emitted |-> {}, inserted |-> FALSE, state |-> "none"]

ReplayInit ==
    /\ version \in {1, 2} /\ output = <<>> /\ stored = <<>> /\ input = <<>> /\ walk = NotWalking

-----------------------------------------------------------------------------
(* extractRecordableReplay() and validateStoredReplay() *)

IsCall(item) == item.kind = "call"
IsReasoning(item) == item.kind = "reasoning"
HasCarrier(item) == IsReasoning(item) /\ item.id # NoCarrierId

Repeats(items, Kind(_)) ==
    \E i, j \in DOMAIN items : i < j /\ Kind(items[i]) /\ Kind(items[j]) /\ items[i].id = items[j].id

\* Where item i of the replayable items goes: a reasoning item behind a call
\* opens the next group.
Opens(items, i) == i > 1 /\ IsReasoning(items[i]) /\ IsCall(items[i - 1])

GroupOf(items, i) == Cardinality({j \in 2 .. i : Opens(items, j)})

HasCallIn(items, group) == \E i \in DOMAIN items : GroupOf(items, i) = group /\ IsCall(items[i])

ExtractReplay(items) ==
    LET kept == SelectSeq(items, LAMBDA item : IsCall(item) \/ (version = 2 /\ IsReasoning(item)))
        PlaceOf(i) == Cardinality({j \in 1 .. i - 1 : GroupOf(kept, j) = GroupOf(kept, i)})
        placed == [i \in DOMAIN kept |-> kept[i] @@ [group |-> GroupOf(kept, i), place |-> PlaceOf(i)]]
    IN IF Repeats(items, IsCall) \/ (version = 2 /\ Repeats(items, HasCarrier)) THEN <<>> \* unavailable
       ELSE SelectSeq(placed, LAMBDA item : HasCallIn(kept, item.group)) \* a last group without a call is dropped

ValidReplay(items) ==
    /\ ~Repeats(items, IsCall) /\ ~Repeats(items, HasCarrier)
    /\ version = 1 => \A i \in DOMAIN items : IsCall(items[i]) /\ items[i].group = 0 /\ items[i].place = i - 1
    /\ version = 2 => \A i \in DOMAIN items :
          LET first == i = 1 \/ items[i - 1].group # items[i].group
          IN /\ items[i].group = (IF i = 1 THEN 0 ELSE IF first THEN items[i - 1].group + 1 ELSE items[i - 1].group)
             /\ items[i].place = (IF first THEN 0 ELSE items[i - 1].place + 1)
             /\ ~first /\ IsReasoning(items[i]) => IsReasoning(items[i - 1])
             /\ i = Len(items) \/ items[i + 1].group # items[i].group => IsCall(items[i])

OutputArrives(item) ==
    /\ stored = <<>> /\ input = <<>> /\ walk.state = "none" /\ Len(output) < MAX_OUTPUT
    /\ output' = Append(output, item) /\ UNCHANGED <<version, stored, input, walk>>

StoreReplay ==
    /\ stored = <<>> /\ input = <<>> /\ output # <<>> /\ stored' = ExtractReplay(output) /\ stored' # <<>>
    /\ output' = <<>> /\ UNCHANGED <<version, input, walk>>

-----------------------------------------------------------------------------
(* enrich() *)

ScopedCalls == {stored[i].id : i \in {j \in DOMAIN stored : IsCall(stored[j])}}
ScopedCarriers == {stored[i].id : i \in {j \in DOMAIN stored : HasCarrier(stored[j])}}
Answers(item) == item.kind = "output" /\ item.id \in ScopedCalls

InputArrives(item) ==
    /\ stored # <<>> /\ walk.state = "none" /\ Len(input) < MAX_INPUT
    /\ input' = Append(input, item) /\ UNCHANGED <<version, output, stored, walk>>

\* Nothing is restored for an input that repeats calls or carriers or answers
\* no call of the checkpoint.
Restorable ==
    /\ ~Repeats(input, IsCall) /\ ~Repeats(input, HasCarrier)
    /\ \/ \E i \in DOMAIN input : Answers(input[i])
       \/ version = 1 /\ \E i \in DOMAIN input : IsCall(input[i]) /\ input[i].id \in ScopedCalls

BeginEnrich ==
    /\ input # <<>> /\ walk.state = "none"
    /\ walk' = [walk EXCEPT !.state = IF Restorable THEN "walking" ELSE "unavailable"]
    /\ UNCHANGED <<version, output, stored, input>>

PlainItem(item) == [kind |-> item.kind, id |-> item.id]

\* The calls, and in version 2 the reasoning, that go before the output.
Restored(emitted) ==
    LET missing == SelectSeq(stored, LAMBDA item : IsReasoning(item) \/ item.id \notin emitted)
    IN [i \in DOMAIN missing |-> PlainItem(missing[i])]

\* The checkpointed calls and carriers that the client sent again are taken out
\* of their places (version 2); calls already emitted are not repeated.
IsDropped(item) ==
    \/ HasCarrier(item) /\ item.id \in ScopedCarriers
    \/ IsCall(item) /\ (item.id \in walk.emitted \/ (version = 2 /\ item.id \in ScopedCalls))

\* Defect: every answer opens the group of calls anew.
NeedsGroup_Every(item) == Answers(item)

NeedsGroup(item) ==
    /\ Answers(item) /\ ~walk.inserted
    /\ version = 1 => item.id \notin walk.emitted

EnrichItem ==
    /\ walk.state = "walking" /\ walk.at < Len(input)
    /\ LET item == input[walk.at + 1]
           group == IF NeedsGroup(item) THEN Restored(walk.emitted) ELSE <<>>
       IN walk' = [walk EXCEPT !.at = @ + 1,
                               !.items = @ \o group \o (IF IsDropped(item) THEN <<>> ELSE <<item>>),
                               !.emitted = @ \cup {group[i].id : i \in {j \in DOMAIN group : IsCall(group[j])}}
                                             \cup (IF IsCall(item) /\ ~IsDropped(item) THEN {item.id} ELSE {}),
                               !.inserted = @ \/ NeedsGroup(item)]
    /\ UNCHANGED <<version, output, stored, input>>

EndEnrich ==
    /\ walk.state = "walking" /\ walk.at = Len(input)
    /\ walk' = [walk EXCEPT !.state = IF \E i \in DOMAIN input : input[i].kind = "output" THEN "restored" ELSE "unavailable"]
    /\ UNCHANGED <<version, output, stored, input>>

ReplayNext ==
    \/ \E item \in OutputItems : OutputArrives(item)
    \/ StoreReplay
    \/ \E item \in InputItems : InputArrives(item)
    \/ BeginEnrich \/ EnrichItem \/ EndEnrich

-----------------------------------------------------------------------------
\* What recordCheckpoint() stores is what a later read accepts: its groups, its
\* ordinals and its uniqueness are those that validateStoredReplay() demands
\* (history.ts:1307, :1660).
StoredReadsBack == stored = <<>> \/ ValidReplay(stored)

\* Every answer to a checkpointed call comes behind that call, which is there
\* once; nothing of the input but the replayed calls and carriers moves or
\* disappears (history.ts:415-491).
AnswersFollowTheirCalls ==
    walk.state = "restored" =>
       /\ \A i \in DOMAIN walk.items : Answers(walk.items[i]) =>
             \E j \in 1 .. i - 1 : walk.items[j] = Call(walk.items[i].id)
       /\ ~Repeats(walk.items, IsCall) /\ ~Repeats(walk.items, HasCarrier)
       /\ LET Own(item) == (IsCall(item) /\ item.id \in ScopedCalls) \/ IsReasoning(item)
              Kept(item) == ~Own(item)
          IN SelectSeq(walk.items, Kept) = SelectSeq(input, Kept)

\* A stored checkpoint can be read back and is replayed into the input in the one
\* order upstreams accept (history.ts:415-491, :1307, :1660).
ReplayIsFaithful == StoredReadsBack /\ AnswersFollowTheirCalls

=============================================================================
