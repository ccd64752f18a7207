----------------------------- MODULE SemanticEvents -----------------------------
(***************************************************************************)
(* protocols/conversion/types.ts: the protocol-neutral events between the  *)
(* decoder of an upstream protocol and the emitter of the client's.        *)
(*                                                                         *)
(* Text is a sequence of tokens; every token the upstream sends is         *)
(* different, so that one that is lost, repeated or moved is seen.         *)
(***************************************************************************)
EXTENDS Naturals, Sequences, FiniteSets, SequencesExt

NoKey == <<>>

\* SemanticStreamEvent: kind, the item or part it is about, the message the part
\* belongs to, its text, and a flag (status, completed, opaque state or finish).
Event(kind, key, order, text, flag) ==
  [kind |-> kind, key |-> key, order |-> order, text |-> text, flag |-> flag]

Usage == Event("usage", NoKey, NoKey, <<>>, "")
Progress == Event("semantic_progress", NoKey, NoKey, <<>>, "")
MessageStart(k) == Event("message_start", k, k, <<>>, "")
TextDelta(k, o, t) == Event("text_delta", k, o, t, "")
TextDone(k, o, t) == Event("text_done", k, o, t, "")
RefusalDelta(k, o, t) == Event("refusal_delta", k, o, t, "")
RefusalDone(k, o, t) == Event("refusal_done", k, o, t, "")
ContentDone(k, o) == Event("content_done", k, o, <<>>, "")
ItemDone(i, type) == Event("item_done", <<i>>, NoKey, <<>>, type)
ToolStart(k) == Event("tool_start", k, NoKey, <<>>, "")
ToolArguments(k, t) == Event("tool_arguments_delta", k, NoKey, t, "")
\* flag: "completed", "incomplete", or "" when the event does not say.
ToolDone(k, flag) == Event("tool_done", k, NoKey, <<>>, flag)
ToolSnapshot(k, t, flag) == Event("tool_snapshot", k, NoKey, t, flag)
\* flag: what the item carries: "thinking" (a signed Messages block), one of
\* OpaqueStates, or "" for nothing.
ReasoningStart(k, flag) == Event("reasoning_start", k, NoKey, <<>>, flag)
ReasoningDelta(k, t) == Event("reasoning_delta", k, NoKey, t, "")
ReasoningSnapshot(k, t) == Event("reasoning_snapshot", k, NoKey, t, "")
ReasoningDone(k, status) == Event("reasoning_done", k, NoKey, <<>>, status)
\* text: the status, completed or incomplete.
Terminal(finish, status) == Event("terminal", NoKey, NoKey, <<status>>, finish)

OpaqueStates == {"chat", "chat opaque", "messages", "responses", "responses rotated"}

Truncating == {"length", "content_filter"}
\* The status of a Chat or Messages terminal follows its finish reason.
StatusOf(finish) ==
  IF finish \in Truncating \cup {"refusal"} THEN "incomplete" ELSE "completed"

\* What one upstream event makes a decoder do: its next state, the events it
\* yields, and whether it then throws.
Yields(d, out) == [d |-> d, out |-> out, bad |-> FALSE]
Throws(d, out) == [d |-> d, out |-> out, bad |-> TRUE]
\* r, then what f does with the state r leaves.
Then(r, f(_)) ==
  IF r.bad THEN r
  ELSE LET s == f(r.d) IN [d |-> s.d, out |-> r.out \o s.out, bad |-> s.bad]

===============================================================================
