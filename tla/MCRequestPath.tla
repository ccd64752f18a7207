--------------------------- MODULE MCRequestPath ---------------------------
(***************************************************************************)
(* The path of a request: the handlers from admission to the answer, and   *)
(* the conversion of a stream between the wire protocols.  They share no   *)
(* state, so one run checks both: `part` says which of them moves, the     *)
(* other stays as it begins.                                               *)
(***************************************************************************)
EXTENDS RequestPipeline, StreamConversion, TLC

\* Catalogues with live, built-in, malformed and hidden entries.
Value(s) == [state |-> "value", value |-> s]
Missing == [state |-> "missing"]
Malformed == [state |-> "malformed"]
Entry(l, b) == [listed |-> TRUE, live |-> l, builtin |-> b]
Hidden == [listed |-> FALSE, live |-> Missing, builtin |-> Missing]

FirstModel == CHOOSE m \in Models : TRUE
Pair(x, y) == [m \in Models |-> IF m = FirstModel THEN x ELSE y]

MCCatalogues == {
    Pair(Entry(Value({"chat"}), Missing), Entry(Value({"responses"}), Missing)),
    Pair(Entry(Value({"messages", "responses"}), Missing), Hidden),
    Pair(Entry(Malformed, Value({"chat"})), Entry(Missing, Value({"messages"})))}

MCSymmetry == Permutations(Accounts) \cup Permutations(Origins)

VARIABLE part

\* A part that does not move begins in one of its initial states only.
OneOf(set) == CHOOSE x \in set : TRUE

Resting ==
    /\ part # "conversion" => conv.ctx = OneOf(Contexts)
    /\ part # "pipeline" => /\ world.default = OneOf(Accounts)
                            /\ world.origin[world.default] = OneOf(Origins)
                            /\ world.catalogue[world.default] = OneOf(Catalogues)
                            /\ world.preferred[world.default] = OneOf(Models)

PartsInit ==
    /\ part \in {"pipeline", "conversion"}
    /\ PipelineInit /\ ConversionInit
    /\ Resting

PartsNext ==
    \/ part = "pipeline" /\ PipelineNext /\ UNCHANGED <<part, conversionVars>>
    \/ part = "conversion" /\ ConversionNext /\ UNCHANGED <<part, pipelineVars>>
=============================================================================
