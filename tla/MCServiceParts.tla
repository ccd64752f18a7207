--------------------------- MODULE MCServiceParts ---------------------------
(***************************************************************************)
(* The parts that serve a request beside the pipeline: the exchange with the *)
(* upstream, the history of the responses and its replay, the models' table *)
(* and the buffered conversions.  They share no state, so one run checks them *)
(* all: `part` says which of them moves, the others stay as they begin.    *)
(***************************************************************************)
EXTENDS CopilotTransport, ResponsesHistory, ContinuationReplay, ModelPreferences,
        BufferedConversion, TLC

VARIABLE part

\* The accounts the responses of ResponsesHistory belong to.
MCOwner == [q \in Converted \cup Native \cup Plain \cup Legacy |-> IF q \in Native \cup Plain THEN "a" ELSE "b"]

\* A part that does not move begins in one of its initial states only.
OneOf(set) == CHOOSE x \in set : TRUE

Resting ==
    /\ part # "history" => /\ ttl = OneOf(TTLS) /\ historyDb.legacy = {}
                           /\ {q \in DOMAIN request : request[q].step = "idle"} = OneOf(kSubset(MAX_REQUESTS, DOMAIN request))
    /\ part # "replay" => version = 1
    /\ part # "preferences" => listing = {}
    /\ part # "buffered" => received.source = "chat"

PartsInit ==
    /\ part \in {"transport", "history", "replay", "preferences", "buffered"}
    /\ TransportInit /\ HistoryInit /\ ReplayInit /\ PreferencesInit /\ BufferedInit
    /\ Resting

\* Every part but p stays as it is.
Rest(p) ==
    /\ UNCHANGED part
    /\ p # "transport" => UNCHANGED transportVars
    /\ p # "history" => UNCHANGED historyVars
    /\ p # "replay" => UNCHANGED replayVars
    /\ p # "preferences" => UNCHANGED preferenceVars
    /\ p # "buffered" => UNCHANGED bufferedVars

PartsNext ==
    \/ part = "transport" /\ TransportNext /\ Rest("transport")
    \/ part = "history" /\ HistoryNext /\ Rest("history")
    \/ part = "replay" /\ ReplayNext /\ Rest("replay")
    \/ part = "preferences" /\ PreferencesNext /\ Rest("preferences")
    \/ part = "buffered" /\ BufferedNext /\ Rest("buffered")

MCSymmetry == Permutations(Models) \cup Permutations(Operations)
=============================================================================
