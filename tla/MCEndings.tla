----------------------------- MODULE MCEndings -----------------------------
(***************************************************************************)
(* What must come to an end: a wait for a permit, a streaming request, a   *)
(* cancelled sign-in, the daemon's commands and the gateway's close().     *)
(* They share no state, so one run checks them all: `part` says which of   *)
(* them moves, the others stay as they begin.  No symmetry, for the sake   *)
(* of the temporal properties.                                             *)
(***************************************************************************)
EXTENDS MCAdmission, StreamDelivery, DeviceFlow, Daemon, GatewayShutdown

VARIABLE part

PartsInit ==
    /\ part \in {"admission", "stream", "device", "daemon", "shutdown"}
    /\ Init /\ StreamInit /\ DeviceInit /\ DaemonInit /\ ShutdownInit

\* Every part but p stays as it is.
Rest(p) ==
    /\ UNCHANGED part
    /\ p # "admission" => UNCHANGED vars
    /\ p # "stream" => UNCHANGED streamVars
    /\ p # "device" => UNCHANGED deviceVars
    /\ p # "daemon" => UNCHANGED daemonVars
    /\ p # "shutdown" => UNCHANGED shutdownVars

PartsNext ==
    \/ part = "admission" /\ Next /\ Rest("admission")
    \/ part = "stream" /\ StreamNext /\ Rest("stream")
    \/ part = "device" /\ DeviceNext /\ Rest("device")
    \/ part = "daemon" /\ DaemonNext /\ Rest("daemon")
    \/ part = "shutdown" /\ ShutdownNext /\ Rest("shutdown")

\* Of the parts at rest only the request could take a step; nothing of the others
\* is enabled before they begin, so their fairness asks nothing.
PartsSpec ==
    /\ PartsInit /\ [][PartsNext]_<<part, vars, streamVars, deviceVars, daemonVars, shutdownVars>>
    /\ Fairness /\ DeviceFairness /\ DaemonFairness /\ ShutdownFairness
    /\ \A w \in Workers : WF_streamVars(part = "stream" /\ WorkerStep(w))

\* Where the request moves, no way of ending it keeps its permit.
StreamsEnd == part = "stream" => RequestsEnd

\* A command of the daemon answers whatever dies, and the close it may wait for
\* returns and releases the database whatever hangs.
CommandsAndCloseEnd == CommandsEnd /\ ShutdownEnds
=============================================================================
