---------------------------- MODULE MCHostParts ----------------------------
(***************************************************************************)
(* The parts that watch the gateway and run it on its machine: what it records *)
(* and logs, the daemon and its commands, the agents' files.  They share no *)
(* state, so one run checks them all: `part` says which of them moves, the *)
(* others stay as they begin, and the state space is the union of theirs.  *)
(***************************************************************************)
EXTENDS Telemetry, PerformanceWindows, Diagnostics, Daemon, LogFiles, Agents, TLC

VARIABLE part

\* A part that does not move begins in one of its initial states only.
Resting ==
    /\ part # "agents" => \A f \in DOMAIN agentFile : agentFile[f] = 1

PartsInit ==
    /\ part \in {"telemetry", "windows", "diagnostics", "daemon", "logs", "agents"}
    /\ TelemetryInit /\ WindowInit /\ DiagnosticsInit /\ DaemonInit /\ LogInit /\ AgentsInit
    /\ Resting

\* Every part but p stays as it is.
Rest(p) ==
    /\ UNCHANGED part
    /\ p # "telemetry" => UNCHANGED telemetryVars
    /\ p # "windows" => UNCHANGED windowVars
    /\ p # "diagnostics" => UNCHANGED diagnosticVars
    /\ p # "daemon" => UNCHANGED daemonVars
    /\ p # "logs" => UNCHANGED logVars
    /\ p # "agents" => UNCHANGED agentVars

PartsNext ==
    \/ part = "telemetry" /\ TelemetryNext /\ Rest("telemetry")
    \/ part = "windows" /\ WindowNext /\ Rest("windows")
    \/ part = "diagnostics" /\ DiagnosticsNext /\ Rest("diagnostics")
    \/ part = "daemon" /\ DaemonNext /\ Rest("daemon")
    \/ part = "logs" /\ LogNext /\ Rest("logs")
    \/ part = "agents" /\ AgentsNext /\ Rest("agents")

MCSymmetry == Permutations(Managed) \cup Permutations(Commands)
=============================================================================
