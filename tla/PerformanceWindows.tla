-------------------------- MODULE PerformanceWindows --------------------------
(***************************************************************************)
(* PerformanceWindows (telemetry/performance.ts) and what the telemetry    *)
(* runtime records of its transitions (telemetry/runtime.ts): per window   *)
(* every metric is over its threshold, healthy or has too few samples.     *)
(***************************************************************************)
EXTENDS Naturals, Sequences, FiniteSets

CONSTANTS Metrics,
          WINDOWS  \* consecutive windows that change a metric (3 in the code)

ASSUME WindowsAssumption == WINDOWS \in Nat \ {0}

VARIABLES windows,    \* per metric: over, healthy, degraded
          degradation,\* healthy or degraded
          reported,   \* the status as the recorded events tell it
          recent,     \* per metric: its last conclusive windows, at most WINDOWS
          announced   \* the metric named by the last degradation, or none

windowVars == <<windows, degradation, reported, recent, announced>>

Fresh == [over |-> 0, healthy |-> 0, degraded |-> FALSE]

WindowInit ==
    /\ windows = [m \in Metrics |-> Fresh] /\ degradation = "healthy" /\ reported = "healthy"
    /\ recent = [m \in Metrics |-> <<>>] /\ announced = {}

UpdateMetricWindows(w, s) ==
    CASE s = "over" /\ w.over + 1 >= WINDOWS -> [over |-> 0, healthy |-> 0, degraded |-> TRUE]
      [] s = "over" /\ w.over + 1 < WINDOWS -> [w EXCEPT !.over = @ + 1, !.healthy = 0]
      [] s = "healthy" /\ ~w.degraded -> [w EXCEPT !.over = 0, !.healthy = 0]
      [] s = "healthy" /\ w.degraded /\ w.healthy + 1 >= WINDOWS -> Fresh
      [] s = "healthy" /\ w.degraded /\ w.healthy + 1 < WINDOWS -> [w EXCEPT !.over = 0, !.healthy = @ + 1]
      [] OTHER -> w

\* Defect: only a metric announced before may report the recovery.
HandleEvaluation_SameMetric(status) ==
    CASE degradation' = degradation -> UNCHANGED <<reported, announced>>
      [] degradation' = "degraded" /\ degradation = "healthy" ->
           reported' = "degraded" /\ \E m \in Metrics : status[m] = "over" /\ announced' = {m}
      [] OTHER -> IF \E m \in announced : status[m] = "healthy"
                  THEN reported' = "healthy" /\ announced' = {} ELSE UNCHANGED <<reported, announced>>

\* handleEvaluation(): a transition is recorded under a metric that explains
\* it, over for a degradation, healthy for a recovery; without one it is not.
HandleEvaluation(status) ==
    LET culprits == {m \in Metrics : status[m] = "over"}
        healed == {m \in Metrics : status[m] = "healthy"}
        preferred == IF announced \cap healed # {} THEN announced \cap healed ELSE healed
    IN CASE degradation' = degradation -> UNCHANGED <<reported, announced>>
         [] degradation' = "degraded" /\ degradation = "healthy" /\ culprits # {} ->
              reported' = "degraded" /\ \E m \in culprits : announced' = {m}
         [] degradation' = "healthy" /\ degradation = "degraded" /\ preferred # {} ->
              reported' = "healthy" /\ announced' = {}
         [] OTHER -> UNCHANGED <<reported, announced>>

\* evaluateWindow(): all metrics first, then the status, then the observer.
EvaluateWindow(status) ==
    /\ windows' = [m \in Metrics |-> UpdateMetricWindows(windows[m], status[m])]
    /\ degradation' = IF \E m \in Metrics : windows'[m].degraded THEN "degraded" ELSE "healthy"
    /\ recent' = [m \in Metrics |-> IF status[m] = "insufficient" THEN recent[m]
                                    ELSE LET all == Append(recent[m], status[m])
                                         IN IF Len(all) > WINDOWS THEN Tail(all) ELSE all]
    /\ HandleEvaluation(status)

WindowNext == \E status \in [Metrics -> {"over", "healthy", "insufficient"}] : EvaluateWindow(status)

WindowSpec == WindowInit /\ [][WindowNext]_windowVars

-----------------------------------------------------------------------------
\* The recorded events follow the status whatever the metrics do: every
\* degradation and every recovery finds a metric to report it under
\* (runtime.ts:169), and the status changes only after WINDOWS conclusive
\* windows in a row.
TransitionsAreReported ==
    /\ reported = degradation
    /\ \A m \in Metrics : Len(recent[m]) = WINDOWS =>
          /\ (\A i \in 1..WINDOWS : recent[m][i] = "over") => degradation = "degraded"
          /\ (\A i \in 1..WINDOWS : recent[m][i] = "healthy") => ~windows[m].degraded

=============================================================================
