------------------------- MODULE MCIncidentCorrelator -------------------------
(* Small instances of IncidentCorrelator for TLC.                           *)
EXTENDS IncidentCorrelator, TLC

CONSTANTS e1, e2, e3, e4, e5

Anomaly(service, start, abnormal, error) ==
    [service |-> service, environment |-> "development", start |-> start,
     end |-> start + 10, at |-> start + 10, abnormal |-> abnormal, error |-> error,
     latency |-> 0]

MCServices == {"orders-service", "payments-service"}
MCEnvironments == {"development"}

\* The default graph without inventory-service.
MCGraph == [s \in MCServices |->
              IF s = "orders-service" THEN {"payments-service"} ELSE {}]

\* Two anomalies of one episode, the second past the duration that rates HIGH
\* and with an error rate that does; a third that is outside the window of the
\* first and inside that of the second; and two of the service the first
\* depends on, which the third is too late to be linked to (LinkWindow = 200).
MCSignal ==
    [e \in Events |->
       CASE e = e1 -> Anomaly("orders-service", 0, {"error_rate"}, 12)
         [] e = e2 -> Anomaly("orders-service", 130, {"latency_p95_ms"}, 5)
         [] e = e3 -> Anomaly("orders-service", 400, {"error_rate"}, 0)
         [] e = e4 -> Anomaly("payments-service", 60, {"error_rate"}, 35)
         [] e = e5 -> Anomaly("payments-service", 70, {"error_rate"}, 20)]

Symmetry == Permutations(Workers) \cup Permutations(Ids)
=============================================================================
