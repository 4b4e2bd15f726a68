------------------------ MODULE MCInvestigationEngine ------------------------
(* Small instances of InvestigationEngine for TLC. *)
EXTENDS InvestigationEngine

\* Plans of a live model: nothing usable (an unregistered and an unavailable
\* tool, malformed arguments), one call, repeated calls among them.
MCPlans ==
    {<<Call("restart_service", TRUE), Call("get_traces", TRUE), Call("get_service_metrics", FALSE)>>,
     <<Call("get_anomaly_evidence", TRUE)>>,
     <<Call("get_service_health", TRUE), Call("get_service_health", TRUE),
       Call("get_related_incidents", TRUE)>>}

\* One choice per limit that can be hit first, and one that hits none.
MCLimits ==
    {[calls |-> c, steps |-> s, items |-> i] : c \in {2, 6}, s \in {1, 5, 12}, i \in {1, 4}}
=============================================================================
