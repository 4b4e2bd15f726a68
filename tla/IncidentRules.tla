---------------------------- MODULE IncidentRules ----------------------------
(***************************************************************************)
(* The pure rules of the incident correlator: the status machine           *)
(* (state_machine.py), correlation (correlation.py), severity              *)
(* (severity.py), the running aggregates (AnomalyProcessor._absorb) and    *)
(* the service topology (topology.py).  Times are seconds, the error rate  *)
(* is a percentage, severities are their ranks.                            *)
(***************************************************************************)
EXTENDS Integers, FiniteSets

CONSTANTS
    Services, Environments,
    Graph,             \* dependency_graph: the services a service calls
    Window,            \* CORRELATION_WINDOW_SECONDS
    LinkWindow         \* CROSS_SERVICE_CORRELATION_WINDOW_SECONDS

ASSUME RulesAssumption ==
    /\ Graph \in [Services -> SUBSET Services]
    /\ Window \in Nat /\ LinkWindow \in Nat

-----------------------------------------------------------------------------
(* Status machine.                                                         *)

ActiveStatuses == {"OPEN", "ACKNOWLEDGED", "INVESTIGATING", "MITIGATING"}
IncidentStatuses == ActiveStatuses \cup {"RESOLVED"}

\* _ALLOWED.  The extra right of the system actor, to resolve whatever is
\* active, is already in the table.
Allowed(status) ==
    CASE status = "OPEN"          -> {"ACKNOWLEDGED", "INVESTIGATING", "RESOLVED"}
      [] status = "ACKNOWLEDGED"  -> {"INVESTIGATING", "RESOLVED"}
      [] status = "INVESTIGATING" -> {"MITIGATING", "RESOLVED"}
      [] status = "MITIGATING"    -> {"RESOLVED"}
      [] OTHER                    -> {}

-----------------------------------------------------------------------------
(* Aggregates and severity.                                                *)

Larger(a, b) == IF a >= b THEN a ELSE b
Smaller(a, b) == IF a <= b THEN a ELSE b

Severities == 0 .. 4    \* INFO, LOW, MEDIUM, HIGH, CRITICAL

\* Does a rule of this level fire?
SeverityRule(level, count, distinct, error, latency, duration) ==
    CASE level = 1 -> count >= 1
      [] level = 2 -> count >= 3 \/ distinct >= 2
      [] level = 3 -> error >= 10 \/ latency >= 500 \/ duration >= 120
      [] level = 4 -> error >= 30 \/ (duration >= 300 /\ distinct >= 2)

\* The highest level a rule of which fires; INFO if none does.
EvaluateSeverity(count, distinct, error, latency, duration) ==
    LET fired == {0} \cup {level \in 1 .. 4 :
                     SeverityRule(level, count, distinct, error, latency, duration)}
    IN  CHOOSE level \in fired : \A other \in fired : other <= level

\* An incident as _new_incident builds it, before its first anomaly is absorbed.
Blank(signal) ==
    [service |-> signal.service, environment |-> signal.environment,
     status |-> "OPEN", severity |-> 0, count |-> 0, abnormal |-> {},
     error |-> 0, latency |-> 0, started |-> signal.start, last |-> signal.end]

\* Mutant of Absorb: the newest window's error rate instead of the highest.
MutantAbsorbLatestError(inc, signal) ==
    LET count    == inc.count + 1
        abnormal == inc.abnormal \cup signal.abnormal
        latency  == Larger(inc.latency, signal.latency)
        started  == Smaller(inc.started, signal.start)
        last     == Larger(inc.last, signal.end)
    IN  [service |-> inc.service, environment |-> inc.environment,
         status |-> inc.status,
         severity |-> EvaluateSeverity(count, Cardinality(abnormal), signal.error,
                                       latency, Larger(last - started, 0)),
         count |-> count, abnormal |-> abnormal, error |-> signal.error,
         latency |-> latency, started |-> started, last |-> last]

\* _absorb: fold one anomaly into the running aggregates and rate again.
Absorb(inc, signal) ==
    LET count    == inc.count + 1
        abnormal == inc.abnormal \cup signal.abnormal
        error    == Larger(inc.error, signal.error)
        latency  == Larger(inc.latency, signal.latency)
        started  == Smaller(inc.started, signal.start)
        last     == Larger(inc.last, signal.end)
    IN  [service |-> inc.service, environment |-> inc.environment,
         status |-> inc.status,
         severity |-> EvaluateSeverity(count, Cardinality(abnormal), error,
                                       latency, Larger(last - started, 0)),
         count |-> count, abnormal |-> abnormal, error |-> error,
         latency |-> latency, started |-> started, last |-> last]

\* _auto_resolve, on the row of the incident that went quiet.
WithStatus(inc, status) ==
    [service |-> inc.service, environment |-> inc.environment,
     status |-> status, severity |-> inc.severity, count |-> inc.count,
     abnormal |-> inc.abnormal, error |-> inc.error, latency |-> inc.latency,
     started |-> inc.started, last |-> inc.last]

-----------------------------------------------------------------------------
(* Correlation and topology.                                               *)

\* correlation_key of an incident or of a signal.
Key(x) == <<x.service, x.environment>>

\* decide, for an active incident.  A late anomaly has a negative gap.
Correlate(signal, inc) == IF signal.at - inc.last <= Window THEN "APPEND" ELSE "SUPERSEDE"

Dependencies(service) == Graph[service]

RelatedServices(service) ==
    Dependencies(service) \cup {s \in Services : service \in Dependencies(s)}

\* incidents_overlap: active within LinkWindow of each other.
Overlap(a, b) ==
    /\ a.started <= b.last + LinkWindow
    /\ b.started <= a.last + LinkWindow
=============================================================================
