------------------------------ MODULE RcaReasoner ------------------------------
(***************************************************************************)
(* What the investigation engine is given: the evidence tools and what a   *)
(* call of one can return, the answers of the language model, and the      *)
(* deterministic checks between them (validate_plan, the report builders,  *)
(* validate_report).                                                       *)
(*                                                                         *)
(* An evidence item is its id, its source type, whether an anomaly's score *)
(* exceeded the threshold, and how many abnormal signals it reports.       *)
(* Id 0 stands for any id the context never issued.  Confidence is a rank: *)
(* 0 UNKNOWN, 1 LOW, 2 MEDIUM, 3 HIGH.                                     *)
(***************************************************************************)
EXTENDS Integers, SequencesExt

CONSTANTS
    MaxYield,        \* most items one call returns here (the API's page, cut down)
    Plans            \* the plans a live model may propose

ASSUME ReasonerAssumption ==
    MaxYield \in Nat /\ Plans \subseteq Seq([tool : STRING, valid : BOOLEAN])

Confidences == 0 .. 3
LOW == 1
MEDIUM == 2
HIGH == 3

-----------------------------------------------------------------------------
(* Tools.                                                                  *)

UnavailableTools == {"get_recent_logs", "get_traces", "get_recent_deployments",
                     "get_service_dependencies"}
Registered == UnavailableTools \cup
              {"get_incident", "get_incident_timeline", "get_anomaly_evidence",
               "get_related_incidents", "get_service_metrics", "get_service_health"}
AvailableTools == Registered \ UnavailableTools

Item(type, strong, signals) == [type |-> type, strong |-> strong, signals |-> signals]

Smaller(a, b) == IF a < b THEN a ELSE b

\* Every failure of a call (unavailable, refused, timed out, malformed, raised)
\* is a result without evidence; EvidenceTool.run lets nothing escape.
FailedCall == <<>>

\* The incident API answers in the expected shape, or the call fails: 404, any
\* other status, a timeout, no JSON, another shape.
FromIncidentApi(answers) == {FailedCall} \cup answers

\* A scrape fails for an unknown service, a timeout and any status but 200.
FromScrape(answers) == {FailedCall} \cup answers

\* A probe that fails is an answer too ("unknown"); only an unknown service is
\* refused.
FromProbe(answers) == {FailedCall} \cup answers

\* The tools that build one item from one answer.
GetIncident == FromIncidentApi({<<Item("INCIDENT", FALSE, 0)>>})
GetIncidentTimeline == FromIncidentApi({<<Item("INCIDENT", FALSE, 0)>>})
GetServiceMetrics == FromScrape({<<Item("METRIC", FALSE, 0)>>})
GetServiceHealth == FromProbe({<<Item("SERVICE_HEALTH", FALSE, n)>> : n \in 0 .. 1})

\* The tools that build a list, cut to the evidence budget, and fail when it is
\* used up.
GetAnomalyEvidence(budget) ==
    FromIncidentApi(BoundedSeq({Item("ANOMALY", TRUE, 2), Item("ANOMALY", FALSE, 0)},
                               Smaller(MaxYield, budget)))
GetRelatedIncidents(budget) ==
    FromIncidentApi(BoundedSeq({Item("RELATED_INCIDENT", FALSE, 0)}, Smaller(MaxYield, budget)))

\* What one call can return while `remaining' items are left in the budget.
Yields(tool, remaining) ==
    CASE tool = "get_incident" -> GetIncident
      [] tool = "get_incident_timeline" -> GetIncidentTimeline
      [] tool = "get_anomaly_evidence" -> GetAnomalyEvidence(remaining)
      [] tool = "get_related_incidents" -> GetRelatedIncidents(remaining)
      [] tool = "get_service_metrics" -> GetServiceMetrics
      [] tool = "get_service_health" -> GetServiceHealth

-----------------------------------------------------------------------------
(* validate_plan.                                                          *)

Call(tool, valid) == [tool |-> tool, valid |-> valid]

Usable(call) == call.tool \in AvailableTools /\ call.valid

\* The usable calls of a plan in order, each once, at most `max' of them.
ValidatePlan(calls, max) ==
    LET fresh == {i \in DOMAIN calls :
                    Usable(calls[i]) /\ \A j \in 1 .. i - 1 : calls[j] # calls[i]}
        kept  == {i \in fresh : Cardinality({j \in fresh : j < i}) < max}
    IN  [k \in 1 .. Cardinality(kept) |->
           LET i == CHOOSE i \in kept : Cardinality({j \in kept : j < i}) = k - 1
           IN  calls[i].tool]

-----------------------------------------------------------------------------
(* Hypotheses and reports.                                                 *)

Finding(ids, confidence) == [ids |-> ids, confidence |-> confidence]
Hypothesis(sup, con, verdict) == [sup |-> sup, con |-> con, verdict |-> verdict]
NoCause == [ids |-> {}, confidence |-> 0]

Ids(evidence) == {e.id : e \in evidence}

\* _default_verdict, for a hypothesis the model did not assess.
DefaultVerdict(sup, con) ==
    IF Cardinality(con) > Cardinality(sup) THEN "REFUTED"
    ELSE IF sup # {} /\ con # {} THEN "CONFLICTING"
    ELSE IF Cardinality(sup) >= 2 THEN "SUPPORTED"
    ELSE "UNVERIFIED"

\* verify keeps only the references to evidence it knows.
Assess(h, verdict, known) ==
    LET sup == h.sup \cap known
        con == h.con \cap known
    IN  Hypothesis(sup, con, IF verdict = "none" THEN DefaultVerdict(sup, con) ELSE verdict)

\* _finding: a finding that loses its evidence loses its confidence.
KeepFinding(f, known) ==
    Finding(f.ids \cap known, IF f.ids \cap known = {} THEN 0 ELSE f.confidence)

\* build_rca_report: everything that points outside the evidence is dropped, a
\* cause left without evidence with it, and the overall confidence is capped.
BuildReport(synthesis, findings, hypotheses, evidence) ==
    LET known    == Ids(evidence)
        complete == synthesis.conclusion = "completed"
        ids      == synthesis.cause.ids \cap known
        cause    == IF complete /\ ids # {} THEN Finding(ids, synthesis.cause.confidence)
                                            ELSE NoCause
        cap      == IF cause = NoCause THEN LOW ELSE cause.confidence
    IN  [status     |-> IF complete THEN "COMPLETED" ELSE "INSUFFICIENT_EVIDENCE",
         cause      |-> cause,
         findings   |-> {KeepFinding(f, known) : f \in findings \cup synthesis.factors},
         hypotheses |-> hypotheses,
         overall    |-> Smaller(synthesis.overall, cap),
         stated     |-> synthesis.stated,
         cited      |-> synthesis.action \cap known]

\* build_fallback_report.
FallbackReport(hypotheses, evidence) ==
    [status |-> "INSUFFICIENT_EVIDENCE", cause |-> NoCause, findings |-> {},
     hypotheses |-> hypotheses, overall |-> LOW, stated |-> TRUE,
     cited |-> IF evidence = {} THEN {} ELSE {1}]

ReferencedIds(report) ==
    report.cited \cup report.cause.ids
    \cup UNION {f.ids : f \in report.findings}
    \cup UNION {report.hypotheses[i].sup \cup report.hypotheses[i].con :
                  i \in DOMAIN report.hypotheses}

Consistent(report) ==
    /\ report.cause # NoCause =>
         /\ report.status = "COMPLETED"
         /\ report.cause.ids # {}
         /\ report.overall <= report.cause.confidence
    /\ \A f \in report.findings : f.confidence >= LOW => f.ids # {}
    /\ report.stated

\* Mutant of ValidReport: the references alone are checked.
MutantValidReportRefsOnly(report, known) == ReferencedIds(report) \subseteq known

\* validate_report does not raise.
ValidReport(report, known) == ReferencedIds(report) \subseteq known /\ Consistent(report)

-----------------------------------------------------------------------------
(* The mock model: deterministic rules over the evidence it is shown.      *)

OfType(evidence, type) == {e \in evidence : e.type = type}
Strong(evidence) == {e \in OfType(evidence, "ANOMALY") : e.strong}
Signals(evidence, n) == \E e \in OfType(evidence, "ANOMALY") : e.signals >= n

MockWanted == <<"get_anomaly_evidence", "get_incident_timeline", "get_related_incidents",
                "get_service_metrics", "get_service_health">>

\* plan leaves out the tools whose evidence it has; the incident alone is there.
MockPlan == [i \in DOMAIN MockWanted |-> Call(MockWanted[i], TRUE)]

MockFindings(evidence) ==
    LET anomalies == OfType(evidence, "ANOMALY")
        related   == OfType(evidence, "RELATED_INCIDENT")
    IN  {Finding({e.id}, HIGH) : e \in OfType(evidence, "INCIDENT")}
        \cup {Finding({e.id}, MEDIUM) : e \in anomalies}
        \cup {Finding({e.id}, MEDIUM) :
                 e \in {h \in OfType(evidence, "SERVICE_HEALTH") : h.signals > 0}}
        \cup (IF Cardinality(anomalies) >= 2 /\ Signals(evidence, 1)
                THEN {Finding(Ids(anomalies), MEDIUM)} ELSE {})
        \cup (IF related # {} THEN {Finding(Ids(related), LOW)} ELSE {})

MockHypotheses(evidence) ==
    LET anomalies == OfType(evidence, "ANOMALY")
        related   == OfType(evidence, "RELATED_INCIDENT")
        first     == {i \in Ids(anomalies) : \A j \in Ids(anomalies) : i <= j}
        When(test, h) == IF test THEN <<h>> ELSE <<>>
    IN  When(Signals(evidence, 1), Hypothesis(Ids(anomalies), {}, "none"))
        \o When(related # {}, Hypothesis(Ids(related), first, "none"))
        \o When(Signals(evidence, 2), Hypothesis(Ids(anomalies), {}, "none"))

\* verify: the rule of _default_verdict on the proposed references; metrics are
\* asked for when the first hypothesis stays open without any.
MockVerdicts(hyps) == [i \in DOMAIN hyps |-> DefaultVerdict(hyps[i].sup, hyps[i].con)]

MockNeedsMore(hyps, evidence) ==
    /\ hyps = <<>> \/ MockVerdicts(hyps)[1] = "UNVERIFIED"
    /\ OfType(evidence, "METRIC") = {}

Synthesis(conclusion, cause, factors, action, overall, stated) ==
    [conclusion |-> conclusion, cause |-> cause, factors |-> factors,
     action |-> action, overall |-> overall, stated |-> stated]

EnoughToBlame(evidence) == Cardinality(Strong(evidence)) >= 2

MockSynthesis(hypotheses, evidence, repairing) ==
    LET related   == OfType(evidence, "RELATED_INCIDENT")
        factors   == IF related # {} THEN {Finding(Ids(related), LOW)} ELSE {}
        supported == {i \in DOMAIN hypotheses :
                        hypotheses[i].verdict = "SUPPORTED" /\ hypotheses[i].sup # {}}
        anchor    == Ids(OfType(evidence, "INCIDENT"))
    IN  IF repairing \/ OfType(evidence, "ANOMALY") = {} \/ Cardinality(evidence) < 2
          THEN Synthesis("insufficient_evidence", NoCause, factors, anchor, LOW, TRUE)
        ELSE IF supported # {} /\ EnoughToBlame(evidence)
          THEN LET h == hypotheses[CHOOSE i \in supported : \A j \in supported : i <= j]
               IN  Synthesis("completed", Finding(h.sup, MEDIUM), factors, h.sup, MEDIUM, TRUE)
        ELSE Synthesis("completed", NoCause, factors, anchor, LOW, TRUE)

-----------------------------------------------------------------------------
(* A live model fails: its prompt is over the bound; the provider does not *)
(* answer in time, cannot be reached or reports an error; the answer is    *)
(* cut off, calls another tool or does not fit the schema.                 *)

PromptErrors == {"LlmProviderError"}
ProviderErrors == {"LlmTimeout", "LlmProviderError"}
AnswerErrors == {"LlmMalformedOutput", "LlmProviderError"}

\* Both clients, Anthropic's and Groq's.  An exception they let through ends the
\* run in run_to_completion as LlmProviderError does here.
LlmErrors == PromptErrors \cup ProviderErrors \cup AnswerErrors

\* _llm_terminal.
LlmTerminal(error) == IF error = "LlmTimeout" THEN "TIMED_OUT" ELSE "FAILED"

(* A live model: any answer the schemas admit, over a few citations: none, *)
(* an unknown id alone, the newest item alone, everything and an unknown.  *)

Citations(evidence) ==
    {{}, {0}, Ids(evidence) \cup {0}}
    \cup {{i} : i \in {j \in Ids(evidence) : \A k \in Ids(evidence) : k <= j}}

LiveAnalyses(evidence) ==
    {[findings |-> {Finding(c, HIGH)}, hyps |-> <<Hypothesis(c, {}, "none")>>] :
       c \in Citations(evidence)}
    \cup {[findings |-> {}, hyps |-> <<>>]}

LiveVerdicts(hyps) ==
    {[i \in DOMAIN hyps |-> v] : v \in {"none", "SUPPORTED", "CONFLICTING"}}

LiveSyntheses(evidence) ==
    {Synthesis(c, cause, {}, {0}, HIGH, stated) :
       c \in {"completed", "insufficient_evidence"},
       cause \in {Finding(ids, MEDIUM) : ids \in Citations(evidence)} \cup {NoCause},
       stated \in BOOLEAN}
=============================================================================
