----------------------- MODULE InvestigationEngineProofs -----------------------
(***************************************************************************)
(* What the bounded engine promises, proved for any limits, any plans and  *)
(* any answers of the model.                                               *)
(***************************************************************************)
EXTENDS InvestigationEngine, DataLemmas, FiniteSetTheorems

-----------------------------------------------------------------------------
(* What ends a run.                                                        *)

\* A run that has not ended has no terminal status, and no report before it has
\* written one.
Underway ==
    /\ node \in Nodes \cup {"END"}
    /\ node # "END" => status \notin TerminalStatuses
    /\ node \in {"initialize", "plan", "collect", "analyze", "verify"} => rca = NoReport

\* A failing model ends the run without a conclusion.
LEMMA FailureIsNoConclusion ==
  ASSUME NEW error
  PROVE  LlmTerminal(error) \in {"TIMED_OUT", "FAILED"}
  BY DEF LlmTerminal

\* Every node leaves the graph in such a state.
LEMMA UnderwayStep ==
  Underway /\ [Next]_vars => Underway'
<1>. SUFFICES ASSUME Underway, [Next]_vars PROVE Underway'
  OBVIOUS
<1>. USE DEF Underway, Nodes, TerminalStatuses
<1>1. CASE Degrade
  BY <1>1 DEF Degrade, Route, DegradeNext
<1>2. CASE TimeOut
  BY <1>2 DEF TimeOut, Route
<1>3. ASSUME NEW error \in LlmErrors, LlmFails(error) PROVE Underway'
  BY <1>3, FailureIsNoConclusion DEF LlmFails, Route
<1>4. ASSUME NEW result, Initialize(result) PROVE Underway'
  BY <1>4 DEF Initialize, Route
<1>5. ASSUME NEW first, NEW second, Plan(first, second) PROVE Underway'
  BY <1>5 DEF Plan, Enter, Route
<1>6. ASSUME NEW result, Collect(result) PROVE Underway'
  BY <1>6 DEF Collect, Enter, Route
<1>7. ASSUME NEW l, NEW results, Analyze(l, results) PROVE Underway'
  BY <1>7, FailureIsNoConclusion DEF Analyze, Enter, Route
<1>8. ASSUME NEW verdicts, NEW more, Verify(verdicts, more) PROVE Underway'
  BY <1>8 DEF Verify, Enter, Route
<1>9. ASSUME NEW answer, Synthesize(answer) PROVE Underway'
  BY <1>9 DEF Synthesize, Enter, Route
<1>10. CASE Validate
  BY <1>10 DEF Validate, Route
<1>11. CASE Elapse \/ Finished \/ UNCHANGED vars
  BY <1>11 DEF Elapse, Finished, vars
<1>. QED
  BY <1>1, <1>2, <1>3, <1>4, <1>5, <1>6, <1>7, <1>8, <1>9, <1>10, <1>11 DEF Next, Step

\* Only validate ends a run with a conclusion it has not checked for a report:
\* plan can, and has none.
LEMMA ConclusionsStep ==
  Underway /\ ConclusionsGrounded /\ [Next]_vars => ConclusionsGrounded'
<1>. SUFFICES ASSUME Underway, ConclusionsGrounded, [Next]_vars PROVE ConclusionsGrounded'
  OBVIOUS
<1>. USE DEF Underway, TerminalStatuses
<1>1. CASE Degrade
  BY <1>1 DEF Degrade, Route, DegradeNext, ConclusionsGrounded
<1>2. CASE TimeOut
  BY <1>2 DEF TimeOut, Route, ConclusionsGrounded
<1>3. ASSUME NEW error \in LlmErrors, LlmFails(error) PROVE ConclusionsGrounded'
  BY <1>3, FailureIsNoConclusion DEF LlmFails, Route, ConclusionsGrounded
<1>4. ASSUME NEW result, Initialize(result) PROVE ConclusionsGrounded'
  BY <1>4 DEF Initialize, Route, ConclusionsGrounded
<1>5. ASSUME NEW first, NEW second, Plan(first, second) PROVE ConclusionsGrounded'
  BY <1>5 DEF Plan, Enter, Route, ConclusionsGrounded
<1>6. ASSUME NEW result, Collect(result) PROVE ConclusionsGrounded'
  BY <1>6 DEF Collect, Enter, Route, ConclusionsGrounded
<1>7. ASSUME NEW l, NEW results, Analyze(l, results) PROVE ConclusionsGrounded'
  BY <1>7, FailureIsNoConclusion DEF Analyze, Enter, Route, ConclusionsGrounded
<1>8. ASSUME NEW verdicts, NEW more, Verify(verdicts, more) PROVE ConclusionsGrounded'
  BY <1>8 DEF Verify, Enter, Route, ConclusionsGrounded
<1>9. ASSUME NEW answer, Synthesize(answer) PROVE ConclusionsGrounded'
  BY <1>9 DEF Synthesize, Enter, Route, ConclusionsGrounded
<1>10. CASE Validate
  <2>. DEFINE safe == FallbackReport(hypotheses, evidence)
  <2>1. safe.status = "INSUFFICIENT_EVIDENCE"
    BY DEF FallbackReport
  <2>. HIDE DEF safe
  <2>2. CASE rca # NoReport /\ ValidReport(rca, Ids(evidence))
    <3>1. rca' = rca /\ evidence' = evidence /\ status' = rca.status
      BY <1>10, <2>2 DEF Validate, Route
    <3>. QED
      BY <2>2, <3>1 DEF ConclusionsGrounded, ValidReport
  <2>3. CASE /\ ~ (rca # NoReport /\ ValidReport(rca, Ids(evidence)))
             /\ ~ (rca # NoReport /\ repaired < MaxRepairAttempts)
             /\ ValidReport(safe, Ids(evidence))
    <3>1. rca' = safe /\ evidence' = evidence /\ status' = "INSUFFICIENT_EVIDENCE"
      BY <1>10, <2>3 DEF Validate, Route, safe
    <3>. QED
      BY <2>1, <2>3, <3>1 DEF ConclusionsGrounded, ValidReport
  <2>4. CASE /\ ~ (rca # NoReport /\ ValidReport(rca, Ids(evidence)))
             /\ \/ rca # NoReport /\ repaired < MaxRepairAttempts
                \/ ~ ValidReport(safe, Ids(evidence))
    <3>1. status' \in {"VERIFYING", "FAILED"}
      BY <1>10, <2>4 DEF Validate, Route, safe
    <3>. QED
      BY <3>1 DEF ConclusionsGrounded
  <2>. QED
    BY <2>2, <2>3, <2>4
<1>11. CASE Elapse \/ Finished \/ UNCHANGED vars
  BY <1>11 DEF Elapse, Finished, vars, usage, ConclusionsGrounded
<1>. QED
  BY <1>1, <1>2, <1>3, <1>4, <1>5, <1>6, <1>7, <1>8, <1>9, <1>10, <1>11 DEF Next, Step

\* For any limits, plans and answers: a conclusion that comes with a report went
\* through the gate of validate (nodes.py) as it stands.
THEOREM GroundedConclusions == Spec => []ConclusionsGrounded
<1>1. Init => Underway /\ ConclusionsGrounded
  BY DEF Init, Underway, ConclusionsGrounded, Nodes, TerminalStatuses
<1>. QED
  BY <1>1, UnderwayStep, ConclusionsStep, PTL DEF Spec

-----------------------------------------------------------------------------
(* validate_plan keeps what is usable, within what is left.                *)

\* How many members of S are smaller.
Rank(S, i) == Cardinality({j \in S : j < i})

\* A rank is smaller than the cardinality, and a larger member has a larger one.
LEMMA RanksGrow ==
  ASSUME NEW S \in SUBSET Nat, IsFiniteSet(S)
  PROVE  /\ \A i \in S : Rank(S, i) \in 0 .. Cardinality(S) - 1
         /\ \A i, j \in S : i < j => Rank(S, i) < Rank(S, j)
<1>1. ASSUME NEW i \in S, NEW U \in SUBSET S, {j \in S : j < i} \cup {i} \subseteq U
      PROVE  Rank(S, i) \in Nat /\ Cardinality(U) \in Nat /\ Rank(S, i) < Cardinality(U)
  <2>. DEFINE B == {j \in S : j < i}
  <2>1. B \subseteq S /\ B \cup {i} \subseteq U /\ i \notin B
    BY <1>1
  <2>. HIDE DEF B
  <2>2. IsFiniteSet(B) /\ IsFiniteSet(U) /\ Cardinality(B) \in Nat /\ Cardinality(U) \in Nat
    BY <2>1, FS_Subset, FS_CardinalityType
  <2>3. IsFiniteSet(B \cup {i}) /\ Cardinality(B \cup {i}) = Cardinality(B) + 1
    BY <2>1, <2>2, FS_AddElement
  <2>4. Cardinality(B \cup {i}) <= Cardinality(U)
    BY <2>1, <2>2, FS_Subset
  <2>. QED
    BY <2>2, <2>3, <2>4 DEF Rank, B
<1>2. ASSUME NEW i \in S PROVE Rank(S, i) \in 0 .. Cardinality(S) - 1
  <2>1. {j \in S : j < i} \cup {i} \subseteq S
    OBVIOUS
  <2>2. Rank(S, i) \in Nat /\ Cardinality(S) \in Nat /\ Rank(S, i) < Cardinality(S)
    BY <1>1, <2>1
  <2>. QED
    BY <2>2
<1>3. ASSUME NEW i \in S, NEW j \in S, i < j PROVE Rank(S, i) < Rank(S, j)
  <2>. DEFINE U == {k \in S : k < j}
  <2>1. U \in SUBSET S /\ {k \in S : k < i} \cup {i} \subseteq U
    <3>1. \A k \in S : k < i => k < j
      BY <1>3
    <3>. QED
      BY <1>3, <3>1
  <2>. HIDE DEF U
  <2>2. Rank(S, i) < Cardinality(U)
    BY <1>1, <2>1
  <2>. QED
    BY <2>2 DEF U, Rank
<1>. QED
  BY <1>2, <1>3

\* Every rank below the cardinality is taken.
LEMMA RanksTaken ==
  ASSUME NEW S \in SUBSET Nat, IsFiniteSet(S), NEW k \in 0 .. Cardinality(S) - 1
  PROVE  \E i \in S : Rank(S, i) = k
<1>. DEFINE n == Cardinality(S)
            f == [i \in S |-> Rank(S, i)]
<1>1. n \in Nat
  BY FS_CardinalityType
<1>2. \A i, j \in S : f[i] = f[j] => i = j
  <2>1. ASSUME NEW i \in S, NEW j \in S, f[i] = f[j], i # j PROVE FALSE
    <3>1. i < j \/ j < i
      BY <2>1
    <3>2. Rank(S, i) \in Nat /\ Rank(S, j) \in Nat /\ Rank(S, i) = Rank(S, j)
      BY <2>1, <1>1, RanksGrow
    <3>. QED
      BY <3>1, <3>2, RanksGrow
  <2>. QED
    BY <2>1
<1>3. f \in [S -> 0 .. n - 1]
  BY RanksGrow
<1>4. f \in Injection(S, 0 .. n - 1)
  BY <1>2, <1>3 DEF Injection, IsInjective
<1>5. IsFiniteSet(0 .. n - 1) /\ Cardinality(0 .. n - 1) = n
  BY <1>1, FS_Interval
<1>6. f \in Surjection(S, 0 .. n - 1)
  BY <1>4, <1>5, FS_Injection
<1>. QED
  BY <1>6 DEF Surjection

\* At most max members have a rank below max.
LEMMA FewRanksBelow ==
  ASSUME NEW S \in SUBSET Nat, IsFiniteSet(S), NEW max \in Nat
  PROVE  Cardinality({i \in S : Rank(S, i) < max}) <= max
<1>. DEFINE T == {i \in S : Rank(S, i) < max}
            f == [i \in T |-> Rank(S, i)]
<1>1. T \subseteq S /\ \A i \in T : Rank(S, i) \in 0 .. max - 1
  <2>1. Cardinality(S) \in Nat
    BY FS_CardinalityType
  <2>. QED
    BY <2>1, RanksGrow
<1>2. \A i, j \in T : f[i] = f[j] => i = j
  <2>1. ASSUME NEW i \in T, NEW j \in T, f[i] = f[j], i # j PROVE FALSE
    <3>1. i \in S /\ j \in S /\ (i < j \/ j < i)
      BY <2>1
    <3>2. Rank(S, i) \in Nat /\ Rank(S, j) \in Nat /\ Rank(S, i) = Rank(S, j)
      BY <2>1, <1>1
    <3>. QED
      BY <3>1, <3>2, RanksGrow
  <2>. QED
    BY <2>1
<1>3. f \in Injection(T, 0 .. max - 1)
  BY <1>1, <1>2 DEF Injection, IsInjective
<1>4. IsFiniteSet(0 .. max - 1) /\ Cardinality(0 .. max - 1) = max
  BY FS_Interval
<1>. HIDE DEF f
<1>5. Cardinality(T) <= Cardinality(0 .. max - 1)
  BY <1>3, <1>4, FS_Injection
<1>. QED
  BY <1>4, <1>5

\* validate_plan returns registered, available tools, no more than it may.
LEMMA PlansFit ==
  ASSUME NEW X, NEW plan \in Seq(X), NEW max \in Nat
  PROVE  /\ ValidatePlan(plan, max) \in Seq(AvailableTools)
         /\ Len(ValidatePlan(plan, max)) <= max
<1>. DEFINE fresh == {i \in DOMAIN plan :
                        Usable(plan[i]) /\ \A j \in 1 .. i - 1 : plan[j] # plan[i]}
            kept  == {i \in fresh : Cardinality({j \in fresh : j < i}) < max}
            At(k) == CHOOSE i \in kept : Cardinality({j \in kept : j < i}) = k - 1
            n     == Cardinality(kept)
            R     == [k \in 1 .. n |-> plan[At(k)].tool]
<1>1. ValidatePlan(plan, max) = R
  BY DEF ValidatePlan
<1>2. fresh \in SUBSET Nat /\ IsFiniteSet(fresh)
  <2>1. Len(plan) \in Nat /\ DOMAIN plan = 1 .. Len(plan)
    BY LenProperties
  <2>2. IsFiniteSet(1 .. Len(plan))
    BY <2>1, FS_Interval
  <2>3. fresh \subseteq 1 .. Len(plan)
    BY <2>1
  <2>. HIDE DEF fresh
  <2>. QED
    <3>1. IsFiniteSet(fresh)
      BY <2>2, <2>3, FS_Subset
    <3>2. 1 .. Len(plan) \subseteq Nat
      BY <2>1
    <3>. QED
      BY <2>3, <3>1, <3>2
<1>3. \A i \in fresh : plan[i].tool \in AvailableTools
  BY DEF Usable
<1>. HIDE DEF fresh
<1>4. kept \subseteq fresh /\ kept = {i \in fresh : Rank(fresh, i) < max}
  BY DEF Rank
<1>5. kept \in SUBSET Nat /\ IsFiniteSet(kept) /\ n \in Nat /\ n <= max
  <2>. HIDE DEF kept
  <2>1. kept \in SUBSET Nat /\ IsFiniteSet(kept)
    BY <1>2, <1>4, FS_Subset
  <2>. QED
    <3>1. Cardinality(kept) \in Nat
      BY <2>1, FS_CardinalityType
    <3>2. Cardinality({i \in fresh : Rank(fresh, i) < max}) <= max
      BY <1>2, FewRanksBelow
    <3>3. Cardinality(kept) <= max
      BY <1>4, <3>2
    <3>. QED
      BY <2>1, <3>1, <3>3
<1>. HIDE DEF kept
<1>6. ASSUME NEW k \in 1 .. n PROVE plan[At(k)].tool \in AvailableTools
  <2>1. k - 1 \in 0 .. n - 1
    BY <1>5
  <2>2. \E i \in kept : Rank(kept, i) = k - 1
    BY <1>5, <2>1, RanksTaken
  <2>3. At(k) \in kept
    BY <2>2 DEF Rank
  <2>. QED
    BY <1>3, <1>4, <2>3
<1>. HIDE DEF At, n
<1>7. R \in [1 .. n -> AvailableTools]
  BY <1>6
<1>8. R \in Seq(AvailableTools) /\ Len(R) = n
  BY <1>5, <1>7
<1>. QED
  BY <1>1, <1>5, <1>8

-----------------------------------------------------------------------------
(* What a tool call brings.                                                *)

Items ==
    [type : {"INCIDENT", "METRIC", "SERVICE_HEALTH", "ANOMALY", "RELATED_INCIDENT"},
     strong : BOOLEAN, signals : Nat]

\* A sequence of bounded length.
LEMMA BoundedSeqIs ==
  ASSUME NEW X, NEW n \in Nat, NEW s \in BoundedSeq(X, n)
  PROVE  s \in Seq(X) /\ Len(s) \in 0 .. n
<1>1. PICK m \in 0 .. n : s \in [1 .. m -> X]
  BY DEF BoundedSeq, SeqOf
<1>. QED
  BY <1>1

\* A call returns a list of items within what is left of the budget; one item,
\* not part of a list, is returned whatever is left.
LEMMA YieldsFit ==
  ASSUME NEW tool \in AvailableTools, NEW remaining \in Nat, NEW result \in Yields(tool, remaining)
  PROVE  /\ result \in Seq(Items)
         /\ Len(result) <= IF remaining = 0 THEN 1 ELSE remaining
<1>0. /\ Item("INCIDENT", FALSE, 0) \in Items /\ Item("METRIC", FALSE, 0) \in Items
      /\ \A n \in 0 .. 1 : Item("SERVICE_HEALTH", FALSE, n) \in Items
      /\ Item("ANOMALY", TRUE, 2) \in Items /\ Item("ANOMALY", FALSE, 0) \in Items
      /\ Item("RELATED_INCIDENT", FALSE, 0) \in Items
  <2>1. Item("INCIDENT", FALSE, 0) \in Items
    BY DEF Item, Items
  <2>2. Item("METRIC", FALSE, 0) \in Items
    BY DEF Item, Items
  <2>3. \A n \in Nat : Item("SERVICE_HEALTH", FALSE, n) \in Items
    BY DEF Item, Items
  <2>4. Item("ANOMALY", TRUE, 2) \in Items
    BY DEF Item, Items
  <2>5. Item("ANOMALY", FALSE, 0) \in Items
    BY DEF Item, Items
  <2>6. Item("RELATED_INCIDENT", FALSE, 0) \in Items
    BY DEF Item, Items
  <2>7. \A n \in 0 .. 1 : n \in Nat
    OBVIOUS
  <2>. QED
    BY <2>1, <2>2, <2>3, <2>4, <2>5, <2>6, <2>7
<1>1. tool \in {"get_incident", "get_incident_timeline", "get_anomaly_evidence",
                "get_related_incidents", "get_service_metrics", "get_service_health"}
  BY DEF AvailableTools, Registered, UnavailableTools
<1>2. ASSUME NEW x \in Items, result = FailedCall \/ result = <<x>>
      PROVE  result \in Seq(Items) /\ Len(result) <= IF remaining = 0 THEN 1 ELSE remaining
  <2>1. CASE result = FailedCall
    BY <2>1 DEF FailedCall
  <2>2. CASE result = <<x>>
    <3>1. <<x>> \in Seq(Items) /\ Len(<<x>>) = 1
      OBVIOUS
    <3>. QED
      BY <2>2, <3>1
  <2>. QED
    BY <1>2, <2>1, <2>2
<1>3. ASSUME NEW X, X \subseteq Items, result = FailedCall \/ result \in BoundedSeq(X, Smaller(MaxYield, remaining))
      PROVE  result \in Seq(Items) /\ Len(result) <= IF remaining = 0 THEN 1 ELSE remaining
  <2>1. CASE result = FailedCall
    BY <2>1 DEF FailedCall
  <2>2. CASE result \in BoundedSeq(X, Smaller(MaxYield, remaining))
    <3>1. Smaller(MaxYield, remaining) \in Nat /\ Smaller(MaxYield, remaining) <= remaining
      BY ReasonerAssumption DEF Smaller
    <3>2. result \in Seq(X) /\ Len(result) \in 0 .. Smaller(MaxYield, remaining)
      BY <2>2, <3>1, BoundedSeqIs
    <3>3. result \in Seq(Items)
      BY <1>3, <3>2
    <3>. QED
      BY <3>1, <3>2, <3>3
  <2>. QED
    BY <1>3, <2>1, <2>2
<1>4. CASE tool \in {"get_incident", "get_incident_timeline"}
  <2>1. result = FailedCall \/ result = <<Item("INCIDENT", FALSE, 0)>>
    BY <1>4 DEF Yields, GetIncident, GetIncidentTimeline, FromIncidentApi
  <2>. QED
    BY <1>0, <1>2, <2>1
<1>5. CASE tool = "get_service_metrics"
  <2>1. result = FailedCall \/ result = <<Item("METRIC", FALSE, 0)>>
    BY <1>5 DEF Yields, GetServiceMetrics, FromScrape
  <2>. QED
    BY <1>0, <1>2, <2>1
<1>6. CASE tool = "get_service_health"
  <2>1. result = FailedCall \/ \E n \in 0 .. 1 : result = <<Item("SERVICE_HEALTH", FALSE, n)>>
    BY <1>6 DEF Yields, GetServiceHealth, FromProbe
  <2>. QED
    BY <1>0, <1>2, <2>1
<1>7. CASE tool = "get_anomaly_evidence"
  <2>. DEFINE X == {Item("ANOMALY", TRUE, 2), Item("ANOMALY", FALSE, 0)}
  <2>1. X \subseteq Items
    BY <1>0
  <2>2. result = FailedCall \/ result \in BoundedSeq(X, Smaller(MaxYield, remaining))
    BY <1>7 DEF Yields, GetAnomalyEvidence, FromIncidentApi
  <2>. HIDE DEF X
  <2>. QED
    BY <1>3, <2>1, <2>2
<1>8. CASE tool = "get_related_incidents"
  <2>. DEFINE X == {Item("RELATED_INCIDENT", FALSE, 0)}
  <2>1. X \subseteq Items
    BY <1>0
  <2>2. result = FailedCall \/ result \in BoundedSeq(X, Smaller(MaxYield, remaining))
    BY <1>8 DEF Yields, GetRelatedIncidents, FromIncidentApi
  <2>. HIDE DEF X
  <2>. QED
    BY <1>3, <2>1, <2>2
<1>. QED
  BY <1>1, <1>4, <1>5, <1>6, <1>7, <1>8

-----------------------------------------------------------------------------
(* The budgets.                                                            *)

\* What the counters count.
Counters ==
    /\ limits \in LimitChoices
    /\ calls \in Nat /\ steps \in Nat /\ issued \in Nat /\ visits \in Nat
    /\ items = issued
    /\ queue \in Seq(AvailableTools)
    /\ reanalysed \in 0 .. 1 /\ repaired \in 0 .. 1

\* The tool calls queued are within the bound on them.
CallsFit ==
    /\ calls <= limits.calls
    /\ node \in {"collect", "analyze"} => calls + Len(queue) <= limits.calls

\* The evidence: the incident goes past the bound of one by a second item.
EvidenceFits ==
    /\ issued <= limits.items \/ issued = 2
    /\ node \in {"plan", "collect"} => issued < limits.items \/ issued <= 1

\* How far each node is past the last check of the steps.
StepsFit ==
    /\ steps <= limits.steps + 5
    /\ node \in {"plan", "collect"} => steps <= limits.steps + 1
    /\ node \in {"analyze", "verify"} => steps <= limits.steps + 2
    /\ node = "synthesize" =>
         /\ steps <= limits.steps + 3
         /\ rca # NoReport => repaired = 1 /\ steps <= limits.steps + 2
    /\ node = "validate" =>
         /\ steps <= limits.steps + 4
         /\ rca # NoReport => steps <= limits.steps + 1 + 2 * repaired

\* Every node that ran is paid for by a call, by the one re-analysis, by the one
\* repair or by the seven nodes themselves.
VisitsFit ==
    /\ visits <= calls + 10
    /\ node = "plan" => visits <= 1
    /\ node = "collect" => visits <= calls + 1
    /\ node = "analyze" => visits <= calls + 2 + 2 * reanalysed
    /\ node = "verify" => visits <= calls + 3 + 2 * reanalysed
    /\ node = "synthesize" => visits <= calls + 6 + 2 * repaired
    /\ node = "validate" => visits <= calls + 7 + 2 * repaired

\* Nothing is counted before the first node, and the first call is made by it.
Begun ==
    /\ node = "initialize" => calls = 0 /\ steps = 0 /\ issued = 0 /\ visits = 0
    /\ node \in {"plan", "collect"} => calls >= 1

BudgetInv == Underway /\ Counters /\ Begun /\ CallsFit /\ EvidenceFits /\ StepsFit /\ VisitsFit

\* The limits are positive.
LEMMA LimitFacts ==
  ASSUME Counters
  PROVE  /\ limits.calls \in Nat \ {0} /\ limits.steps \in Nat \ {0} /\ limits.items \in Nat \ {0}
         /\ Remaining \in Nat /\ CallsLeft \in Nat
         /\ Remaining = IF limits.items > issued THEN limits.items - issued ELSE 0
         /\ calls <= limits.calls => calls + CallsLeft = limits.calls
<1>1. limits.calls \in Nat \ {0} /\ limits.steps \in Nat \ {0} /\ limits.items \in Nat \ {0}
  BY EngineAssumption DEF Counters
<1>. QED
  BY <1>1 DEF Counters, Remaining, CallsLeft

\* check_limits passes.
LEMMA WithinLimits ==
  ASSUME Counters, Exceeded = "none"
  PROVE  calls <= limits.calls /\ steps <= limits.steps /\ issued <= limits.items
  BY LimitFacts DEF Counters, Exceeded

\* What one call counts.
LEMMA OneCall ==
  ASSUME NEW result \in Seq(Items), Called(<<result>>)
  PROVE  /\ calls' = calls + 1
         /\ issued' = issued + Len(result) /\ items' = items + Len(result)
<1>1. FlattenSeq(<<result>>) = result
  BY FlattenFew
<1>2. Len(<<result>>) = 1
  OBVIOUS
<1>. QED
  BY <1>1, <1>2 DEF Called

\* The plans of both models are lists of calls.
LEMMA PlansAreSequences ==
  ASSUME NEW plan \in PlanAnswers \cup Additional
  PROVE  \E X : plan \in Seq(X)
<1>1. ASSUME plan \in Plans PROVE \E X : plan \in Seq(X)
  BY <1>1, ReasonerAssumption
<1>2. ASSUME plan = MockPlan PROVE \E X : plan \in Seq(X)
  <2>1. DOMAIN MockWanted = 1 .. 5
    BY DEF MockWanted
  <2>2. PICK f : f = [i \in 1 .. 5 |-> Call(MockWanted[i], TRUE)]
    OBVIOUS
  <2>3. plan = f
    BY <1>2, <2>1, <2>2 DEF MockPlan
  <2>4. PICK X : X = {f[i] : i \in 1 .. 5}
    OBVIOUS
  <2>5. f \in [1 .. 5 -> X]
    BY <2>2, <2>4
  <2>6. f \in Seq(X)
    <3>1. PICK n \in Nat : n = 5
      OBVIOUS
    <3>2. f \in [1 .. n -> X]
      BY <2>5, <3>1
    <3>. QED
      BY <3>2
  <2>. QED
    BY <2>3, <2>6
<1>3. ASSUME plan = <<>> PROVE \E X : plan \in Seq(X)
  BY <1>3
<1>4. ASSUME plan = <<Call("get_service_metrics", TRUE)>> PROVE \E X : plan \in Seq(X)
  <2>1. PICK c : c = Call("get_service_metrics", TRUE)
    OBVIOUS
  <2>2. plan \in Seq({c})
    BY <1>4, <2>1
  <2>. QED
    BY <2>2
<1>. QED
  BY <1>1, <1>2, <1>3, <1>4 DEF PlanAnswers, Additional

\* What validate_plan queues of them.
LEMMA QueueFits ==
  ASSUME NEW plan \in PlanAnswers \cup Additional, NEW max \in Nat
  PROVE  /\ ValidatePlan(plan, max) \in Seq(AvailableTools)
         /\ Len(ValidatePlan(plan, max)) \in 0 .. max
<1>1. PICK X : plan \in Seq(X)
  BY PlansAreSequences
<1>2. ValidatePlan(plan, max) \in Seq(AvailableTools) /\ Len(ValidatePlan(plan, max)) <= max
  BY <1>1, PlansFit
<1>. QED
  BY <1>2

\* A limit that is exceeded moves the run on.
LEMMA BudgetDegrade ==
  ASSUME BudgetInv, Underway', Degrade
  PROVE  BudgetInv'
<1>1. /\ limits.calls \in Nat \ {0} /\ limits.steps \in Nat \ {0} /\ limits.items \in Nat \ {0}
  BY LimitFacts DEF BudgetInv
<1>2. /\ limits' = limits /\ calls' = calls /\ items' = items /\ issued' = issued /\ rca' = rca
      /\ steps' = steps + 1 /\ visits' = visits + 1 /\ queue' = <<>>
      /\ reanalysed' = reanalysed /\ repaired' = repaired
  BY DEF Degrade, Route, Record
<1>3. \/ node = "plan" /\ node' = "synthesize"
      \/ node = "collect" /\ node' = "analyze"
      \/ node = "analyze" /\ node' = "synthesize"
      \/ node = "verify" /\ node' = "synthesize"
      \/ node = "synthesize" /\ node' = "validate"
  BY DEF Degrade, Route, DegradeNext, TerminalStatuses
<1>4. Counters'
  BY <1>2 DEF BudgetInv, Counters
<1>5. Begun' /\ CallsFit' /\ EvidenceFits'
  BY <1>1, <1>2, <1>3 DEF BudgetInv, Counters, Begun, CallsFit, EvidenceFits
<1>6. StepsFit'
  <2>1. CASE node \in {"plan", "collect", "analyze", "verify"}
    <3>1. steps <= limits.steps + 2 /\ rca = NoReport /\ node' \in {"synthesize", "analyze"}
      BY <1>1, <1>3, <2>1 DEF BudgetInv, Underway, Counters, StepsFit
    <3>2. node = "collect" => steps <= limits.steps + 1
      BY DEF BudgetInv, StepsFit
    <3>. QED
      BY <1>1, <1>2, <1>3, <3>1, <3>2 DEF BudgetInv, Counters, StepsFit
  <2>2. CASE node = "synthesize"
    <3>1. /\ steps <= limits.steps + 3 /\ node' = "validate"
          /\ rca # NoReport => repaired = 1 /\ steps <= limits.steps + 2
      BY <1>3, <2>2 DEF BudgetInv, StepsFit
    <3>2. rca # NoReport => steps + 1 <= limits.steps + 1 + 2 * repaired
      BY <1>1, <3>1 DEF BudgetInv, Counters
    <3>. QED
      BY <1>1, <1>2, <3>1, <3>2 DEF BudgetInv, Counters, StepsFit
  <2>. QED
    BY <1>3, <2>1, <2>2
<1>7. VisitsFit'
  BY <1>1, <1>2, <1>3 DEF BudgetInv, Counters, VisitsFit
<1>. QED
  BY <1>4, <1>5, <1>6, <1>7 DEF BudgetInv

\* A node that ends the run without a step of its own.
LEMMA BudgetStops ==
  ASSUME BudgetInv, Underway', NEW s, s \in TerminalStatuses, Route("END", s), node # "END",
         UNCHANGED <<usage, queue, rca, reanalysed, repaired>>
  PROVE  BudgetInv'
<1>1. /\ limits.calls \in Nat \ {0} /\ limits.steps \in Nat \ {0} /\ limits.items \in Nat \ {0}
  BY LimitFacts DEF BudgetInv
<1>2. /\ limits' = limits /\ calls' = calls /\ items' = items /\ issued' = issued
      /\ steps' = steps /\ visits' = visits + 1 /\ queue' = queue
      /\ reanalysed' = reanalysed /\ repaired' = repaired /\ node' = "END"
  BY DEF Route, usage
<1>3. node \in Nodes
  BY DEF BudgetInv, Underway
<1>4. Counters' /\ Begun' /\ CallsFit' /\ EvidenceFits' /\ StepsFit'
  BY <1>1, <1>2 DEF BudgetInv, Counters, Begun, CallsFit, EvidenceFits, StepsFit
<1>5. visits <= calls + 9
  BY <1>3 DEF BudgetInv, Counters, Begun, VisitsFit, Nodes
<1>6. VisitsFit'
  BY <1>2, <1>5 DEF BudgetInv, Counters, VisitsFit
<1>. QED
  BY <1>4, <1>6 DEF BudgetInv

\* initialize makes the first call, or ends the run.
LEMMA BudgetInitialize ==
  ASSUME BudgetInv, Underway', NEW result \in Yields("get_incident", limits.items), Initialize(result)
  PROVE  BudgetInv'
<1>1. /\ limits.calls \in Nat \ {0} /\ limits.steps \in Nat \ {0} /\ limits.items \in Nat \ {0}
  BY LimitFacts DEF BudgetInv
<1>2. calls = 0 /\ steps = 0 /\ issued = 0 /\ visits = 0 /\ items = 0
  BY DEF Initialize, BudgetInv, Begun, Counters
<1>3. result \in Seq(Items) /\ Len(result) \in 0 .. 1
  <2>1. result = FailedCall \/ result = <<Item("INCIDENT", FALSE, 0)>>
    BY DEF Yields, GetIncident, FromIncidentApi
  <2>2. "get_incident" \in AvailableTools
    BY DEF AvailableTools, Registered, UnavailableTools
  <2>3. result \in Seq(Items)
    BY <1>1, <2>2, YieldsFit
  <2>4. CASE result = FailedCall
    BY <2>3, <2>4 DEF FailedCall
  <2>5. CASE result = <<Item("INCIDENT", FALSE, 0)>>
    <3>1. PICK x : x = Item("INCIDENT", FALSE, 0)
      OBVIOUS
    <3>2. result = <<x>>
      BY <2>5, <3>1
    <3>3. Len(result) = 1
      BY <3>2
    <3>. QED
      BY <2>3, <3>3
  <2>. QED
    BY <2>1, <2>4, <2>5
<1>4. /\ limits' = limits /\ rca' = rca /\ visits' = 1 /\ queue' = queue
      /\ reanalysed' = reanalysed /\ repaired' = repaired /\ node' \in {"plan", "END"}
  BY <1>2 DEF Initialize, Route, TerminalStatuses
<1>5. CASE Exceeded # "none"
  <2>1. node' = "END" /\ steps' = 1 /\ calls' = 0 /\ items' = 0 /\ issued' = 0
    BY <1>2, <1>5 DEF Initialize, Route, Record
  <2>. QED
    BY <1>1, <1>2, <1>4, <2>1
       DEF BudgetInv, Counters, Begun, CallsFit, EvidenceFits, StepsFit, VisitsFit
<1>6. CASE Exceeded = "none"
  <2>1. Called(<<result>>)
    BY <1>6 DEF Initialize
  <2>2. calls' = 1 /\ issued' = Len(result) /\ items' = Len(result)
    BY <1>2, <1>3, <2>1, OneCall
  <2>3. steps' \in 1 .. 2
    BY <1>2, <1>6 DEF Initialize, Record
  <2>4. Counters'
    BY <1>2, <1>3, <1>4, <2>2, <2>3 DEF BudgetInv, Counters
  <2>5. Begun' /\ CallsFit' /\ EvidenceFits'
    BY <1>1, <1>2, <1>3, <1>4, <2>2, <2>3 DEF Begun, CallsFit, EvidenceFits
  <2>6. StepsFit' /\ VisitsFit'
    BY <1>1, <1>2, <1>3, <1>4, <2>2, <2>3 DEF StepsFit, VisitsFit
  <2>. QED
    BY <2>4, <2>5, <2>6 DEF BudgetInv
<1>. QED
  BY <1>5, <1>6

\* plan queues no more than the calls left.
LEMMA BudgetPlan ==
  ASSUME BudgetInv, Underway', NEW first, NEW second, Plan(first, second)
  PROVE  BudgetInv'
<1>1. /\ limits.calls \in Nat \ {0} /\ limits.steps \in Nat \ {0} /\ limits.items \in Nat \ {0}
      /\ CallsLeft \in Nat /\ (calls <= limits.calls => calls + CallsLeft = limits.calls)
  BY LimitFacts DEF BudgetInv
<1>2. node = "plan" /\ calls <= limits.calls /\ steps <= limits.steps /\ issued <= limits.items
  BY WithinLimits DEF Plan, Enter, BudgetInv
<1>3. queue' \in Seq(AvailableTools) /\ Len(queue') \in 0 .. CallsLeft
  <2>1. first \in PlanAnswers /\ second \in PlanAnswers
    BY DEF Plan
  <2>2. queue' \in {ValidatePlan(first, CallsLeft), ValidatePlan(second, CallsLeft)}
    BY DEF Plan
  <2>. QED
    BY <1>1, <2>1, <2>2, QueueFits
<1>4. /\ limits' = limits /\ rca' = rca /\ visits' = visits + 1 /\ steps' = steps + 1
      /\ calls' = calls /\ items' = items /\ issued' = issued
      /\ reanalysed' = reanalysed /\ repaired' = repaired /\ node' \in {"collect", "END"}
  BY DEF Plan, Route, Record, TerminalStatuses
<1>5. Counters'
  BY <1>3, <1>4 DEF BudgetInv, Counters
<1>6. Begun' /\ CallsFit' /\ EvidenceFits'
  BY <1>1, <1>2, <1>3, <1>4 DEF BudgetInv, Counters, Begun, CallsFit, EvidenceFits
<1>7. StepsFit' /\ VisitsFit'
  BY <1>1, <1>2, <1>4 DEF BudgetInv, Counters, Begun, StepsFit, VisitsFit
<1>. QED
  BY <1>5, <1>6, <1>7 DEF BudgetInv

\* collect makes one call of the queue.
LEMMA BudgetCollect ==
  ASSUME BudgetInv, Underway', NEW result, Collect(result)
  PROVE  BudgetInv'
<1>1. /\ limits.calls \in Nat \ {0} /\ limits.steps \in Nat \ {0} /\ limits.items \in Nat \ {0}
      /\ Remaining \in Nat
      /\ Remaining = IF limits.items > issued THEN limits.items - issued ELSE 0
  BY LimitFacts DEF BudgetInv
<1>2. node = "collect" /\ calls <= limits.calls /\ steps <= limits.steps /\ issued <= limits.items
  BY WithinLimits DEF Collect, Enter, BudgetInv
<1>3. /\ queue \in Seq(AvailableTools) /\ queue # <<>> /\ queue' = Tail(queue)
      /\ result \in Yields(Head(queue), Remaining)
  BY DEF Collect, BudgetInv, Counters
<1>4. Head(queue) \in AvailableTools /\ queue' \in Seq(AvailableTools) /\ Len(queue') = Len(queue) - 1
  BY <1>3, HeadTailProperties
<1>5. /\ result \in Seq(Items) /\ Len(result) \in Nat
      /\ Len(result) <= IF Remaining = 0 THEN 1 ELSE Remaining
  BY <1>1, <1>3, <1>4, YieldsFit, LenProperties
<1>6. calls' = calls + 1 /\ issued' = issued + Len(result) /\ items' = items + Len(result)
  BY <1>5, OneCall DEF Collect
<1>7. /\ limits' = limits /\ rca' = rca /\ visits' = visits + 1 /\ steps' = steps + 1
      /\ reanalysed' = reanalysed /\ repaired' = repaired
  BY DEF Collect, Route, Record
<1>8. \/ node' = "collect" /\ limits.items > issued + Len(result)
      \/ node' = "analyze"
  <2>1. status \notin TerminalStatuses
    BY <1>2 DEF BudgetInv, Underway
  <2>. QED
    BY <2>1 DEF Collect, Route, TerminalStatuses
<1>9. Counters'
  BY <1>4, <1>5, <1>6, <1>7 DEF BudgetInv, Counters
<1>10. Begun' /\ CallsFit'
  BY <1>1, <1>2, <1>3, <1>4, <1>6, <1>7, <1>8 DEF BudgetInv, Counters, Begun, CallsFit
<1>11. EvidenceFits'
  BY <1>1, <1>2, <1>5, <1>6, <1>7, <1>8 DEF BudgetInv, Counters, EvidenceFits
<1>12. StepsFit'
  BY <1>1, <1>2, <1>7, <1>8 DEF BudgetInv, Counters, StepsFit
<1>13. VisitsFit'
  <2>1. visits + 1 <= (calls + 1) + 1 /\ reanalysed >= 0
    BY <1>2 DEF BudgetInv, Counters, VisitsFit
  <2>. QED
    BY <1>6, <1>7, <1>8, <2>1 DEF BudgetInv, Counters, VisitsFit
<1>. QED
  BY <1>9, <1>10, <1>11, <1>12, <1>13 DEF BudgetInv

\* The follow-up calls: each is made while the evidence and the steps allow it.
LEMMA DrainFits ==
  ASSUME BudgetInv, node = "analyze", Exceeded = "none", NEW l, NEW results, Drained(results, l),
         results \in DrainResults
  PROVE  /\ Len(results) \in Nat /\ Len(results) <= Len(queue)
         /\ Len(results) # 0 => steps + Len(results) <= limits.steps + 1
         /\ Len(FlattenSeq(results)) \in Nat
         /\ Len(results) = 0 => Len(FlattenSeq(results)) = 0
         /\ Len(results) # 0 => issued + Len(FlattenSeq(results)) <= limits.items
<1>. DEFINE n == Len(results)
            Got(k) == issued + Len(FlattenSeq(SubSeq(results, 1, k)))
<1>1. /\ limits.calls \in Nat \ {0} /\ limits.steps \in Nat \ {0} /\ limits.items \in Nat \ {0}
      /\ queue \in Seq(AvailableTools) /\ issued \in Nat /\ steps \in Nat /\ issued <= limits.items
      /\ steps <= limits.steps
  BY LimitFacts, WithinLimits DEF BudgetInv, Counters
<1>2. results \in Seq(Seq(Items)) /\ n \in Nat /\ DOMAIN results = 1 .. n
  <2>1. CASE results = <<>>
    BY <2>1
  <2>2. CASE results # <<>>
    <3>1. PICK m \in DOMAIN queue : results \in [1 .. m -> UNION {Yields(queue[k], Remaining) : k \in 1 .. m}]
      BY <2>2 DEF DrainResults
    <3>2. m \in Nat /\ 1 .. m \subseteq 1 .. Len(queue) /\ Remaining \in Nat
      BY <1>1, <3>1, LimitFacts, LenProperties DEF BudgetInv
    <3>3. \A k \in 1 .. m : queue[k] \in AvailableTools
      BY <1>1, <3>2, ElementOfSeq
    <3>4. \A k \in 1 .. m : Yields(queue[k], Remaining) \subseteq Seq(Items)
      BY <3>2, <3>3, YieldsFit
    <3>5. results \in [1 .. m -> Seq(Items)]
      BY <3>1, <3>4
    <3>. QED
      BY <3>2, <3>5
  <2>. QED
    BY <2>1, <2>2
<1>3. n <= Len(queue) /\ \A k \in 1 .. n :
        /\ Got(k - 1) < limits.items /\ steps + (k - 1) <= limits.steps
        /\ results[k] \in Yields(queue[k], limits.items - Got(k - 1))
  BY <1>2 DEF Drained
<1>4. CASE n = 0
  <2>1. results = <<>>
    BY <1>2, <1>4
  <2>2. FlattenSeq(results) = <<>>
    BY <2>1 DEF FlattenSeq
  <2>. QED
    BY <1>2, <1>3, <1>4, <2>2
<1>5. CASE n # 0
  <2>1. n \in 1 .. n /\ queue[n] \in AvailableTools
    BY <1>1, <1>2, <1>3, <1>5, LenProperties, ElementOfSeq
  <2>2. /\ Got(n - 1) < limits.items /\ steps + (n - 1) <= limits.steps
        /\ results[n] \in Yields(queue[n], limits.items - Got(n - 1))
    BY <1>3, <2>1
  <2>3. PICK g \in Nat : /\ g = Len(FlattenSeq(SubSeq(results, 1, n - 1)))
                         /\ Len(FlattenSeq(results)) = g + Len(results[n])
    BY <1>2, <1>5, FlattenLength
  <2>4. results[n] \in Seq(Items) /\ Len(results[n]) \in Nat
    BY <1>2, <2>1, ElementOfSeq, LenProperties
  <2>5. PICK remaining \in Nat : remaining = limits.items - (issued + g) /\ remaining # 0
    BY <1>1, <2>2, <2>3
  <2>6. results[n] \in Yields(queue[n], remaining)
    BY <2>2, <2>3, <2>5
  <2>7. Len(results[n]) <= remaining
    BY <2>1, <2>5, <2>6, YieldsFit
  <2>8. issued + (g + Len(results[n])) <= limits.items /\ g + Len(results[n]) \in Nat
    BY <1>1, <2>4, <2>5, <2>7
  <2>9. steps + n <= limits.steps + 1
    BY <1>1, <1>2, <2>2
  <2>. QED
    BY <1>2, <1>3, <1>5, <2>3, <2>8, <2>9
<1>. QED
  BY <1>4, <1>5

\* analyze makes the queued calls, in its one step.
LEMMA BudgetAnalyze ==
  ASSUME BudgetInv, Underway', NEW l \in BOOLEAN, NEW results \in DrainResults, Analyze(l, results)
  PROVE  BudgetInv'
<1>1. /\ limits.calls \in Nat \ {0} /\ limits.steps \in Nat \ {0} /\ limits.items \in Nat \ {0}
  BY LimitFacts DEF BudgetInv
<1>2. node = "analyze" /\ calls <= limits.calls /\ steps <= limits.steps /\ issued <= limits.items
  BY WithinLimits DEF Analyze, Enter, BudgetInv
<1>3. PICK n \in Nat, got \in Nat :
        /\ n = Len(results) /\ got = Len(FlattenSeq(results))
        /\ n <= Len(queue) /\ (n # 0 => steps + n <= limits.steps + 1)
        /\ n = 0 => got = 0
        /\ n # 0 => issued + got <= limits.items
  BY <1>2, DrainFits DEF Analyze, Enter
<1>4. /\ calls' = calls + n /\ items' = items + got /\ issued' = issued + got
      /\ limits' = limits /\ rca' = rca /\ visits' = visits + 1 /\ queue' = queue
      /\ reanalysed' = reanalysed /\ repaired' = repaired
  BY <1>3 DEF Analyze, Called, Route
<1>5. \/ node' = "verify" /\ steps' = steps + (n + 1)
      \/ node' = "END" /\ steps' = steps + n
  BY <1>3 DEF Analyze, Route, Record, TerminalStatuses
<1>6. Counters'
  BY <1>3, <1>4, <1>5 DEF BudgetInv, Counters
<1>7. Begun' /\ CallsFit' /\ EvidenceFits'
  <2>1. calls + Len(queue) <= limits.calls /\ Len(queue) \in Nat
    BY <1>2, LenProperties DEF BudgetInv, Counters, CallsFit
  <2>2. Begun' /\ CallsFit'
    BY <1>1, <1>3, <1>4, <1>5, <2>1 DEF BudgetInv, Counters, Begun, CallsFit
  <2>3. EvidenceFits'
    BY <1>1, <1>3, <1>4, <1>5 DEF BudgetInv, Counters, EvidenceFits
  <2>. QED
    BY <2>2, <2>3
<1>8. StepsFit'
  <2>1. steps' \in Nat /\ steps' <= limits.steps + 2 /\ node' \in {"verify", "END"}
    BY <1>1, <1>2, <1>3, <1>5 DEF BudgetInv, Counters
  <2>. QED
    BY <1>1, <1>4, <2>1 DEF StepsFit
<1>9. VisitsFit'
  <2>1. visits + 1 <= (calls + n) + 3 + 2 * reanalysed /\ 2 * reanalysed <= 2
    BY <1>2, <1>3 DEF BudgetInv, Counters, VisitsFit
  <2>. QED
    BY <1>3, <1>4, <1>5, <2>1 DEF BudgetInv, Counters, VisitsFit
<1>. QED
  BY <1>6, <1>7, <1>8, <1>9 DEF BudgetInv

\* verify queues no more than the calls left, once.
LEMMA BudgetVerify ==
  ASSUME BudgetInv, Underway', NEW verdicts, NEW more, Verify(verdicts, more)
  PROVE  BudgetInv'
<1>1. /\ limits.calls \in Nat \ {0} /\ limits.steps \in Nat \ {0} /\ limits.items \in Nat \ {0}
      /\ CallsLeft \in Nat /\ (calls <= limits.calls => calls + CallsLeft = limits.calls)
  BY LimitFacts DEF BudgetInv
<1>2. node = "verify" /\ calls <= limits.calls /\ steps <= limits.steps /\ issued <= limits.items
  BY WithinLimits DEF Verify, Enter, BudgetInv
<1>3. /\ limits' = limits /\ rca' = rca /\ visits' = visits + 1 /\ steps' = steps + 1
      /\ calls' = calls /\ items' = items /\ issued' = issued /\ repaired' = repaired
  BY DEF Verify, Route, Record
<1>4. \/ /\ node' = "analyze" /\ reanalysed = 0 /\ reanalysed' = 1
         /\ queue' = ValidatePlan(more, Smaller(CallsLeft, 3))
      \/ node' = "synthesize" /\ reanalysed' = reanalysed /\ queue' = queue
  BY DEF Verify, Route, TerminalStatuses, BudgetInv, Counters
<1>5. /\ queue' \in Seq(AvailableTools)
      /\ node' = "analyze" => Len(queue') \in 0 .. CallsLeft
  <2>1. Smaller(CallsLeft, 3) \in Nat /\ Smaller(CallsLeft, 3) <= CallsLeft
    BY <1>1 DEF Smaller
  <2>2. more \in Additional
    BY DEF Verify
  <2>3. /\ ValidatePlan(more, Smaller(CallsLeft, 3)) \in Seq(AvailableTools)
        /\ Len(ValidatePlan(more, Smaller(CallsLeft, 3))) \in 0 .. Smaller(CallsLeft, 3)
    BY <2>1, <2>2, QueueFits
  <2>. QED
    BY <1>1, <1>4, <2>1, <2>3 DEF BudgetInv, Counters
<1>6. Counters'
  BY <1>3, <1>4, <1>5 DEF BudgetInv, Counters
<1>7. Begun' /\ CallsFit' /\ EvidenceFits'
  BY <1>1, <1>2, <1>3, <1>4, <1>5 DEF BudgetInv, Counters, Begun, CallsFit, EvidenceFits
<1>8. StepsFit'
  <2>1. rca' = NoReport
    BY <1>2, <1>3 DEF BudgetInv, Underway
  <2>2. steps' \in Nat /\ steps' <= limits.steps + 1 /\ node' \in {"analyze", "synthesize"}
    BY <1>1, <1>2, <1>3, <1>4 DEF BudgetInv, Counters
  <2>. QED
    BY <1>1, <1>3, <2>1, <2>2 DEF StepsFit
<1>9. VisitsFit'
  <2>1. visits <= calls + 3 + 2 * reanalysed
    BY <1>2 DEF BudgetInv, VisitsFit
  <2>. QED
    BY <1>3, <1>4, <2>1 DEF BudgetInv, Counters, VisitsFit
<1>. QED
  BY <1>6, <1>7, <1>8, <1>9 DEF BudgetInv

\* synthesize.
LEMMA BudgetSynthesize ==
  ASSUME BudgetInv, Underway', NEW answer, Synthesize(answer)
  PROVE  BudgetInv'
<1>1. /\ limits.calls \in Nat \ {0} /\ limits.steps \in Nat \ {0} /\ limits.items \in Nat \ {0}
  BY LimitFacts DEF BudgetInv
<1>2. node = "synthesize" /\ calls <= limits.calls /\ steps <= limits.steps /\ issued <= limits.items
  BY WithinLimits DEF Synthesize, Enter, BudgetInv
<1>3. /\ limits' = limits /\ visits' = visits + 1 /\ steps' = steps + 1 /\ queue' = queue
      /\ calls' = calls /\ items' = items /\ issued' = issued
      /\ reanalysed' = reanalysed /\ repaired' = repaired /\ node' = "validate"
  BY DEF Synthesize, Route, Record, TerminalStatuses
<1>4. Counters' /\ Begun' /\ CallsFit' /\ EvidenceFits'
  BY <1>1, <1>2, <1>3 DEF BudgetInv, Counters, Begun, CallsFit, EvidenceFits
<1>5. StepsFit'
  BY <1>1, <1>2, <1>3 DEF BudgetInv, Counters, StepsFit
<1>6. VisitsFit'
  BY <1>2, <1>3 DEF BudgetInv, Counters, VisitsFit
<1>. QED
  BY <1>4, <1>5, <1>6 DEF BudgetInv

\* validate, which checks no limit, repairs once.
LEMMA BudgetValidate ==
  ASSUME BudgetInv, Underway', Validate
  PROVE  BudgetInv'
<1>1. /\ limits.calls \in Nat \ {0} /\ limits.steps \in Nat \ {0} /\ limits.items \in Nat \ {0}
  BY LimitFacts DEF BudgetInv
<1>2. /\ node = "validate" /\ steps <= limits.steps + 4 /\ visits <= calls + 7 + 2 * repaired
      /\ rca # NoReport => steps <= limits.steps + 1 + 2 * repaired
  BY DEF Validate, BudgetInv, StepsFit, VisitsFit
<1>3. /\ limits' = limits /\ visits' = visits + 1 /\ steps' = steps + 1 /\ queue' = queue
      /\ calls' = calls /\ items' = items /\ issued' = issued /\ reanalysed' = reanalysed
  BY DEF Validate, Route, Record
<1>4. \/ node' = "END" /\ repaired' = repaired
      \/ node' = "synthesize" /\ rca # NoReport /\ repaired = 0 /\ repaired' = 1
  BY DEF Validate, Route, TerminalStatuses, MaxRepairAttempts, BudgetInv, Counters
<1>5. Counters' /\ Begun' /\ CallsFit' /\ EvidenceFits'
  BY <1>1, <1>2, <1>3, <1>4 DEF BudgetInv, Counters, Begun, CallsFit, EvidenceFits
<1>6. StepsFit'
  <2>1. steps' \in Nat /\ steps' <= limits.steps + 5
    BY <1>1, <1>2, <1>3 DEF BudgetInv, Counters
  <2>2. CASE node' = "END"
    BY <1>3, <2>1, <2>2 DEF StepsFit
  <2>3. CASE node' = "synthesize"
    <3>1. steps' <= limits.steps + 2 /\ repaired' = 1
      BY <1>1, <1>2, <1>3, <1>4, <2>3 DEF BudgetInv, Counters
    <3>. QED
      BY <1>1, <1>3, <2>1, <2>3, <3>1 DEF StepsFit
  <2>. QED
    BY <1>4, <2>2, <2>3
<1>7. VisitsFit'
  BY <1>2, <1>3, <1>4 DEF BudgetInv, Counters, VisitsFit
<1>. QED
  BY <1>5, <1>6, <1>7 DEF BudgetInv

\* Every node leaves a state in which the budgets hold.
LEMMA BudgetsInvariant == Spec => []BudgetInv
<1>1. Init => BudgetInv
  <2>. SUFFICES ASSUME Init PROVE BudgetInv
    OBVIOUS
  <2>1. Underway /\ Counters /\ Begun
    BY DEF Init, Underway, Nodes, TerminalStatuses, Counters, Begun
  <2>2. /\ limits.calls \in Nat \ {0} /\ limits.steps \in Nat \ {0} /\ limits.items \in Nat \ {0}
    BY <2>1, LimitFacts
  <2>3. CallsFit /\ EvidenceFits /\ StepsFit /\ VisitsFit
    BY <2>2 DEF Init, CallsFit, EvidenceFits, StepsFit, VisitsFit
  <2>. QED
    BY <2>1, <2>3 DEF BudgetInv
<1>2. BudgetInv /\ [Next]_vars => BudgetInv'
  <2>. SUFFICES ASSUME BudgetInv, [Next]_vars PROVE BudgetInv'
    OBVIOUS
  <2>0. Underway'
    BY UnderwayStep DEF BudgetInv
  <2>1. CASE TimeOut
    <3>1. node # "END"
      BY <2>1 DEF TimeOut, DegradeNext
    <3>. QED
      BY <2>0, <2>1, <3>1, BudgetStops DEF TimeOut, TerminalStatuses
  <2>2. ASSUME NEW error \in LlmErrors, LlmFails(error) PROVE BudgetInv'
    BY <2>0, <2>2, BudgetStops, FailureIsNoConclusion DEF LlmFails, TerminalStatuses
  <2>3. CASE Elapse \/ Finished \/ UNCHANGED vars
    <3>1. UNCHANGED <<limits, node, calls, steps, items, issued, queue, rca, reanalysed, repaired, visits>>
      BY <2>3 DEF Elapse, Finished, vars, usage
    <3>2. Counters' /\ Begun' /\ CallsFit' /\ EvidenceFits'
      BY <3>1 DEF BudgetInv, Counters, Begun, CallsFit, EvidenceFits
    <3>3. StepsFit' /\ VisitsFit'
      BY <3>1 DEF BudgetInv, StepsFit, VisitsFit
    <3>. QED
      BY <2>0, <3>2, <3>3 DEF BudgetInv
  <2>. QED
    BY <2>0, <2>1, <2>2, <2>3, BudgetDegrade, BudgetInitialize, BudgetPlan, BudgetCollect,
       BudgetAnalyze, BudgetVerify, BudgetSynthesize, BudgetValidate DEF Next, Step
<1>. QED
  BY <1>1, <1>2, PTL DEF Spec

\* For any limits, plans and answers, wherever the run stands and however often
\* it is checked: the bounds of InvestigationLimits (limits.py) hold with the
\* excess the nodes can run up between two checks, and LangGraph's recursion
\* limit is never reached.
THEOREM BoundedRuns == Spec => []BudgetsHold
<1>1. BudgetInv => BudgetsHold
  <2>. SUFFICES ASSUME BudgetInv PROVE BudgetsHold
    OBVIOUS
  <2>1. /\ limits.calls \in Nat \ {0} /\ limits.steps \in Nat \ {0} /\ limits.items \in Nat \ {0}
    BY LimitFacts DEF BudgetInv
  <2>. QED
    BY <2>1 DEF BudgetInv, Counters, CallsFit, EvidenceFits, StepsFit, VisitsFit, BudgetsHold,
                RecursionLimit
<1>. QED
  BY <1>1, BudgetsInvariant, PTL

-----------------------------------------------------------------------------
(* The evidence kept and the graph state's types.                          *)

\* Evidence is what the context numbered, and a number names one item.
Numbered(kept, last) ==
    /\ \A e \in kept : e.id \in 1 .. last
    /\ \A a, b \in kept : a.id = b.id => a = b

\* The result of one call gets numbers that no item has.
LEMMA IssueIsFresh ==
  ASSUME NEW kept, NEW from \in Nat, NEW result \in Seq(Items), Numbered(kept, from)
  PROVE  Numbered(kept \cup Issue(result, from), from + Len(result))
<1>1. Len(result) \in Nat /\ DOMAIN result = 1 .. Len(result)
  BY LenProperties
<1>. DEFINE It(i) == [id |-> from + i, type |-> result[i].type, strong |-> result[i].strong,
                      signals |-> result[i].signals]
<1>2. \A e \in Issue(result, from) : \E i \in 1 .. Len(result) : e = It(i)
  BY <1>1 DEF Issue
<1>3. \A i \in 1 .. Len(result) : It(i).id = from + i
  OBVIOUS
<1>. HIDE DEF It
<1>4. \A e \in Issue(result, from) : \E i \in 1 .. Len(result) : e = It(i) /\ e.id = from + i
  BY <1>2, <1>3
<1>5. \A e \in kept : e.id \in Nat /\ 1 <= e.id /\ e.id <= from
  BY DEF Numbered
<1>6. \A e \in Issue(result, from) : e.id \in Nat /\ from < e.id /\ e.id <= from + Len(result)
  <2>1. ASSUME NEW e \in Issue(result, from)
        PROVE  e.id \in Nat /\ from < e.id /\ e.id <= from + Len(result)
    <3>1. PICK i \in 1 .. Len(result) : e.id = from + i
      BY <1>4
    <3>. QED
      BY <1>1, <3>1
  <2>. QED
    BY <2>1
<1>7. \A e \in kept \cup Issue(result, from) : e.id \in 1 .. from + Len(result)
  BY <1>1, <1>5, <1>6
<1>8. ASSUME NEW a \in kept \cup Issue(result, from), NEW b \in kept \cup Issue(result, from),
             a.id = b.id
      PROVE  a = b
  <2>1. CASE a \in kept
    <3>1. b \in kept
      BY <1>5, <1>6, <1>8, <2>1
    <3>. QED
      BY <1>8, <2>1, <3>1 DEF Numbered
  <2>2. CASE a \in Issue(result, from)
    <3>1. b \in Issue(result, from)
      BY <1>5, <1>6, <1>8, <2>2
    <3>2. PICK i \in 1 .. Len(result) : a = It(i) /\ a.id = from + i
      BY <1>4, <2>2
    <3>3. PICK j \in 1 .. Len(result) : b = It(j) /\ b.id = from + j
      BY <1>4, <3>1
    <3>4. i = j
      BY <1>1, <1>8, <3>2, <3>3
    <3>. QED
      BY <3>2, <3>3, <3>4
  <2>. QED
    BY <2>1, <2>2
<1>. QED
  BY <1>7, <1>8 DEF Numbered

\* A later number does not hurt.
LEMMA NumbersGrow ==
  ASSUME NEW kept, NEW m \in Nat, NEW n \in Nat, m <= n, Numbered(kept, m)
  PROVE  Numbered(kept, n)
BY DEF Numbered

\* There are as many ids as items, finitely many of both.
LEMMA NumbersCount ==
  ASSUME NEW kept, NEW last \in Nat, Numbered(kept, last)
  PROVE  /\ IsFiniteSet(kept) /\ Ids(kept) \subseteq 1 .. last
         /\ Cardinality(Ids(kept)) = Cardinality(kept)
<1>1. PICK f : f = [e \in kept |-> e.id]
  OBVIOUS
<1>2. Ids(kept) \subseteq 1 .. last /\ IsFiniteSet(1 .. last)
  BY FS_Interval DEF Numbered, Ids
<1>3. f \in Injection(kept, 1 .. last)
  BY <1>1 DEF Numbered, Injection, IsInjective
<1>4. IsFiniteSet(kept)
  BY <1>2, <1>3, FS_Injection
<1>5. f \in Bijection(kept, Ids(kept))
  BY <1>1 DEF Numbered, Ids, Bijection, Injection, IsInjective, Surjection
<1>6. ExistsBijection(kept, Ids(kept))
  BY <1>5 DEF ExistsBijection
<1>. QED
  BY <1>2, <1>4, <1>6, FS_Bijection

\* Every node keeps the evidence numbered.
LEMMA NumberedStep ==
  ASSUME BudgetInv, BudgetInv', Numbered(evidence, issued), [Next]_vars
  PROVE  Numbered(evidence, issued)'
<1>0. issued \in Nat /\ issued' \in Nat
  BY DEF BudgetInv, Counters
<1>1. CASE UNCHANGED <<evidence, issued>>
  BY <1>1
<1>2. ASSUME NEW result \in Yields("get_incident", limits.items), Initialize(result)
      PROVE  Numbered(evidence, issued)'
  <2>1. CASE Exceeded # "none"
    BY <1>2, <2>1 DEF Initialize
  <2>2. CASE Exceeded = "none"
    <3>1. result \in Seq(Items)
      <4>1. "get_incident" \in AvailableTools
        BY DEF AvailableTools, Registered, UnavailableTools
      <4>2. limits.items \in Nat
        BY LimitFacts DEF BudgetInv
      <4>. QED
        BY <1>2, <4>1, <4>2, YieldsFit
    <3>2. issued' = issued + Len(result) /\ evidence' = {} \cup Issue(result, issued)
      BY <1>2, <2>2, <3>1, OneCall DEF Initialize
    <3>3. Numbered({}, issued)
      BY DEF Numbered
    <3>. QED
      BY <1>0, <3>1, <3>2, <3>3, IssueIsFresh
  <2>. QED
    BY <2>1, <2>2
<1>3. ASSUME NEW result, Collect(result) PROVE Numbered(evidence, issued)'
  <2>1. result \in Seq(Items)
    <3>1. queue \in Seq(AvailableTools) /\ queue # <<>> /\ result \in Yields(Head(queue), Remaining)
      BY <1>3 DEF Collect, BudgetInv, Counters
    <3>2. Head(queue) \in AvailableTools /\ Remaining \in Nat
      BY <3>1, HeadTailProperties, LimitFacts DEF BudgetInv
    <3>. QED
      BY <3>1, <3>2, YieldsFit
  <2>2. issued' = issued + Len(result) /\ evidence' = evidence \cup Issue(result, issued)
    BY <1>3, <2>1, OneCall DEF Collect
  <2>. QED
    BY <1>0, <2>1, <2>2, IssueIsFresh
<1>4. ASSUME NEW l, NEW results \in DrainResults, Analyze(l, results)
      PROVE  Numbered(evidence, issued)'
  <2>1. PICK got \in Nat : got = Len(FlattenSeq(results))
    BY <1>4, DrainFits DEF Analyze, Enter
  <2>2. evidence' = evidence /\ issued' = issued + got
    BY <1>4, <2>1 DEF Analyze, Called
  <2>. QED
    BY <1>0, <2>2, NumbersGrow
<1>5. CASE \/ Degrade \/ TimeOut \/ Validate \/ Elapse \/ Finished \/ UNCHANGED vars
           \/ \E error \in LlmErrors : LlmFails(error)
           \/ \E first, second \in PlanAnswers : Plan(first, second)
           \/ \E verdicts \in Verdicts, more \in Additional : Verify(verdicts, more)
           \/ \E answer \in Syntheses : Synthesize(answer)
  BY <1>1, <1>5 DEF Degrade, TimeOut, Validate, Elapse, Finished, vars, usage, LlmFails, Plan,
                    Verify, Synthesize
<1>. QED
  BY <1>2, <1>3, <1>4, <1>5 DEF Next, Step

\* The hypotheses of both models come as a list.
LEMMA HypothesesAreSequences ==
  ASSUME NEW seen, NEW answer \in Analyses(seen)
  PROVE  \E X : answer.hyps \in Seq(X)
<1>1. CASE mode = "mock"
  <2>1. answer.hyps = MockHypotheses(seen)
    BY <1>1 DEF Analyses
  <2>2. \E X : MockHypotheses(seen) \in Seq(X)
    <3>. DEFINE anomalies == OfType(seen, "ANOMALY")
                related   == OfType(seen, "RELATED_INCIDENT")
                first     == {i \in Ids(anomalies) : \A j \in Ids(anomalies) : i <= j}
                When(test, h) == IF test THEN <<h>> ELSE <<>>
    <3>1. PICK h : h = Hypothesis(Ids(anomalies), {}, "none")
      OBVIOUS
    <3>2. PICK g : g = Hypothesis(Ids(related), first, "none")
      OBVIOUS
    <3>3. MockHypotheses(seen) = When(Signals(seen, 1), h) \o When(related # {}, g) \o When(Signals(seen, 2), h)
      BY <3>1, <3>2 DEF MockHypotheses
    <3>4. <<>> \in Seq({g, h}) /\ <<g>> \in Seq({g, h}) /\ <<h>> \in Seq({g, h})
      OBVIOUS
    <3>5. /\ When(Signals(seen, 1), h) \in Seq({g, h}) /\ When(related # {}, g) \in Seq({g, h})
          /\ When(Signals(seen, 2), h) \in Seq({g, h})
      BY <3>4
    <3>. HIDE DEF When
    <3>6. MockHypotheses(seen) \in Seq({g, h})
      BY <3>3, <3>5
    <3>. QED
      BY <3>6
  <2>. QED
    BY <2>1, <2>2
<1>2. CASE mode # "mock"
  <2>1. \/ answer.hyps = <<>>
        \/ \E c \in Citations(seen) : answer.hyps = <<Hypothesis(c, {}, "none")>>
    BY <1>2 DEF Analyses, LiveAnalyses
  <2>2. CASE answer.hyps = <<>>
    BY <2>2
  <2>3. ASSUME NEW c, answer.hyps = <<Hypothesis(c, {}, "none")>>
        PROVE  \E X : answer.hyps \in Seq(X)
    <3>1. PICK h : h = Hypothesis(c, {}, "none")
      OBVIOUS
    <3>2. answer.hyps \in Seq({h})
      BY <2>3, <3>1
    <3>. QED
      BY <3>2
  <2>. QED
    BY <2>1, <2>2, <2>3
<1>. QED
  BY <1>1, <1>2

\* analyze cuts them to the bound.
LEMMA HypothesesCut ==
  ASSUME NEW seen, NEW answer \in Analyses(seen)
  PROVE  Len(SubSeq(answer.hyps, 1, Smaller(MaxHypotheses, Len(answer.hyps)))) <= MaxHypotheses
<1>1. PICK X : answer.hyps \in Seq(X)
  BY HypothesesAreSequences
<1>2. Len(answer.hyps) \in Nat /\ MaxHypotheses \in Nat
  BY <1>1, EngineAssumption, LenProperties
<1>3. PICK m \in Nat : m = Smaller(MaxHypotheses, Len(answer.hyps)) /\ m <= MaxHypotheses /\ m <= Len(answer.hyps)
  BY <1>2 DEF Smaller
<1>4. Len(SubSeq(answer.hyps, 1, m)) = m
  BY <1>1, <1>2, <1>3
<1>. QED
  BY <1>2, <1>3, <1>4

\* How a run stands, and what it has written.
Shape ==
    /\ status \in Statuses /\ late \in BOOLEAN
    /\ node = "END" => status \in TerminalStatuses
    /\ rca # NoReport => rca.status \in {"COMPLETED", "INSUFFICIENT_EVIDENCE"}
    /\ Len(analysis.hyps) <= MaxHypotheses

\* Every node leaves its part of it so.
LEMMA ShapeStep ==
  ASSUME Underway, Shape, [Next]_vars
  PROVE  Shape'
<1>. USE DEF Shape, Statuses, TerminalStatuses
<1>1. CASE Degrade
  <2>1. /\ DegradeNext[node].status \in {"VERIFYING", "ANALYZING"} /\ DegradeNext[node].node # "END"
    BY <1>1 DEF Degrade, DegradeNext
  <2>. QED
    BY <1>1, <2>1 DEF Degrade, Route
<1>2. CASE TimeOut
  BY <1>2 DEF TimeOut, Route, usage
<1>3. ASSUME NEW error \in LlmErrors, LlmFails(error) PROVE Shape'
  BY <1>3, FailureIsNoConclusion DEF LlmFails, Route, usage
<1>4. ASSUME NEW result, Initialize(result) PROVE Shape'
  BY <1>4 DEF Initialize, Route
<1>5. ASSUME NEW first, NEW second, Plan(first, second) PROVE Shape'
  BY <1>5 DEF Plan, Enter, Route
<1>6. ASSUME NEW result, Collect(result) PROVE Shape'
  <2>1. node = "collect" /\ status \notin TerminalStatuses
    BY <1>6 DEF Collect, Enter, Underway
  <2>. QED
    BY <1>6, <2>1 DEF Collect, Route
<1>7. ASSUME NEW l \in BOOLEAN, NEW results, Analyze(l, results) PROVE Shape'
  <2>1. late' = l /\ UNCHANGED <<rca>>
    BY <1>7 DEF Analyze
  <2>2. status' \in Statuses /\ (node' = "END" => status' \in TerminalStatuses)
    BY <1>7, FailureIsNoConclusion DEF Analyze, Route
  <2>3. Len(analysis'.hyps) <= MaxHypotheses
    <3>1. CASE UNCHANGED analysis
      BY <3>1
    <3>2. CASE \E answer \in Analyses(evidence \cup Gathered(results)) :
                 analysis' = [findings |-> answer.findings,
                   hyps |-> SubSeq(answer.hyps, 1, Smaller(MaxHypotheses, Len(answer.hyps)))]
      <4>1. PICK answer \in Analyses(evidence \cup Gathered(results)) :
              analysis' = [findings |-> answer.findings,
                hyps |-> SubSeq(answer.hyps, 1, Smaller(MaxHypotheses, Len(answer.hyps)))]
        BY <3>2
      <4>2. PICK cut : cut = SubSeq(answer.hyps, 1, Smaller(MaxHypotheses, Len(answer.hyps)))
        OBVIOUS
      <4>3. analysis'.hyps = cut
        BY <4>1, <4>2
      <4>4. Len(cut) <= MaxHypotheses
        BY <4>2, HypothesesCut
      <4>. QED
        BY <4>3, <4>4
    <3>. QED
      BY <1>7, <3>1, <3>2 DEF Analyze
  <2>. QED
    BY <2>1, <2>2, <2>3
<1>8. ASSUME NEW verdicts, NEW more, Verify(verdicts, more) PROVE Shape'
  BY <1>8 DEF Verify, Enter, Route
<1>9. ASSUME NEW answer, Synthesize(answer) PROVE Shape'
  <2>1. rca'.status \in {"COMPLETED", "INSUFFICIENT_EVIDENCE"}
    BY <1>9 DEF Synthesize, BuildReport
  <2>. QED
    BY <1>9, <2>1 DEF Synthesize, Route
<1>10. CASE Validate
  <2>1. FallbackReport(hypotheses, evidence).status = "INSUFFICIENT_EVIDENCE"
    BY DEF FallbackReport
  <2>. QED
    BY <1>10, <2>1 DEF Validate, Route
<1>11. CASE Elapse \/ Finished \/ UNCHANGED vars
  BY <1>11 DEF Elapse, Finished, vars, usage
<1>. QED
  BY <1>1, <1>2, <1>3, <1>4, <1>5, <1>6, <1>7, <1>8, <1>9, <1>10, <1>11 DEF Next, Step

\* The graph state keeps its types, for any plans, answers and tool results:
\* every evidence id was issued by the context and names one item, the queue
\* holds available tools, the re-analysis and the repair happen once at most,
\* and a run is at END exactly when its status is terminal (engine/nodes.py).
THEOREM TypeCorrectness == Spec => []TypeOK
<1>. DEFINE Inv == Numbered(evidence, issued) /\ Shape
<1>1. Init => Inv
  <2>1. ASSUME Init PROVE Numbered(evidence, issued)
    BY <2>1 DEF Init, Numbered
  <2>2. ASSUME Init PROVE Shape
    <3>1. analysis.hyps = <<>> /\ Len(<<>>) <= MaxHypotheses
      BY <2>2, EngineAssumption DEF Init, NoAnalysis
    <3>2. Len(analysis.hyps) <= MaxHypotheses
      BY <3>1, Zenon
    <3>3. status = "PENDING" /\ late = FALSE /\ node # "END" /\ rca = NoReport
      BY <2>2 DEF Init
    <3>. QED
      BY <3>2, <3>3 DEF Shape, Statuses
  <2>. QED
    BY <2>1, <2>2
<1>2. BudgetInv /\ BudgetInv' /\ Inv /\ [Next]_vars => Inv'
  <2>. SUFFICES ASSUME BudgetInv, BudgetInv', Inv, [Next]_vars PROVE Inv'
    OBVIOUS
  <2>1. Shape'
    BY ShapeStep DEF BudgetInv
  <2>2. Numbered(evidence, issued)'
    BY NumberedStep
  <2>. QED
    BY <2>1, <2>2
<1>3. BudgetInv /\ Inv => TypeOK
  <2>. SUFFICES ASSUME BudgetInv, Inv PROVE TypeOK
    OBVIOUS
  <2>1. Underway /\ Counters /\ Numbered(evidence, issued) /\ Shape
    BY DEF BudgetInv
  <2>2. Ids(evidence) \subseteq 1 .. issued /\ Cardinality(Ids(evidence)) = Cardinality(evidence)
    BY <2>1, NumbersCount DEF Counters
  <2>3. \A k \in DOMAIN queue : queue[k] \in AvailableTools
    BY <2>1 DEF Counters
  <2>4. items = issued /\ calls \in Nat /\ steps \in Nat /\ items \in Nat
    BY <2>1 DEF Counters
  <2>5. reanalysed \in 0 .. 1 /\ repaired \in 0 .. MaxRepairAttempts
    BY <2>1 DEF Counters, MaxRepairAttempts
  <2>6. /\ node \in Nodes \cup {"END"} /\ status \in Statuses /\ late \in BOOLEAN
        /\ Len(analysis.hyps) <= MaxHypotheses
        /\ node = "END" <=> status \in TerminalStatuses
    BY <2>1 DEF Underway, Shape
  <2>. QED
    BY <2>2, <2>3, <2>4, <2>5, <2>6 DEF TypeOK
<1>. QED
  BY <1>1, <1>2, <1>3, BudgetsInvariant, PTL DEF Spec
=============================================================================
