-------------------------- MODULE InvestigationEngine --------------------------
(***************************************************************************)
(* One run of the bounded investigation graph (engine/nodes.py over        *)
(* LangGraph): initialize, plan, collect*, analyze, verify, synthesize,    *)
(* validate, with one re-analysis and one repair.  A node is one step.     *)
(* The model's answers and the tools' results are arbitrary; the limits,   *)
(* the reference filter and the validation are the code's own.             *)
(*                                                                         *)
(* Time is one bit: whether the run is older than timeout_seconds.  It may *)
(* turn between any two checks, also inside the loop of follow-up calls.   *)
(***************************************************************************)
EXTENDS RcaReasoner

CONSTANTS
    Modes,           \* the modes to run: "mock", "live"
    LimitChoices,    \* the limits to run with
    MaxHypotheses    \* max_hypotheses

ASSUME EngineAssumption ==
    /\ Modes \subseteq {"mock", "live"}
    /\ LimitChoices \subseteq [calls : Nat \ {0}, steps : Nat \ {0}, items : Nat \ {0}]
    /\ MaxHypotheses \in Nat \ {0}

VARIABLES
    mode, limits,    \* fixed by the settings
    node,            \* the node that runs next, or END
    status,
    calls, steps, items, late,    \* ResourceUsage
    issued,          \* evidence ids the ToolContext has handed out
    evidence,        \* the graph state's evidence
    queue,           \* validated tool calls still to make
    analysis,        \* proposed findings and hypotheses
    hypotheses,      \* verified hypotheses
    rca,             \* the report, or NoReport
    reanalysed, repaired,
    visits           \* nodes run, what LangGraph's recursion limit counts

usage == <<calls, steps, items, late, issued>>
vars == <<mode, limits, node, status, usage, evidence, queue, analysis, hypotheses,
          rca, reanalysed, repaired, visits>>

Nodes == {"initialize", "plan", "collect", "analyze", "verify", "synthesize", "validate"}
TerminalStatuses == {"COMPLETED", "INSUFFICIENT_EVIDENCE", "FAILED", "TIMED_OUT"}
NoReport == [status |-> "NONE"]
NoAnalysis == [findings |-> {}, hyps |-> <<>>]

Init ==
    /\ mode \in Modes
    /\ limits \in LimitChoices
    /\ node = "initialize"
    /\ status = "PENDING"
    /\ calls = 0 /\ steps = 0 /\ items = 0 /\ late = FALSE
    /\ issued = 0
    /\ evidence = {}
    /\ queue = <<>>
    /\ analysis = NoAnalysis
    /\ hypotheses = <<>>
    /\ rca = NoReport
    /\ reanalysed = 0 /\ repaired = 0
    /\ visits = 0

-----------------------------------------------------------------------------
(* Building blocks.                                                        *)

RecursionLimit == 3 * (limits.calls + limits.steps) + 25

\* check_limits: the first bound that is exceeded.
Exceeded ==
    IF calls > limits.calls THEN "tool_calls"
    ELSE IF steps > limits.steps THEN "steps"
    ELSE IF items > limits.items THEN "evidence_items"
    ELSE IF late THEN "time"
    ELSE "none"

\* timeout_seconds pass.
Elapse ==
    /\ node # "END" /\ ~ late
    /\ late' = TRUE
    /\ UNCHANGED <<mode, limits, node, status, calls, steps, items, issued, evidence,
                   queue, analysis, hypotheses, rca, reanalysed, repaired, visits>>

\* _route: a terminal status ends the graph, whatever `next' says.
Route(next, s) ==
    /\ node' = IF s \in TerminalStatuses THEN "END" ELSE next
    /\ status' = s
    /\ visits' = visits + 1
    /\ UNCHANGED <<mode, limits>>

Record(n) == steps' = steps + n

Remaining == IF limits.items > issued THEN limits.items - issued ELSE 0

\* The items of one tool result with the ids the context gives them.
Issue(result, from) ==
    {[id |-> from + i, type |-> result[i].type, strong |-> result[i].strong,
      signals |-> result[i].signals] : i \in DOMAIN result}

\* run_validated_call, once for each result.
Called(results) ==
    LET got == Len(FlattenSeq(results))
    IN  calls' = calls + Len(results) /\ items' = items + got /\ issued' = issued + got

\* At the top of the node its limits hold.
Enter(n) == node = n /\ Exceeded = "none"

-----------------------------------------------------------------------------
(* The guard of every node but initialize and validate.                    *)

DegradeNext ==
    [plan |-> [node |-> "synthesize", status |-> "VERIFYING"],
     collect |-> [node |-> "analyze", status |-> "ANALYZING"],
     analyze |-> [node |-> "synthesize", status |-> "VERIFYING"],
     verify |-> [node |-> "synthesize", status |-> "VERIFYING"],
     synthesize |-> [node |-> "validate", status |-> "VERIFYING"]]

\* A count limit moves the run on to the next stage.
Degrade ==
    /\ node \in DOMAIN DegradeNext
    /\ Exceeded \notin {"none", "time"}
    /\ Route(DegradeNext[node].node, DegradeNext[node].status)
    /\ Record(1)
    /\ queue' = <<>>
    /\ UNCHANGED <<calls, items, late, issued, evidence, analysis, hypotheses, rca,
                   reanalysed, repaired>>

\* Mutant of TimeOut: the node waits for the clock instead of ending the run.
MutantTimeOutWaits ==
    /\ node \in DOMAIN DegradeNext
    /\ Exceeded = "time"
    /\ UNCHANGED vars

\* The clock ends it; a report that is already in the state stays there.
TimeOut ==
    /\ node \in DOMAIN DegradeNext
    /\ Exceeded = "time"
    /\ Route("END", "TIMED_OUT")
    /\ UNCHANGED <<usage, evidence, queue, analysis, hypotheses, rca, reanalysed, repaired>>

\* The model fails in a node that has done nothing before it asks.
LlmFails(error) ==
    /\ mode = "live"
    /\ node \in {"plan", "verify", "synthesize"}
    /\ Exceeded = "none"
    /\ Route("END", LlmTerminal(error))
    /\ UNCHANGED <<usage, evidence, queue, analysis, hypotheses, rca, reanalysed, repaired>>

-----------------------------------------------------------------------------
(* initialize, plan, collect.                                              *)

\* The incident is loaded by the engine itself, not on the model's word.
Initialize(result) ==
    /\ node = "initialize"
    /\ IF Exceeded # "none"
         THEN /\ Route("END", "TIMED_OUT")
              /\ Record(1)
              /\ UNCHANGED <<calls, items, issued, evidence>>
         ELSE /\ IF result = FailedCall THEN Route("END", "FAILED") ELSE Route("plan", "PLANNING")
              /\ Record(IF result = FailedCall THEN 1 ELSE 2)
              /\ Called(<<result>>)
              /\ evidence' = Issue(result, issued)
    /\ UNCHANGED <<late, queue, analysis, hypotheses, rca, reanalysed, repaired>>

\* Mutant of CallsLeft: forgets the calls already made.
MutantCallsLeftAll == limits.calls

CallsLeft == IF limits.calls > calls THEN limits.calls - calls ELSE 0

\* The plan of the model, or its one repair if nothing of the first is usable.
PlanAnswers == IF mode = "mock" THEN {MockPlan} ELSE Plans

Plan(first, second) ==
    LET accepted == ValidatePlan(first, CallsLeft)
        final    == IF accepted = <<>> THEN ValidatePlan(second, CallsLeft) ELSE accepted
    IN  /\ Enter("plan")
        /\ first \in PlanAnswers /\ second \in PlanAnswers
        /\ accepted # <<>> => second = first
        /\ IF final = <<>> THEN Route("END", "INSUFFICIENT_EVIDENCE")
                           ELSE Route("collect", "COLLECTING_EVIDENCE")
        /\ queue' = final
        /\ Record(1)
        /\ UNCHANGED <<calls, items, late, issued, evidence, analysis, hypotheses, rca,
                       reanalysed, repaired>>

\* One queued call; the loop ends with the queue or with the evidence budget.
Collect(result) ==
    LET more == Len(queue) > 1 /\ limits.items > issued + Len(result)
    IN  /\ Enter("collect")
        /\ queue # <<>>
        /\ result \in Yields(Head(queue), Remaining)
        /\ Called(<<result>>)
        /\ evidence' = evidence \cup Issue(result, issued)
        /\ queue' = Tail(queue)
        /\ Record(1)
        /\ IF more THEN Route("collect", status) ELSE Route("analyze", "ANALYZING")
        /\ UNCHANGED <<late, analysis, hypotheses, rca, reanalysed, repaired>>

-----------------------------------------------------------------------------
(* analyze, verify.                                                        *)

\* _drain_extra_queue: results holds what the follow-up calls returned.  The
\* loop stops at the end of the queue, at the evidence budget or at a limit,
\* the clock's included.
Drained(results, l) ==
    LET got(k)  == issued + Len(FlattenSeq(SubSeq(results, 1, k)))
        open(k) == got(k) < limits.items /\ steps + k <= limits.steps
    IN  /\ late => l
        /\ Len(results) <= Len(queue)
        /\ \A k \in DOMAIN results :
             open(k - 1) /\ results[k] \in Yields(queue[k], limits.items - got(k - 1))
        /\ Len(results) = Len(queue) \/ ~ open(Len(results)) \/ l

\* What the follow-up calls may return; without budget there are none.
DrainResults ==
    {<<>>} \cup UNION {[1 .. n -> UNION {Yields(queue[k], Remaining) : k \in 1 .. n}] :
                         n \in IF node = "analyze" /\ Remaining > 0 THEN DOMAIN queue ELSE {}}

\* All that the follow-up calls brought, with its ids.
Gathered(results) == Issue(FlattenSeq(results), issued)

Analyses(seen) ==
    IF mode = "mock" THEN {[findings |-> MockFindings(seen), hyps |-> MockHypotheses(seen)]}
                     ELSE LiveAnalyses(seen)

\* The follow-up evidence is shown to the model but not kept in the state.
Analyze(l, results) ==
    /\ Enter("analyze")
    /\ Drained(results, l)
    /\ late' = l
    /\ Called(results)
    /\ \/ /\ \E answer \in Analyses(evidence \cup Gathered(results)) :
             analysis' = [findings |-> answer.findings,
                          hyps |-> SubSeq(answer.hyps, 1, Smaller(MaxHypotheses, Len(answer.hyps)))]
          /\ Record(Len(results) + 1)
          /\ Route("verify", "VERIFYING")
       \/ /\ mode = "live"
          /\ \E error \in LlmErrors : Route("END", LlmTerminal(error))
          /\ Record(Len(results))
          /\ UNCHANGED analysis
    /\ UNCHANGED <<evidence, queue, hypotheses, rca, reanalysed, repaired>>

Verdicts == IF mode = "mock" THEN {MockVerdicts(analysis.hyps)} ELSE LiveVerdicts(analysis.hyps)

\* The further calls the model asks for, if it says it needs more evidence.
Additional ==
    IF mode = "live" THEN Plans \cup {<<>>}
    ELSE IF reanalysed < 1 /\ MockNeedsMore(analysis.hyps, evidence)
      THEN {<<Call("get_service_metrics", TRUE)>>} ELSE {<<>>}

Verify(verdicts, more) ==
    LET extra == IF reanalysed < 1 THEN ValidatePlan(more, Smaller(CallsLeft, 3)) ELSE <<>>
    IN  /\ Enter("verify")
        /\ verdicts \in Verdicts /\ more \in Additional
        /\ hypotheses' = [i \in DOMAIN analysis.hyps |->
                            Assess(analysis.hyps[i], verdicts[i], Ids(evidence))]
        /\ IF extra # <<>>
             THEN /\ Route("analyze", "ANALYZING")
                  /\ queue' = extra
                  /\ reanalysed' = reanalysed + 1
             ELSE Route("synthesize", "VERIFYING") /\ UNCHANGED <<queue, reanalysed>>
        /\ Record(1)
        /\ UNCHANGED <<calls, items, late, issued, evidence, analysis, rca, repaired>>

-----------------------------------------------------------------------------
(* synthesize, validate.                                                   *)

Syntheses ==
    IF mode = "mock" THEN {MockSynthesis(hypotheses, evidence, repaired > 0)}
                     ELSE LiveSyntheses(evidence)

Synthesize(answer) ==
    /\ Enter("synthesize")
    /\ answer \in Syntheses
    /\ rca' = BuildReport(answer, analysis.findings, hypotheses, evidence)
    /\ Record(1)
    /\ Route("validate", "VERIFYING")
    /\ UNCHANGED <<calls, items, late, issued, evidence, queue, analysis, hypotheses,
                   reanalysed, repaired>>

MaxRepairAttempts == 1

\* The gate every answer passes, with no limit in front of it.
Validate ==
    LET valid == rca # NoReport /\ ValidReport(rca, Ids(evidence))
        again == rca # NoReport /\ ~ valid /\ repaired < MaxRepairAttempts
        safe  == FallbackReport(hypotheses, evidence)
    IN  /\ node = "validate"
        /\ IF valid THEN Route("END", rca.status) /\ UNCHANGED rca
           ELSE IF again THEN Route("synthesize", "VERIFYING") /\ UNCHANGED rca
           ELSE IF ValidReport(safe, Ids(evidence))
             THEN Route("END", "INSUFFICIENT_EVIDENCE") /\ rca' = safe
             ELSE Route("END", "FAILED") /\ UNCHANGED rca
        /\ repaired' = IF again THEN repaired + 1 ELSE repaired
        /\ Record(1)
        /\ UNCHANGED <<calls, items, late, issued, evidence, queue, analysis, hypotheses,
                       reanalysed>>

-----------------------------------------------------------------------------
Step ==
    \/ Degrade \/ TimeOut
    \/ \E error \in LlmErrors : LlmFails(error)
    \/ \E result \in Yields("get_incident", limits.items) : Initialize(result)
    \/ \E first, second \in PlanAnswers : Plan(first, second)
    \/ \E result \in IF queue = <<>> THEN {} ELSE Yields(Head(queue), Remaining) : Collect(result)
    \/ \E l \in BOOLEAN, results \in DrainResults : Analyze(l, results)
    \/ \E verdicts \in Verdicts, more \in Additional : Verify(verdicts, more)
    \/ \E answer \in Syntheses : Synthesize(answer)
    \/ Validate

Finished == node = "END" /\ UNCHANGED vars

Next == Step \/ Elapse \/ Finished

Spec == Init /\ [][Next]_vars

\* The task that runs the graph is not abandoned; every model call and tool
\* call has a timeout of its own.
FairSpec == Spec /\ WF_vars(Step)

-----------------------------------------------------------------------------
(* Properties.                                                             *)

Statuses == TerminalStatuses \cup
            {"PENDING", "PLANNING", "COLLECTING_EVIDENCE", "ANALYZING", "VERIFYING"}

\* The graph state's values.
TypeOK ==
    /\ node \in Nodes \cup {"END"} /\ status \in Statuses
    /\ calls \in Nat /\ steps \in Nat /\ items \in Nat /\ late \in BOOLEAN
    /\ items = issued
    /\ Ids(evidence) \subseteq 1 .. issued /\ Cardinality(Ids(evidence)) = Cardinality(evidence)
    /\ \A k \in DOMAIN queue : queue[k] \in AvailableTools
    /\ Len(analysis.hyps) <= MaxHypotheses
    /\ reanalysed \in 0 .. 1 /\ repaired \in 0 .. MaxRepairAttempts
    /\ node = "END" <=> status \in TerminalStatuses

\* The limits hold although they are compared with > after the fact, in nodes
\* that make several calls and record several steps between two checks: calls
\* never exceed max_tool_calls, evidence exceeds max_evidence_items by the
\* incident itself at most, the steps by the longest unchecked tail, and
\* LangGraph's recursion limit (graph.py) never fires.
BudgetsHold ==
    /\ calls <= limits.calls
    /\ issued <= limits.items \/ issued = 2
    /\ steps <= limits.steps + 5
    /\ visits <= RecursionLimit

\* What a run that ends in COMPLETED or INSUFFICIENT_EVIDENCE reports passed the
\* gate of validate as it stands: the run and the report agree on the status,
\* every citation is an evidence id that a tool call of this run returned, and
\* only a COMPLETED report names a cause.
ConclusionsGrounded ==
    node = "END" /\ status \in {"COMPLETED", "INSUFFICIENT_EVIDENCE"} /\ rca # NoReport =>
        /\ rca.status = status
        /\ ReferencedIds(rca) \subseteq Ids(evidence)
        /\ Consistent(rca)

\* Every run reaches END: the re-analysis, the repair and the collection loop
\* are bounded, and no node waits for another.
Terminates == <>(node = "END")

\* What tools/context.py says of validation: references are checked against
\* exactly the evidence ids the context has issued.  No run checks this: the
\* evidence Analyze gathers is not put into the state (README, section 5).
CheckedAgainstIssued == node = "validate" => Ids(evidence) = 1 .. issued
=============================================================================
