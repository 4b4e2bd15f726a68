----------------------------- MODULE Investigation -----------------------------
(***************************************************************************)
(* The life cycle of an investigation in the RCA agent: started by         *)
(* incident.opened (IncidentEventConsumer.handle) or by an operator (POST  *)
(* /investigations, BackgroundInvestigationRunner), reserved by one INSERT, *)
(* run by the bounded engine, completed by one UPDATE.                     *)
(*                                                                         *)
(* A run is a process: the Kafka handler, or an API request together with  *)
(* the background task it leaves behind.  Every `await' of the repository  *)
(* ends a step.  The engine is one step with any terminal result (module   *)
(* InvestigationEngine opens it up).                                       *)
(***************************************************************************)
EXTENDS IdempotentConsumer

CONSTANTS
    Incidents,
    Message,       \* offset -> the record: its kind and its incident
    Callers,       \* concurrent POST /investigations
    Handler,       \* the Kafka handler, the other process that starts runs
    Nobody,
    MaxRuns        \* bounds the rows of the table investigations

Runs == 1 .. MaxRuns     \* rows in the order of created_at
Starters == Callers \cup {Handler}

TerminalStatuses == {"COMPLETED", "INSUFFICIENT_EVIDENCE", "FAILED", "TIMED_OUT"}
ActiveStatuses == {"PENDING", "PLANNING", "COLLECTING_EVIDENCE", "ANALYZING", "VERIFYING"}

ASSUME InvestigationAssumption ==
    /\ Message \in [Offsets -> [type : {"incident.opened", "incident.updated"},
                                version : Nat, valid : BOOLEAN, incident : Incidents]]
    /\ Handler \notin Callers
    /\ Nobody \notin Incidents
    /\ MaxRuns \in Nat

VARIABLES
    investigations,  \* the table: run -> row
    starter          \* the starters' local state

vars == <<consumerVars, investigations, starter>>

NoRun == 0
Row(incident, trigger, status, report) ==
    [incident |-> incident, trigger |-> trigger, status |-> status, report |-> report]
Absent == Row(Nobody, "NONE", "ABSENT", FALSE)

StarterAt(pc, incident, run, status) ==
    [pc |-> pc, incident |-> incident, run |-> run, status |-> status, saw |-> {}]
Idle == StarterAt("idle", Nobody, NoRun, "ABSENT")

Init ==
    /\ ConsumerInit
    /\ investigations = [n \in Runs |-> Absent]
    /\ starter = [s \in Starters |-> Idle]

Exists(n) == investigations[n] # Absent
IsActive(n) == investigations[n].status \in ActiveStatuses

-----------------------------------------------------------------------------
(* The repository.                                                         *)

\* Mutant of LatestInvestigation: looks at active investigations only.
MutantLatestInvestigationActive(i) == {n \in Runs : investigations[n].incident = i /\ IsActive(n)}

\* get_latest_investigation finds something, of any status.
LatestInvestigation(i) == {n \in Runs : investigations[n].incident = i}

ActiveInvestigation(i) == {n \in Runs : investigations[n].incident = i /\ IsActive(n)}

\* The partial unique index on (incident_id) WHERE status is not terminal.
UniqueIndexAdmits(i) == \A n \in Runs : investigations[n].incident = i =>
                            investigations[n].status \in TerminalStatuses

NextRow == {n \in Runs : ~ Exists(n) /\ \A m \in Runs : m < n => Exists(m)}

-----------------------------------------------------------------------------
(* Who runs s, and what becomes of its result: the handler's outcome       *)
(* decides about the record, the API request's answer about nothing.       *)

Outcome(s, outcome) ==
    /\ starter' = [starter EXCEPT ![s] = Idle]
    /\ IF s = Handler
         THEN HandlerReturned(outcome)
         ELSE UNCHANGED <<committed, consumer, handled, dlq, unwritten>>

Finish(s, outcome) == Outcome(s, outcome) /\ UNCHANGED faults

Continue(s, pc, run, status) ==
    /\ starter' = [starter EXCEPT ![s] = StarterAt(pc, @.incident, run, status)]
    /\ UNCHANGED consumerVars

IsIncidentOpened(m) == m.type = "incident.opened"

\* incident_ref_from_envelope does not raise: version 1, a payload that fits
\* IncidentLifecycleV1 and an incident id of the right form.
RefAccepted(m) == m.version = 1 /\ m.valid

\* handle: events of other types are acknowledged, malformed ones rejected.
HandleEvent ==
    LET m == Message[consumer.pos]
    IN  /\ ConsumerAt("handling")
        /\ starter[Handler] = Idle
        /\ \/ ~ IsIncidentOpened(m) /\ Finish(Handler, "ok")
           \/ IsIncidentOpened(m) /\ ~ RefAccepted(m) /\ Finish(Handler, "rejected")
           \/ /\ IsIncidentOpened(m) /\ RefAccepted(m)
              /\ starter' = [starter EXCEPT ![Handler] =
                               StarterAt("check", m.incident, NoRun, "ABSENT")]
              /\ UNCHANGED consumerVars
        /\ UNCHANGED investigations

\* POST /investigations reaches submit; the API is up without the consumer too.
Submit(c, i) ==
    /\ consumer # Down
    /\ starter[c] = Idle
    /\ starter' = [starter EXCEPT ![c] = StarterAt("check", i, NoRun, "ABSENT")]
    /\ UNCHANGED <<consumerVars, investigations>>

\* Mutant of CheckExisting: takes an unfinished run over instead of skipping it.
MutantCheckExistingResumes(s) ==
    /\ starter[s].pc = "check"
    /\ IF LatestInvestigation(starter[s].incident) = {}
         THEN Continue(s, "begin", NoRun, "ABSENT")
         ELSE IF ActiveInvestigation(starter[s].incident) = {}
         THEN Finish(s, "ok")
         ELSE \E n \in ActiveInvestigation(starter[s].incident) :
                Continue(s, "run", n, "ABSENT")
    /\ UNCHANGED investigations

\* get_existing_investigation: a run of the incident of any age will do.
CheckExisting(s) ==
    /\ starter[s].pc = "check"
    /\ IF LatestInvestigation(starter[s].incident) # {}
         THEN Finish(s, "ok")
         ELSE Continue(s, "begin", NoRun, "ABSENT")
    /\ UNCHANGED investigations

Trigger(s) == IF s = Handler THEN "EVENT" ELSE "MANUAL"

\* begin_investigation: the INSERT that reserves the incident.
Reserve(s, n) ==
    /\ starter[s].pc = "begin"
    /\ UniqueIndexAdmits(starter[s].incident)
    /\ investigations' = [investigations EXCEPT ![n] =
                            Row(starter[s].incident, Trigger(s), "PENDING", FALSE)]

Begin(s) == \E n \in NextRow : Reserve(s, n) /\ Continue(s, "run", n, "ABSENT")

\* DuplicateActiveInvestigationError: look the winner up ...
BeginLoses(s) ==
    /\ starter[s].pc = "begin"
    /\ ~ UniqueIndexAdmits(starter[s].incident)
    /\ Continue(s, "lookup", NoRun, "ABSENT")
    /\ UNCHANGED investigations

\* ... which may have finished meanwhile: then begin raises.
LookupActive(s) ==
    /\ starter[s].pc = "lookup"
    /\ Finish(s, IF ActiveInvestigation(starter[s].incident) # {} THEN "ok"
                                                                  ELSE "retryable")
    /\ UNCHANGED investigations

\* Mutant of RunEngine: an engine error leaves run_to_completion.
MutantRunEngineRaises(s, status) ==
    /\ starter[s].pc = "run"
    /\ IF status = "FAILED" THEN Finish(s, "retryable")
                            ELSE Continue(s, "complete", starter[s].run, status)
    /\ UNCHANGED investigations

\* run_to_completion: the engine ends in a terminal status; every exception of
\* it, GraphRecursionError included, is turned into one.
RunEngine(s, status) ==
    /\ starter[s].pc = "run"
    /\ Continue(s, "complete", starter[s].run, status)
    /\ UNCHANGED investigations

\* complete_investigation: no look at the status it overwrites.  A completed
\* run has a report; any other has one if the engine got as far as synthesis.
Store(s, report) ==
    LET status == starter[s].status
    IN  /\ starter[s].pc = "complete"
        /\ status = "COMPLETED" => report
        /\ investigations' = [investigations EXCEPT ![starter[s].run] =
                                Row(@.incident, @.trigger, status, report)]

Complete(s, report) == Store(s, report) /\ Finish(s, "ok")

-----------------------------------------------------------------------------
(* GET /investigations/{id} and _detail: the row, then its steps, then its  *)
(* report, each in a session of its own.                                   *)

Reading(c, pc, n, status, saw) ==
    /\ starter' = [starter EXCEPT ![c] =
                     [pc |-> pc, incident |-> Nobody, run |-> n, status |-> status,
                      saw |-> saw]]
    /\ UNCHANGED <<consumerVars, investigations>>

\* An unknown id answers 404.
GetInvestigation(c, n) ==
    /\ consumer # Down
    /\ starter[c] = Idle
    /\ Exists(n)
    /\ Reading(c, "steps", n, investigations[n].status, {})

\* get_steps: complete_investigation has written them all, or none.
GetSteps(c) ==
    LET r == starter[c]
    IN  /\ r.pc = "steps"
        /\ Reading(c, "report", r.run, r.status,
                   IF IsActive(r.run) THEN {} ELSE {"steps"})

\* Mutant of GetReport: the row is read last.
MutantGetReportRefreshes(c) ==
    LET r == starter[c]
    IN  /\ r.pc = "report"
        /\ Reading(c, "answer", r.run, investigations[r.run].status,
                   IF investigations[r.run].report THEN r.saw \cup {"report"} ELSE r.saw)

GetReport(c) ==
    LET r == starter[c]
    IN  /\ r.pc = "report"
        /\ Reading(c, "answer", r.run, r.status,
                   IF investigations[r.run].report THEN r.saw \cup {"report"} ELSE r.saw)

Answer(c) ==
    /\ starter[c].pc = "answer"
    /\ starter' = [starter EXCEPT ![c] = Idle]
    /\ UNCHANGED <<consumerVars, investigations>>

Read(c) == GetSteps(c) \/ GetReport(c) \/ Answer(c)

-----------------------------------------------------------------------------
(* Failures.                                                               *)

\* The handler wraps what investigate raises, but not what the duplicate check
\* before it raises.
FailureOutcome(pc) == IF pc = "check" THEN "unexpected" ELSE "retryable"

\* A repository call raises and its transaction is rolled back.
DatabaseFails(s) ==
    /\ Fault
    /\ starter[s].pc \in {"check", "begin", "lookup", "complete"}
    /\ Outcome(s, FailureOutcome(starter[s].pc))
    /\ UNCHANGED investigations

\* The INSERT or the UPDATE is committed but its acknowledgement is lost.
AcknowledgementLost(s) ==
    /\ Fault
    /\ \/ \E n \in NextRow : Reserve(s, n)
       \/ \E report \in BOOLEAN : Store(s, report)
    /\ Outcome(s, "retryable")

\* The process dies: the consumer, its handler and every background task.
Crash ==
    /\ Fault
    /\ consumer # Down
    /\ consumer' = Down
    /\ starter' = [s \in Starters |-> Idle]
    /\ UNCHANGED <<committed, handled, dlq, unwritten, investigations>>

\* lifespan's shutdown: the consumer stops at a record boundary; drain waits
\* for the background tasks and cancels those that outlast its timeout.
Shutdown ==
    /\ StopConsumer
    /\ starter' = [s \in Starters |-> Idle]
    /\ UNCHANGED investigations

-----------------------------------------------------------------------------
ConsumerTask ==
    \/ (StartConsumer \/ StartFails \/ ConsumerStep) /\ UNCHANGED <<investigations, starter>>
    \/ HandleEvent

RunStep(s) ==
    \/ CheckExisting(s) \/ Begin(s) \/ BeginLoses(s) \/ LookupActive(s)
    \/ \E status \in TerminalStatuses : RunEngine(s, status)
    \/ \E report \in BOOLEAN : Complete(s, report)

Next ==
    \/ ConsumerTask \/ Crash \/ Shutdown
    \/ \E c \in Callers, i \in Incidents : Submit(c, i)
    \/ \E c \in Callers, n \in Runs : GetInvestigation(c, n)
    \/ \E c \in Callers : Read(c)
    \/ \E s \in Starters : RunStep(s) \/ DatabaseFails(s) \/ AcknowledgementLost(s)

Spec == Init /\ [][Next]_vars

\* The event loop runs every task that can run, and the process is started.
Fairness == WF_vars(ConsumerTask) /\ \A s \in Starters : WF_vars(RunStep(s))

FairSpec == Spec /\ Fairness

-----------------------------------------------------------------------------
(* Types.                                                                  *)

ConsumerTypeOK ==
    /\ committed \in 0 .. LogEnd
    /\ consumer \in [pc : ConsumerPCs, pos : 0 .. LogEnd, attempt : 0 .. MaxRetries]
    /\ handled \subseteq Offsets /\ dlq \subseteq Offsets /\ unwritten \subseteq Offsets
    /\ faults \in 0 .. MaxFaults

Rows == [incident : Incidents, trigger : {"EVENT", "MANUAL"},
         status : {"PENDING"} \cup TerminalStatuses, report : BOOLEAN]

\* The values of the consumer, the table and the processes.
TypeOK ==
    /\ ConsumerTypeOK
    /\ investigations \in [Runs -> Rows \cup {Absent}]
    /\ starter \in [Starters ->
                      [pc : {"idle", "check", "begin", "lookup", "run", "complete",
                             "steps", "report", "answer"},
                       incident : Incidents \cup {Nobody}, run : Runs \cup {NoRun},
                       status : TerminalStatuses \cup {"ABSENT", "PENDING"},
                       saw : SUBSET {"steps", "report"}]]

-----------------------------------------------------------------------------
(* Properties.                                                             *)

Settled(o) == o \in handled \cup dlq \cup unwritten

\* No record is skipped: an offset the group has committed (kafka.py, _commit)
\* was handled or written to the dead-letter topic, unless that write failed;
\* and a handled incident.opened has a row in the table, whatever crashed,
\* raced or was delivered twice.
CommittedMeansSettled ==
    \A o \in Offsets : o < committed =>
        /\ Settled(o)
        /\ IsIncidentOpened(Message[o]) /\ o \in handled
             => \E n \in Runs : investigations[n].incident = Message[o].incident

\* A redelivered or repeated incident.opened never starts a second run
\* (consumer.py, handle): the check looks at finished runs too.
OneEventRunPerIncident ==
    \A m, n \in Runs :
        /\ investigations[m].trigger = "EVENT" /\ investigations[n].trigger = "EVENT"
        /\ investigations[m].incident = investigations[n].incident
        => m = n

\* complete_investigation writes without looking, and the index frees the
\* incident only then: a finished run is never written again, and a run in
\* progress has one process at most.
FinishedRunsFrozen ==
    [][\A n \in Runs : investigations[n].status \in TerminalStatuses
                         => investigations'[n] = investigations[n]]_vars

\* An answer that says the run has ended shows all of it (_detail reads the row
\* before the steps and the report, and completion writes them together).
AnswersComplete ==
    \A c \in Callers :
        starter[c].pc = "answer" /\ starter[c].status \in TerminalStatuses =>
            /\ "steps" \in starter[c].saw
            /\ "report" \in starter[c].saw <=> investigations[starter[c].run].report

OwnersOf(n) == {s \in Starters : starter[s].run = n /\ starter[s].pc \in {"run", "complete"}}

\* A run ends or was left behind by a fault; without a fault every run ends in
\* a terminal status (run_to_completion never raises).
RunsEnd ==
    \A n \in Runs : IsActive(n) ~> \/ ~ IsActive(n)
                                   \/ OwnersOf(n) = {} /\ faults > 0

\* Every record of the partition is settled in the end, unless the consumer's
\* task ended with an error, which /ready reports (_run, ready).
RecordsSettle ==
    (committed < LogEnd) ~> (committed = LogEnd \/ ConsumerAt("dead"))
=============================================================================
