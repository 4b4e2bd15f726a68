# SentinelOps: TLA+ verification

SentinelOps watches services, detects anomalies, groups them into incidents,
lets an agent investigate the cause, and carries out remediations that a person
has approved. This directory holds TLA+ models of the whole of that path, from
the metrics of a service and the training of the detector to the verification
of a remediation, the TLC configurations that check them on small instances, and
TLAPS proofs for instances of every size.

    cd tla
    tlc -workers 2 -config MCRemediation.cfg MCRemediation     # a run
    tlapm RemediationProofs.tla                                # the proofs

`PROJECT.json` lists components, runs, mutants, the source lines every
definition stands for, hazards and theorems.

## 1. Inventory

The path of one episode, left to right; every arrow is a Kafka topic or an HTTP
call, and every service keeps its own tables in PostgreSQL:

    orders-service --metrics--> anomaly-detector --anomaly.detected-->
      incident-correlator --incident.opened--> rca-agent --recommendation (HTTP)-->
      remediation-controller --remediation.events--> observers

| Component (under `src/`) | State | Operations | What is hard | What makes it correct |
|---|---|---|---|---|
| `services/remediation-controller`: service, repository, routes | rows of a remediation (status, proposal, policy verdict, approval, execution, verification), audit trail | propose, approve/reject, execute (dry run), verify-recovery | requests read a row without a lock and write it later under one; the executor acts between two transactions; processes die at any await | the world is changed at most once, and only with policy's leave and a person's approval; rows and trail tell the truth |
| — policy, catalogue, approver matrix, state machine | none | nine pure rules; status edges | hand-kept status lists must follow the life cycle | no second remediation of a key while one is in flight or cooling down |
| — publisher | topic `remediation.events` | best-effort loop after the commit | lost sends, dying process, two publishers | the topic shows committed facts only, each once |
| — executor (simulation), recovery verifier, health probe | simulated replicas, versions, flags; poll loop | run, dry run, verify | windows and intervals, probe failures | bounded polling, a verdict for every outcome |
| `services/incident-correlator`: consumer, processor, repository | incidents, evidence, history, relations | correlate an anomaly (create, append, supersede), link neighbours, publish | several consumers on the same key, redelivery, late events, row locks, deadlocks | one active incident per service and environment, each anomaly counted once |
| — state machine and API | incident status and history | acknowledge, resolve, transition | validated on an unlocked read | `RESOLVED` is terminal; history replays to the row |
| — topology | static dependency graph | neighbours, overlap, edge direction | neighbours are read unlocked | links follow the graph and the window |
| `libs/sentinelops_common/kafka.py` | consumer offsets, dead-letter topic | fetch, handle, retry, dead-letter, commit | crash between handling and commit; failed dead-letter write | no message lost silently; at least once |
| `services/rca-agent`: consumer, runner, lifecycle | investigations, background tasks | start, run to completion, drain, read in three queries | concurrent starts, lost acknowledgements, crash between begin and complete | one investigation per event, each ends, a finished one is final |
| — engine | graph state, evidence, budgets | plan, collect, analyse, synthesise, validate | loops of the graph against several limits | terminates within limits; conclusions cite evidence |
| — LLM clients, tools, redaction | none | remote calls, text | — | — |
| `services/anomaly-detector` | previous scrape, feature buffer, counters, loaded model | start, scrape, score, publish, health, stop | scrape, score and publish fail independently; the watched service restarts | live features are those of training; every anomaly is published or counted as failed |
| `ml/collection`, `ml/data`, `ml/features` | labelled scrapes | drive traffic, collect, prepare windows, build features | requests in flight while labels change; cumulative counters, histogram edges | a window tells what happened between its scrapes, under its label |
| `ml/mlops`, `ml/models`, `ml/evaluation`, `ml/monitoring` | model versions, aliases, drift baselines | split, calibrate, evaluate, gate, promote, detect drift, load | promotion is four calls without a transaction; jobs race and die | only models above the floors serve or can be rolled back to |
| `apps/orders-service` | orders, metrics, failure knobs | create an order, set the knobs | coroutines interleave at awaits | its metrics count every request once |
| `apps/api`, `apps/frontend` | none | tokens, views | — | — |
| `scripts`, migrations, `infrastructure` | — | deployment | — | — |

## 2. Plan

1. **Remediation** (done): `RemediationPolicy`, `RemediationLifecycle`,
   `Remediation`, proofs and refinement. First because this is where the
   platform acts on the world.
2. **Incident correlation** (done): `IncidentRules`, `IncidentCorrelator`, proofs.
3. **Executor, probe and verifier** (done): `Recovery`.
4. **Consumer and investigation life cycle** (done): `IdempotentConsumer`, which
   `Investigation` extends and composes with the RCA agent's handler; proofs.
5. **Investigation engine** (done): `RcaReasoner`, `InvestigationEngine`.
6. **Telemetry** (done): `SignalWindows`, `Telemetry`.
7. **Models** (done): `Training`, `ModelRegistry`, proofs.
8. **Proofs** (done for every safety property): section 6.
9. The pipeline as a whole, composed from abstract specifications of its parts:
   the correlator's announcement, the investigation it causes and the proposal
   that follows.

## 3. Modules and the code they stand for

### Remediation controller

* `RemediationPolicy` — pure: catalogue, `proposal_from_rca`, the nine rules of
  `policy/rules.py`, the approver matrix, the status edges.
* `RemediationLifecycle` — the abstract specification: what a remediation may go
  through, without requests, rows, locks or time.
* `Remediation` — `RemediationService` over `SqlRemediationRepository`. The
  variables `status` .. `verification` are the columns of the four tables,
  `audit` the audit table, `topic` the positions of audit events that reached
  Kafka, `applied` how often the executor really ran, and `req` the local
  variables of every request in flight. A handler is cut at its awaits:

  | handler | steps |
  |---|---|
  | `propose` | `ProposeUnmappable`, `ProposeMapped`, `HistorySnapshot`, `Create` |
  | `decide` | `DecideRequest`, `DecideGet`, `RecordDecision` or `DecisionRaceLost` |
  | `execute` | `ExecuteRequest`, `ExecuteGet` or `DryRun`, `BeginExecution` or `ExecutionConflict`, `RunExecutor`, `FinishExecution` |
  | `verify_recovery` | `VerifyRequest`, `VerifyGet`, `BeginVerification` or `VerificationConflict`, `Observe`, `FinishVerification` |
  | all | `Publish` per audit event, `Respond`, `Abort` at any await |

  One repository transaction is one step, because the row lock makes it atomic.
  The service's own read before it is a separate step, so its result is stale by
  then. `Tick` is the wall clock.
* `MCRemediation` — recommendations and scaled cooldowns for TLC.
* `RemediationProofs` — the proofs of section 6, the refinement included.

Abstracted: texts, parameters, actor names (only the role matters), metrics, and
which simulated resource an execution changes. The verdict of the verifier and
the executor's success are open choices.

### Incident correlator

* `IncidentRules` — pure: the status table, correlation, severity with its
  default thresholds, the running aggregates, the topology.
* `IncidentCorrelator` — `AnomalyProcessor` over `SqlIncidentRepository` and the
  API's transitions. `row`, `evidence`, `history`, `links` are the tables,
  `locked` says which consumer holds a row `FOR UPDATE`, `topic` is
  `incident.events`, `dead` the anomalies whose handler gave up, `worker` and
  `client` the local variables of consumers and requests.

  | code | steps |
  |---|---|
  | `_handle`, `process`, `_process_once` | `Deliver`, `EvidenceExists`, `LockActive`, `LockGranted`, `Commit`, `Publish` |
  | a unique index refuses a write | `LostRace`: roll back, retry at most `MaxAttempts` times |
  | PostgreSQL breaks a deadlock | `DeadlockDetected`: not retried, dead-lettered |
  | the process dies | `Crash` |
  | `_transition`, `apply_transition` | `LoadIncident`, then `ApplyTransition` or `TransitionRefused` |

  What PostgreSQL contributes is modelled as the code relies on it: a locked read
  waits and re-evaluates its condition on the row it waited for (READ
  COMMITTED); unique indexes refuse the later of two writes; the foreign keys of
  a new relation need a key-share lock on both incidents, which conflicts with
  `FOR UPDATE`. All writes of a unit of work take effect at its commit. The read
  of the neighbours is put at the moment of the locked read; links are written
  at the commit, so the neighbours may change in between. Since whoever inserts
  an edge holds or has just created one of its ends, two transactions never
  insert the same edge: they deadlock first (section 5).
* `MCIncidentCorrelator` — five anomalies of two services.
* `IncidentCorrelatorProofs` — the proofs of section 6.

Abstracted: times are seconds and only their differences matter, the error rate
is a percentage, severities are ranks; scores, titles, reasons and the time
stamps of transitions are left out because no rule reads them. A malformed
event is rejected before the processor is reached and changes nothing here.

### Recovery

`Recovery` is what `Remediation` leaves open in `RunExecutor` and `Observe`: the
simulated services (`SimulationState`), the four actions of the executor with
their dry run, the health probe with its phases, and `verify` with its poll
loop. The verifier's sleeper does not sleep, so a verification is one step
that looks ahead in time. `InjectFault` is the hook of scenarios and tests (what it
makes of a service is `Faulted`), `Restart` a restart of the process, which
loses the simulated state. `RecoveryProofs` holds its proofs.

### Consumer and investigation life cycle

* `IdempotentConsumer` — `IdempotentConsumer` of `kafka.py` on one partition:
  `committed` and the dead-letter topic live on the broker, `consumer` is the
  task and dies with the process. Fetch, handle, retry, dead-letter and commit
  are steps; each may fail, and the process may stop between any two.
* `Investigation` — extends it by the handler `IncidentEventConsumer.handle`,
  the API's `POST /investigations` with its background task, and
  `GET /investigations/{id}` in its three reads. A starter goes through
  `CheckExisting`, `Begin` or `BeginLoses` and `LookupActive`, `RunEngine`,
  `Complete`; the partial unique index is `UniqueIndexAdmits`.
  `AcknowledgementLost` is a commit that took effect although the driver
  raised; `DatabaseFails` one that did not. The engine is one step with any
  terminal result.

### Investigation engine

* `RcaReasoner` — pure: tools and what they may return, `validate_plan`, the
  mock client, the verdicts and reports a live model may give, the report
  builders, `validate_report`.
* `InvestigationEngine` — the graph of `engine/graph.py`; one node is one step:
  `Initialize`, `Plan`, `Collect`, `Analyze`, `Verify`, `Synthesize`, `Validate`,
  and the ways they degrade (`Degrade`, `TimeOut`, `LlmFails`). `Elapse` turns
  the clock past the deadline at any moment. The mock's answers are computed, a
  live model's are arbitrary, wrong citations included.
* `InvestigationEngineProofs` — the proofs of section 6.

### Telemetry

* `SignalWindows` — pure: windows between scrapes, quantiles from histogram
  buckets, rolling features. The code's floats are integers in units of 1/`Scale`;
  `ScaleAssumption` of `Telemetry` makes the units fine enough for the divisions
  of a window by its requests and by its time to be exact. `PrepareRun` puts together what `WindowBetween` makes of each pair of
  neighbouring scrapes.
* `Telemetry` — the orders service (`svc`, `req`), and either the detector
  (`det`) or the collector (`col`) watching it. `create_order` is cut at its
  awaits: `Arrive`, the end of the sleep, the publish, the response. A body that
  `CreateOrderRequest` does not accept is answered 422 before `create_order`, and
  counted like any other; clients may send one, the collector's bodies are valid.
  `Respond` sorts answers as `_status_class` does. The
  detector's `Tick` is one scrape with what follows it up to the publish. The
  model's verdict is free. `raw` and `windows` record what the detector scraped
  and scored, for the comparison with the offline pipeline.
* `TelemetryProofs` — the proofs of section 6.

### Models

* `Training` — pure: split, threshold calibration, metrics, gate, drift
  baseline. A row of a dataset is its score and its truth; estimators are
  external, the size of a PSI is left open beyond zero or not.
* `ModelRegistry` — retraining, promotion and drift jobs on one MLflow registry,
  one call to it per step, and the detector that loads from it. Any call may
  raise and any job may die. `champions` remembers who has been champion.

## 4. Runs

All runs pass. Deadlock is checked in every run but `telemetry` and `registry`,
where the number of requests, polls, jobs and starts is bounded and the system
stops when they are used up.

| run | instance | checks |
|---|---|---|
| `remediation` | 2 requests, 1 remediation, clock 0..2 = TTL, crashes, 4 recommendations (allowed, high-risk, denied, lacking a parameter) | `TypeOK`, `EffectAuthorised`, `OutcomeTruthful`, `TrailMatchesRow`, `HistoryImmutable`, `LifecycleSpec` |
| `remediation_events` | 2 requests, publisher on, sends fail, crashes | `EventsMirrorTrail` |
| `remediation_sequential` | 1 request at a time, 2 remediations of one key, clock 0..3 beyond cooldown and TTL | `AtMostOneActivePerKey`, `FailedRunCoolsDown` |
| `remediation_liveness` | 2 requests, no crashes, fair | `ClaimsResolve` |
| `correlator` | 2 consumers, 5 anomalies, 3 incident ids | `TypeOK`, `AggregatesMatchEvidence`, `LinksFollowTopology`, `ClosedOnlyWhenQuiet`, `OpenedAnnounced` |
| `correlator_operators` | 2 consumers that may crash, 1 operator, 2 anomalies, failing sends | `OneActivePerKey`, `HistoryReplays` |
| `correlator_liveness` | 2 consumers, 4 anomalies, no crashes, fair | `HandlersFinish` |
| `investigation` | 4 records (an announcement, one that cannot be decoded, one of an unknown version, one of another type), 1 caller, 2 rows, 2 faults, fair | `CommittedMeansSettled`, `OneEventRunPerIncident`, `AnswersComplete`, `FinishedRunsFrozen`, `RunsEnd`, `RecordsSettle` |
| `engine` | one run, mock and live model, every combination of small limits, the deadline at any moment, fair | `BudgetsHold`, `ConclusionsGrounded`, `Terminates` |
| `recovery` | every fault, action, window and interval, dry runs, restarts | `RecoveredMeansWell`, `WindowIsExact` |
| `telemetry` | 2 requests, 4 polls, 1 fault, watched by the detector or by the collector, fair | `LiveMatchesOffline`, `WindowsAccountForTraffic`, `QuantilesLocateLatency`, `StreamMatchesBatch`, `AnomaliesReconcile`, `HealthIsCurrent`, `LabelsHonest`, `CollectionEnds` |
| `registry` | 2 jobs, 2 versions, 3 starts; small datasets and every validation part over 3 scores | `OnlyGatedModelsServe`, `PreviousWasChampion`, `ThresholdOptimal` |

What they show, in words:

* **Authorisation and at-most-once** (`EffectAuthorised`): however approvals,
  executions and crashes interleave, the executor has its effect at most once
  per remediation, never without policy's ALLOW and an APPROVE given in time by
  a role the matrix admits for the catalogue's risk.
* **Truthfulness** (`OutcomeTruthful`, `TrailMatchesRow`, `HistoryImmutable`):
  a row recorded as executed was applied once, a failed, blocked or rejected one
  never; the audit trail replays to the row; decisions and terminal statuses are
  final. Only `EXECUTING` leaves open what happened, which is the state a crash
  leaves behind (ADR-027 accepts it).
* **Duplicates and cooldown** hold when requests do not overlap; section 5 says
  where they stop holding.
* **Exactly-once counting** (`AggregatesMatchEvidence`): with repeated and
  reordered delivery to two consumers, the aggregates and the severity of an
  incident are those of the set of its evidence.
* **One active incident per key**, a **history that replays**, **links that
  follow the topology**, **superseding only what has been quiet**, and an
  **announcement of every incident** while consumers live and sends succeed.
* **No silent loss** (`CommittedMeansSettled`, `RecordsSettle`): across retries,
  dead letters, lost commits and restarts no record is skipped, and the consumer
  gets to the end of the partition or is reported dead. **One run per
  announcement, final once it has ended** (`OneEventRunPerIncident`,
  `FinishedRunsFrozen`), and what a reader is told of an ended run is all of it
  (`AnswersComplete`).
* **Bounded, grounded investigations**: whatever the model answers, the engine
  ends within its limits (`BudgetsHold`, `Terminates`), and a completed report
  cites only evidence that was collected (`ConclusionsGrounded`).
* **Recovery** is declared exactly when the probe, polled over the window, sees
  the service well (`RecoveredMeansWell`, `WindowIsExact`).
* **Telemetry tells what happened**: live windows and features are those the
  offline pipeline computes from the same scrapes (`LiveMatchesOffline`,
  `StreamMatchesBatch`), they and those of a training run count the requests
  answered in between, and their error and success rates are the shares of those
  that failed and that created an order, the rest being the share refused
  (`WindowsAccountForTraffic`), quantiles lie in the bucket of
  the true one (`QuantilesLocateLatency`), every anomaly is published or counted as failed
  (`AnomaliesReconcile`), and the label of a training window is that of the
  segment in which the requests it counts were sent (`LabelsHonest`; section 5 says
  when a segment's label is not the knobs in force).
* **Models**: no race, failure or crash of retraining and promotion lets a model
  below the floors serve (`OnlyGatedModelsServe`) or makes a rollback lead to a
  version that never served (`PreviousWasChampion`); the calibrated threshold
  separates the validation rows as well as any (`ThresholdOptimal`).
* **Progress**: claims, verifications, requests, deliveries, runs, records and
  collections come to an end.

*Why the bounds are enough to be interesting.* Every race the code guards
against is between two transactions on one row or one key: two requests or
consumers reach it. One remediation suffices for what concerns a single row (its
actions touch no other); the history rules relate two, so their run has two.
TTL and clock are chosen so that approval and execution happen before, at and
after the deadline; cooldowns keep the catalogue's order. The anomalies e1, e2,
e3 of one service are chosen so that e3 supersedes after e1 alone and appends
after e2: whether a supersede is right depends on a concurrent append. e4 and e5
belong to the service the first depends on and overlap e1 and e2 but not e3
(`LinkWindow = 200` instead of 600 s). `MaxAttempts = 2` retries once. Symmetry
over requests, consumers and ids is used in safety runs only: no action or
property tells them apart.

In `investigation`, two faults allow a crash and a failed call, or a failure of
the repeated attempt; `MaxRetries` attempts are reached with them. The caller
and the handler are the two starters a race needs, and the second row is the one
a broken check would insert. In `telemetry` four polls make three windows, one
more than the rolling features look back; a request can span a poll, a restart
and a change of the knobs, and one of the two can be refused while the other is
created or fails. In `registry` two jobs race through every call, and
the third start lets a job begin after both. `MaxFaults`, `MaxRuns`, `MaxTime`
and the other bounds are named constants in the guards of the actions.

*Fairness.* `Remediation` assumes weak fairness of each request's steps and of
the clock, the correlator weak fairness of each consumer's and each started
request's steps. The event loop and the database schedule every runnable task,
and PostgreSQL's deadlock detector ends every circle of waiting transactions.
Nothing is assumed about arrivals, deliveries, successful sends or crashes, and
the liveness runs of these two exclude crashes because the code has no recovery
for them. `Investigation` assumes weak fairness of the consumer's task and of
each run: both are tasks of one event loop, their calls have timeouts, and the
process is started again after a crash. Faults are allowed there, so its liveness
properties name what a fault may leave behind: a `PENDING` row without an owner,
a consumer that `/ready` reports dead. `InvestigationEngine` assumes that the
graph goes on while a node can run; `Telemetry` that requests, the detector and
the collector go on, because sleeps end and publishes and HTTP calls time out.

## 5. Disagreements

Where the code does not do what a comment or a document of the repository says.
No run is about them: the properties of section 4 state what does hold. Those of
the first list can be reproduced with the change of a cfg that is given.

1. Overlapping proposals of one key both become approvable: the check and the
   insert are two transactions (`service.py:220`, `db/repository.py:305-319`;
   `policy/rules.py:272` denies "another remediation … already in flight").
   `remediation_sequential` with `Procs = {p1, p2}` violates
   `AtMostOneActivePerKey`.
2. A remediation that ran and was verified no longer anchors the cooldown of its
   key (`db/repository.py:76`; `repository.py:57` says 'Statuses that count as "a
   remediation ran"'). `remediation_sequential` with `CooldownRespected`.
3. Two transitions validated against the same status: the second moves the
   incident out of `RESOLVED` (`api.py:205-207`; `state_machine.py:10` says "no
   reopening"). `correlator_operators` with `Clients = {c1, c2}` and `NoReopening`.
4. A failed send of `incident.opened`, or a crash before it, is never made up
   for (`processor.py:338`; ADR-023 says "exactly once per incident"):
   `OpenedAnnounced` needs its premise.
5. Consumers linking each other's incidents deadlock in the database; the
   victim's anomaly is dead-lettered instead of retried (`db/repository.py:256`;
   phase-8.md:113-114 says it "rides the processor's existing retry loop").
   `correlator` with `LinkRacesRetried`.
6. Evidence that `analyze` collects for `verify` is not put into the state it
   returns (`engine/nodes.py:250-272`; `tools/context.py:5-7` and phase-4.md:104
   say every piece is recorded), so a citation of it is refused. `engine` with
   `CheckedAgainstIssued`.

Visible in one action each:

* *Remediation.* The loser of two decisions gets 500 instead of 409
  (`DecisionRaceLost`); events of one remediation may be published in the
  opposite order of their commits (`Publish`); a decision may be committed after
  `expires_at`, because the second check under the lock does not look at the
  clock (`StillUndecided`); nothing assigns `EXPIRED`; `inject_fault` without
  `recover_after` keeps an earlier delay, though its docstring says the default
  is immediate recovery; the verifier's sleeper does not sleep, so
  `completed_at` lies in the future; the simulation is keyed by service alone and
  is lost on a restart.
* *Correlator.* An anomaly from any time before an incident's last evidence
  joins it, because the gap is compared with its sign (`Correlate`).
* *RCA agent.* A database error in the duplicate check is dead-lettered at once,
  because `handle` makes that call outside its `try` (`FailureOutcome`;
  `kafka.py:73-77` promises retries); a failed write to the dead-letter topic
  loses the record, which `kafka.py:75` says is "never dropped silently"
  (`ToDlq`); a manual start that passed its check before another run began
  investigates the incident again after that run has finished (`CheckExisting`,
  `Begin`; phase-4.md:231); a crash or a database failure between begin and
  complete leaves the row `PENDING` for good, and every later start of that
  incident is taken for a duplicate (`service.py`: "never leave an investigation
  active"); a `FAILED` or `TIMED_OUT` run may have a report (`Store`;
  `api/schemas.py:25-28` says it has none); `domain.py:18-19` says transitions
  are enforced by `state_machine`, which nothing calls; `get_related_incidents`
  returns the incident itself too.
* *Telemetry.* A reset of the counters goes unnoticed when they have overtaken
  the last scrape (`prepare.py:9-11`: "dropped, not silently miscounted"); a
  publish that times out answers 503 though the event may be delivered; the
  latency knob is read again after the sleep; the featuriser sorts by wall-clock
  time, so a clock set back scores another window's row; the collector does not
  look at the status of `PUT /admin/simulation`, and a restart of the service
  within a segment resets the knobs under an unchanged label; its "queue empty"
  branch is never reached.
* *Models.* `register` does not set the alias that `registry.py:7` says it does;
  any error while reading the champion's metrics counts as "no champion" and
  skips the regression guard; a promotion that dies in the middle leaves
  `previous-champion` equal to `champion`; racing promotions may replace a better
  champion; `from_registry` resolves the alias and downloads by alias again, so
  label and bundle may differ; a hard failure at start ends the application where
  `training.py:60` says `/ready` answers 503; `_bootstrap_champion` returns the
  candidate's version also when the gate rejected it, so drift is reported
  against a model that is not champion.

## 6. Proofs

The theorems hold for every value of the constants that satisfies the named
assumptions (`ASSUME`) of the modules; TLC evaluates these in every run. They
cover every safety property of the runs. `DataLemmas` has the facts
several proofs share: least and greatest members, induction, and what the
library's `FlattenSeq` makes of a sequence of sequences. Induction is by the least
counterexample of a set of natural numbers (`NatSetInduction`), because the
library's induction theorems take an operator as a parameter, which the installed
provers cannot instantiate.

### Remediation controller

`RemediationProofs` holds for any sets of requests, remediations and
recommendations and any TTL, cooldowns and clock bound, from
`CooldownAssumption` and `RemediationAssumption` (ids are distinguishable from
"no id", times are natural numbers, the TTL is positive).

| theorem | states |
|---|---|
| `Inductive` | `Spec => []IInv`, on which the others rest |
| `TypeCorrectness` | `Spec => []TypeOK` |
| `Authorisation` | `Spec => []EffectAuthorised` |
| `Truthfulness` | `Spec => []OutcomeTruthful` |
| `TrailReplays` | `Spec => []TrailMatchesRow` |
| `ImmutableHistory` | `Spec => HistoryImmutable` |
| `FaithfulEvents` | `Spec => []EventsMirrorTrail` |
| `SerialUniqueness` | `Spec /\ []OneProposer => []AtMostOneActivePerKey` |
| `SerialCoolsDown` | `Spec /\ []OneProposer => FailedRunCoolsDown` |
| `OneRequestAtATime` | the two without the hypothesis, when requests never overlap |
| `Refinement` | `Spec => LifecycleSpec`: the controller implements the lifecycle |

None of the properties is inductive: nothing in `EffectAuthorised` forbids a
state in which two requests are past their claim of the same remediation, and
from there the executor runs twice. `IInv` adds what excludes that:

* `RequestsTyped` — a request has the arguments its program counter needs;
* `RowsConsistent` — the columns of a row agree: what an approved row says of
  its approval, what an executed one says of its execution;
* `RequestsSound` — what a request may still rely on of its unlocked read. A
  request about to record a decision knows that the row exists, was not blocked
  and that its role may approve; not that the row is still pending, which the
  check under the lock establishes;
* `Ownership` — a minted id, a claimed execution and a started verification each
  belong to one request. It follows from the checks made again under the lock
  (`Claimable`, `Verifiable`), and is what makes `RunExecutor` happen once.

The proof has a lemma for the steps that change only the request itself
(`RequestStep`), one for the transactions that change one row (`RowStep`), and
one per action. The refinement maps a row to its lifecycle, a successful run of
the executor to `LApply`, and everything else to stuttering.

For the trail, every step is one of three: a transaction (`Transacts`: one row
moves, and its trail grows by events that lead from the old status to the new
one), a send (`Publishes`), or neither (`Silent`). `TrailReplays` and
`ImmutableHistory` follow from the first kind. For `FaithfulEvents`, `PendingSound`
says that what is still to be published is in the trail, belongs to one request
and has not been published.

`OneProposer` says that no two requests are between the minting of their id and
the creation of their row. It is what the code does not ensure: two overlapping
proposals break both properties (section 5), so it is a hypothesis of the two
theorems and not of the model. A controller that serves one proposal at a time
satisfies it, whatever decisions, executions and verifications overlap.
`SnapshotsHold` then says that the snapshot the policy judged is still true, of
every row of the key, when the row is created; `StampsBounded` that no time stamp
is ahead of the clock, without which an old decision could start a new cooldown.

### Incident correlator

`IncidentCorrelatorProofs` holds for any sets of consumers, requests, incident
ids and anomalies, any topology, windows and number of attempts, with and without
crashes and failing sends. It rests on `RulesAssumption` (the topology is a graph
over the services, windows are natural numbers) and `CorrelatorAssumption`
(every event carries a well-typed anomaly, ids are distinguishable from "none",
at least one attempt).

| theorem | states |
|---|---|
| `Inductive` | `Spec => []IInv`, on which the others rest |
| `TypeCorrectness` | `Spec => []TypeOK` |
| `SingleActiveIncident` | `Spec => []OneActivePerKey` |
| `QuietClosing` | `Spec => ClosedOnlyWhenQuiet` |
| `EveryOpeningAnnounced` | `Spec => []OpenedAnnounced` |
| `HistoryTrustworthy` | `Spec => []HistoryReplays` |
| `ExactAggregates` | `Spec => []AggregatesMatchEvidence` |
| `TruthfulLinks` | `Spec => []LinksFollowTopology` |

`OneActivePerKey` is not inductive. The unique index refuses a second active row
when a row is created or reactivated, but an append writes a whole row back from
a copy read earlier: from a state in which the copy is out of date, it could
revive an incident that has been closed since. `IInv` adds:

* `WorkersSound` — what a consumer knows at its program counter. From the locked
  read to the commit it holds the lock of the active incident, its copy is that
  row, the row is active and of the anomaly's key, and if the decision is to
  supersede, the gap to the row's last anomaly exceeds the window. A consumer
  that waits for a lock knows only that the row exists and has its key: the
  condition is evaluated again when the lock is granted;
* `ClientsLoaded` — a request about to apply a transition has a row and a target.

The lemma `WorkerMove` covers the steps that change only a consumer and its
locks, `OthersSound` says that what another consumer knows survives a write to
a row it has not locked, and there is one lemma per action. `QuietClosing`
follows because only `Commit` writes evidence, and what it closes it has kept
locked since it compared the gap with the window. `EveryOpeningAnnounced` is
inductive next to `IInv`: an append or a supersede writes a row that exists (the
copy under the lock is the row), so only `Commit` of a new incident adds one, and
its consumer is about to publish.

`HistoryTrustworthy` holds because a history row is written from the status the
row has at that moment, also when the transition was validated on an older one.
`ExactAggregates` needs `EvidenceSound` besides: the evidence of an incident is a
finite set, and only of incidents that exist. One more anomaly then changes the
aggregates as it changes the set: its size by one, because the anomaly had no
incident before (the unique index on evidence), the extremes by a comparison.
`TruthfulLinks` needs that incidents only grow (`RowsGrow`): a neighbour read
without a lock may have changed by the commit, but it keeps its key and its
interval only gets longer, so what overlapped then overlaps now (`WantsSound`).

### Recovery

`RecoveryProofs` holds for any faults, delays, windows and intervals, from
`RecoveryAssumption` (windows and intervals are positive, delays natural, "never"
is not a time).

| theorem | states |
|---|---|
| `NoFalseRecovery` | `Spec => []RecoveredMeansWell` |
| `ExactWindow` | `Spec => []WindowIsExact` |
| `TypeCorrectness` | `Spec => []TypeOK` |

The first two are about what one call of `verify` computes. The invariant `SimSound` types
the simulated services; then the probe sees a service pass from `WellFrom` on and
not before, and the first poll that passes exists or the window is used up.

### Investigation life cycle

`InvestigationProofs` holds for any partition of records, any incidents and
callers and any number of retries, faults and rows, from `ConsumerAssumption`
(offsets and bounds are numbers, at least one attempt) and
`InvestigationAssumption` (every record has a type, a version and an incident;
the handler is not a caller).

| theorem | states |
|---|---|
| `Inductive` | `Spec => []IInv`, on which the others rest |
| `NoSilentLoss` | `Spec => []CommittedMeansSettled` |
| `OneRunPerAnnouncement` | `Spec => []OneEventRunPerIncident` |
| `EndedRunsFrozen` | `Spec => FinishedRunsFrozen` |
| `WholeAnswers` | `Spec => []AnswersComplete` |
| `TypeCorrectness` | `Spec => []TypeOK` |

None is inductive: a commit is right only if everything before the consumer's
position is settled, and `complete_investigation` writes without looking. `IInv`
adds:

* `ConsumerSound` — every offset before the position is settled, and so is the
  record that is about to be committed, also on the way through a failed commit;
* `HandledHasRow` — a handled announcement has a row. Together with the lemma
  `RowsStay` (no write takes a row from its incident) it survives every step;
* `RunsOwned` — a run that a process works on is reserved for its incident and
  `PENDING`, and no second process works on it: the INSERT takes a row nobody
  owns, and nobody resumes a row after a crash;
* `HandlerSound` — the handler works on the consumer's record, and past its
  check no run of its incident was started by an event. Callers may insert runs
  meanwhile, but not of that kind.

`WritesOwnRow` says what any INSERT or UPDATE leaves alone, `OutcomeKeeps` covers
every way a starter ends, `StarterMoves` every step without a write.
`WholeAnswers` adds `ReadersSound`: a reader that has seen a terminal status has
since read what will not change any more, because `EndedRunsFrozen`.

`TypeCorrectness` adds to `IInv` that the consumer has a record in hand in every
state that handles one (`ConsumerTyped`), and that a process has the incident, the
run and the result that its program counter needs (`StarterTyped`), so that every
write leaves a row of the table.

### Investigation engine

`InvestigationEngineProofs` holds for any limits, plans and model answers, from
`EngineAssumption` (limits are positive) and `ReasonerAssumption` (a plan is a
sequence of steps, a tool's yield is bounded).

| theorem | states |
|---|---|
| `GroundedConclusions` | `Spec => []ConclusionsGrounded` |
| `BoundedRuns` | `Spec => []BudgetsHold` |
| `TypeCorrectness` | `Spec => []TypeOK` |

The first rests on `Underway`: a run that has not ended has no terminal status,
so a conclusion is what the last gate let through. The second on `BudgetInv`,
which says for every node how far each counter may be past the last check:
`CallsFit` (the queue of tool calls is within what is left), `EvidenceFits`,
`StepsFit`, and `VisitsFit` (every visit is paid for by a call, by the one
re-analysis, by the one repair, or by the seven nodes themselves).

For `TypeCorrectness`, `Numbered` says that an item of evidence has a number that was
issued and that no other item has; a call's results get numbers past the last one
(`IssueIsFresh`), which keeps the ids as many as the items (`NumbersCount`). `Shape`
says how a run stands: it is at `END` exactly when its status is terminal.

### Telemetry

`TelemetryProofs` holds for any number of requests, polls, failures and segments
and any rolling window, from `SignalAssumption` (a rolling window spans two rows
or more, "no model value" is not a snapshot, the scale is positive),
`TelemetryAssumption` and, for what is said of rates and ratios, `ScaleAssumption`
(the scale is a multiple of every number of requests and every elapsed time that
can occur, as 60 is in the run; whatever the bounds, there is such a scale).

| theorem | states |
|---|---|
| `AnomaliesAccounted` | `Spec => []AnomaliesReconcile` |
| `StreamIsBatch` | `Spec => []StreamMatchesBatch` |
| `LiveIsOffline` | `Spec => []LiveMatchesOffline` |
| `HealthHonest` | `Spec => []HealthIsCurrent` |
| `HonestLabels` | `Spec => []LabelsHonest` |
| `TrafficAccounted` | `Spec => []WindowsAccountForTraffic` |
| `LatencyLocated` | `Spec => []QuantilesLocateLatency` |
| `HistorySound` | the two of every window ever closed, not the newest alone |
| `TypeCorrectness` | `Spec => []TypeOK` |

The detector's invariants are `ServiceTyped` and `DetectorTyped`; `Remembers` (the
previous scrape it keeps is the newest it has recorded); `EventsSound` and
`CountsAgree` (a window being published is newer than every event); `FeaturesSound`
(the buffer is the end of the window history); `ScrapesDated` and `ScoredWindow`
(scrapes are a tick apart at least, and the last score is of a window they make).
`LiveIsOffline` needs no more than `Remembers`, and the lemmas that `PrepareRun` of a
longer history appends the window of the newest pair, and nothing if there is none.

`HonestLabels` is about races of requests with the change of a label. `LabelInv`
says that a request is counted once and in the process it was sent to
(`RequestsCounted`), that no scrape is ahead of its process (`ScrapesBehind`), that
requests are in flight during their own segment only, because the collector
drains (`SentInSegment`), that what is counted after the newest row was sent under
its scenario or in the segment that has no row yet (`NewestRow`), and that what is
counted between two rows of one scenario was sent under it (`LabelsSound`).

`TrafficAccounted` and the two after it are about what a window says. The properties compare it
with the requests themselves, so the invariant has to say what a counter is:

* `TallyInv` — the counters of the running process (`CountersTally`), and the copy of
  them in every scrape of the detector and the collector (`ScrapesTally`), are sizes
  of sets of requests: of the first `post` responses of that process, of those
  answered 201, of those that failed (500 and 503), of those in each bucket of the
  histogram; whatever has been counted has one of the four answers (`AnswersTyped`),
  so the rest of the first set was refused. A response
  adds one to each set it belongs to (`CountOne`, `TallyRespond`). A scrape stays
  true afterwards because a counted request is never written again (`HistoryKept`)
  and later responses have higher numbers (`RequestsCounted`, part of `LabelInv`);
* `Dated` — the collector's rows are one interval apart, and the detector's clock
  stays within its bound.

`TallyBetween` then takes two tallies of one process apart: their difference is the
size of the set of requests counted in between. `SignalsAccount` needs only that the
divisions of `window_signals` have no remainder (`ExactShare`) and that failed, created
and refused requests are all there are. `SignalsLocate` rests
on lemmas about `Quantile` for any counts in the buckets of `Bounds`: the bucket it interpolates in is the
first that reaches the share (`HitIs`), the interpolation does not leave that bucket
(`InterpolationStays`, `QuantileLocated`), and a larger share gives no smaller answer
(`QuantilesOrdered`: in a later bucket by the bounds, in the same bucket by the
interpolation). None of these needs the scale to be a multiple of anything.

`TypeCorrectness` includes the bounds of the order store (`StoreKeepsBound`) and of the
detector's buffer (`DetectorBoundedStep`), both by `TrailingBound`.

### Model registry

`ModelRegistryProofs` holds for any jobs, policy and number of versions, and for
datasets of any length and integer scores (`RegistryAssumption`).

| theorem | states |
|---|---|
| `Inductive` | `Spec => []IInv`, on which the others rest |
| `QualityFloor` | `Spec => []OnlyGatedModelsServe` |
| `SafeRollback` | `Spec => []PreviousWasChampion` |
| `BestThreshold` | `Spec => []ThresholdOptimal` |
| `TypeCorrectness` | `Spec => []TypeOK` |

The alias moves of a promotion rely on what the job learned calls before. `IInv`
therefore carries it along the program counter (`JobSound`): at the gate the
job's metrics are those of its version, past the gate the version has passed, and
the champion it is about to keep as `previous` has been one. `RegistrySound` says
that champions are gated for good, which holds because versions are never
changed (`AppendKeeps`), and `DetectorSound` that a loaded bundle was gated
although the alias may have moved since. `TypeCorrectness` adds that whatever names
a version names a registered one, because versions are never taken away
(`VersionsGrow`).

`BestThreshold` is mostly about `calibrate_threshold`. `GridCovers`: every
threshold flags the same rows as one of the finitely many tried. `BetterTransitive`:
the key (F1, then false positives), compared by cross-multiplication, orders the
confusions of the same rows, which takes `RatiosTransitive`. `SomeUnbeaten`: a
finite set has a member that no other beats, by induction. Hence
`CalibrationOptimal`, for every dataset and every threshold; `SplitIs` says that
the chronological split cuts the rows in three parts and leaves some to calibrate
on. The invariant `TInv` carries the threshold from the training to the state.

### Only model-checked

* Liveness: `ClaimsResolve`, `HandlersFinish`, `RunsEnd`, `RecordsSettle`,
  `Terminates`, `CollectionEnds`. Fairness and `ENABLED` are outside the prover's
  reach.

The other way round, `TypeOK` of the five later components has no run of its own: it
is proved for every value of the constants.

## 7. Not modelled

* The remediation controller's read API, schemas, metrics and configuration, and
  the read routes of the other services: they change no state. The exception is
  the RCA agent's detail route, which reads in three queries.
* The platform API and the front end: token checks by a library, and views.
* LLM prompts, redaction and the HTTP clients of remote models: text processing.
  What they may return or raise is an open choice in `InvestigationEngine`.
* Estimators, the size of a PSI, event-level metrics, plots, the NAB benchmark
  and the experiment runner: numerical code without protocol state. The model's
  verdict is an open choice in `Telemetry`, its scores an input of `Training`.
* Scripts, migrations and infrastructure: deployment and demonstrations.
