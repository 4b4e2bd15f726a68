------------------------------ MODULE Remediation ------------------------------
(***************************************************************************)
(* The remediation controller as a concurrent system: RemediationService   *)
(* (service.py) over SqlRemediationRepository (db/repository.py), called   *)
(* by HTTP requests that interleave at every `await'.                      *)
(*                                                                         *)
(* A request is a process p in Procs.  Its record req[p] holds what the    *)
(* coroutine keeps in local variables between two awaits: the program      *)
(* counter, the remediation id, the time stamp taken on arrival, the       *)
(* arguments and the history snapshot.  One repository transaction is one  *)
(* step: the row lock makes it atomic.  The service reads the row without  *)
(* a lock first, in a step of its own, so everything that read established *)
(* may be stale when the transaction runs.                                 *)
(***************************************************************************)
EXTENDS RemediationPolicy, Sequences

CONSTANTS
    Procs,             \* concurrent API requests
    Rems,              \* remediation ids that may be minted (bounds creation)
    Recommendations,   \* the RCA recommendations clients may post
    NoRem,             \* "no remediation yet"
    TTL,               \* proposal_ttl, in ticks
    MaxTime,           \* bound of the clock
    KafkaEnabled,      \* is an event publisher wired in?
    MayAbort           \* may a request die at an await (crash, database error)?

ASSUME RemediationAssumption ==
    /\ NoRem \notin Rems
    /\ TTL \in Nat \ {0}
    /\ MaxTime \in Nat
    /\ KafkaEnabled \in BOOLEAN
    /\ MayAbort \in BOOLEAN

VARIABLES
    now,               \* the wall clock
    (* remediations, remediation_approvals, ..._executions, ..._verifications *)
    status, proposal, policy, approval, execution, verification,
    audit,             \* remediation_audit_events, per remediation
    applied,           \* real runs of the executor, per remediation
    topic,             \* remediation.events: published positions of audit[r]
    req                \* the requests in flight

rowVars == <<status, proposal, policy, approval, execution, verification>>
vars == <<now, rowVars, audit, applied, topic, req>>

Absent == "ABSENT"

NoProposal == [incident |-> Nothing, action |-> Nothing, service |-> Nothing,
               environment |-> Nothing, created |-> 0, expires |-> 0]
NoApproval == [decision |-> Nothing, role |-> Nothing, at |-> 0]
NoRecommendation == [incident |-> Nothing, action |-> Nothing,
                     service |-> Nothing, environment |-> Nothing,
                     severity |-> Nothing]
NoHistory == [active |-> FALSE, lastCompleted |-> {}]

Decisions == {"APPROVE", "REJECT"}

\* _decide maps the token's role: admin, or any other role the route admits.
RouteRoles == {"ADMINISTRATOR", "INCIDENT_RESPONDER"}

\* A request at pc for remediation r, with the arguments it came with.
Request(pc, r, ts, rec, decision, role) ==
    [pc |-> pc, rem |-> r, ts |-> ts, rec |-> rec, seen |-> NoHistory,
     decision |-> decision, role |-> role, result |-> Nothing,
     next |-> 1, upto |-> 0, reply |-> 0]

\* The request q further on, at pc, having read or computed something; it
\* still has to publish the audit events at next .. upto and, once it is done,
\* answers with reply.
Further(q, pc, seen, result, next, upto, reply) ==
    [pc |-> pc, rem |-> q.rem, ts |-> q.ts, rec |-> q.rec, seen |-> seen,
     decision |-> q.decision, role |-> q.role, result |-> result,
     next |-> next, upto |-> upto, reply |-> reply]

Goto(q, pc) == Further(q, pc, q.seen, q.result, 1, 0, 0)

Idle == Request("idle", NoRem, 0, NoRecommendation, Nothing, Nothing)

Init ==
    /\ now = 0
    /\ status = [r \in Rems |-> Absent]
    /\ proposal = [r \in Rems |-> NoProposal]
    /\ policy = [r \in Rems |-> Nothing]
    /\ approval = [r \in Rems |-> NoApproval]
    /\ execution = [r \in Rems |-> Nothing]
    /\ verification = [r \in Rems |-> Nothing]
    /\ audit = [r \in Rems |-> <<>>]
    /\ applied = [r \in Rems |-> 0]
    /\ topic = [r \in Rems |-> <<>>]
    /\ req = [p \in Procs |-> Idle]

-----------------------------------------------------------------------------
(* Building blocks.                                                        *)

\* Mutant of Event: previous and new state swapped.
MutantEventSwapped(type, prev, new) == [type |-> type, prev |-> new, new |-> prev]

Event(type, prev, new) == [type |-> type, prev |-> prev, new |-> new]

\* The audit events (audit/builders.py), as the status change each records.
ProposalCreatedEvent == Event("PROPOSAL_CREATED", Nothing, "PROPOSED")
PolicyEvaluatedEvent(final) == Event("POLICY_EVALUATED", "POLICY_EVALUATION", final)
RemediationBlockedEvent == Event("REMEDIATION_BLOCKED", "POLICY_EVALUATION", "BLOCKED")
DecisionEvent(final) == Event(final, "PENDING_APPROVAL", final)
ExecutionRequestedEvent == Event("EXECUTION_REQUESTED", "APPROVED", "APPROVED")
ExecutionStartedEvent == Event("EXECUTION_STARTED", "APPROVED", "EXECUTING")
ExecutionFinishedEvent(ok, final) ==
    Event(IF ok THEN "EXECUTION_SUCCEEDED" ELSE "EXECUTION_FAILED", "EXECUTING", final)
VerificationStartedEvent == Event("VERIFICATION_STARTED", "EXECUTED", "VERIFYING")
VerificationFinishedEvent(final) ==
    Event(IF final = "RECOVERED" THEN "VERIFICATION_SUCCEEDED" ELSE "VERIFICATION_FAILED",
          "VERIFYING", final)

\* EXECUTION_REQUESTED is the one audit fact with no lifecycle event.
Publishable(event) == event.type # "EXECUTION_REQUESTED"

\* p may take its next step: it is at pc and its last publication is over.
At(p, pc) == req[p].pc = pc /\ req[p].next > req[p].upto

\* The handler answers without having committed anything.
Reply(p, code) ==
    req' = [req EXCEPT ![p] =
              Further(Idle, "done", NoHistory, Nothing, 1, 0, code)]

\* _commit_with_audit: the transaction that changed the row of r also appended
\* `events'; the request goes on at pc once it has tried to publish them.
CommitWithAudit(p, r, events, pc, code) ==
    /\ audit' = [audit EXCEPT ![r] = @ \o events]
    /\ req' = [req EXCEPT ![p] =
                 Further(req[p], pc, NoHistory, Nothing,
                         IF KafkaEnabled THEN Len(audit[r]) + 1 ELSE 1,
                         IF KafkaEnabled THEN Len(audit[r]) + Len(events) ELSE 0,
                         code)]

-----------------------------------------------------------------------------
(* POST /remediations: propose.                                            *)

\* ProposalNotMappableError: 422, nothing stored.
ProposeUnmappable(p, rec) ==
    /\ At(p, "idle")
    /\ ~ IsMappable(rec)
    /\ Reply(p, 422)
    /\ UNCHANGED <<now, rowVars, audit, applied, topic>>

\* proposal_from_rca mints an id no other proposal has, and stamps the time.
ProposeMapped(p, rec, r) ==
    /\ At(p, "idle")
    /\ IsMappable(rec)
    /\ status[r] = Absent
    /\ \A q \in Procs : req[q].rem # r
    /\ req' = [req EXCEPT ![p] = Request("mapped", r, now, rec, Nothing, Nothing)]
    /\ UNCHANGED <<now, rowVars, audit, applied, topic>>

SameKey(prop, rec) ==
    /\ prop.incident = rec.incident
    /\ prop.action = rec.action
    /\ prop.service = rec.service
    /\ prop.environment = rec.environment

\* Mutant of ActiveSql: the list as it was before recovery verification.
MutantActiveSqlPre5F == {"PROPOSED", "POLICY_EVALUATION", "PENDING_APPROVAL",
                         "APPROVED", "EXECUTING"}

\* _ACTIVE_SQL, the statuses the duplicate query counts.
ActiveSql == {"PROPOSED", "POLICY_EVALUATION", "PENDING_APPROVAL", "APPROVED",
              "EXECUTING", "EXECUTED", "VERIFYING"}

\* The two history queries, as one read: whatever commits between them, their
\* verdict is that of one read made before or after it (a row that is active
\* denies; one that is approved in between anchors a cooldown).
HistorySnapshot(p) ==
    /\ At(p, "mapped")
    /\ LET mine  == {q \in Rems : SameKey(proposal[q], req[p].rec)}
           times == {approval[q].at : q \in {q \in mine : status[q] \in CooldownAnchors}}
           seen  == [active |-> \E q \in mine : status[q] \in ActiveSql,
                     lastCompleted |-> {t \in times : \A u \in times : u <= t}]
       IN  req' = [req EXCEPT ![p] =
                     Further(req[p], "snapshotted", seen, Nothing, 1, 0, 0)]
    /\ UNCHANGED <<now, rowVars, audit, applied, topic>>

\* PolicyEngine.evaluate on the snapshot, apply_policy_decision, repo.create.
Create(p) ==
    LET r       == req[p].rem
        rec     == req[p].rec
        expires == req[p].ts + TTL
        outcome == PolicyOutcome(rec, req[p].seen, req[p].ts, expires, req[p].ts)
        final   == IF outcome = "ALLOW" THEN "PENDING_APPROVAL" ELSE "BLOCKED"
        created == <<ProposalCreatedEvent, PolicyEvaluatedEvent(final)>>
        blocked == <<RemediationBlockedEvent>>
    IN  /\ At(p, "snapshotted")
        /\ status' = [status EXCEPT ![r] = final]
        /\ policy' = [policy EXCEPT ![r] = outcome]
        /\ proposal' = [proposal EXCEPT ![r] =
             [incident |-> rec.incident, action |-> rec.action,
              service |-> rec.service, environment |-> rec.environment,
              created |-> req[p].ts, expires |-> expires]]
        /\ CommitWithAudit(p, r,
             IF outcome = "ALLOW" THEN created ELSE created \o blocked, "done", 201)
        /\ UNCHANGED <<now, approval, execution, verification, applied, topic>>

-----------------------------------------------------------------------------
(* POST /remediations/{id}/approve and /reject: decide.                    *)

DecideRequest(p, r, d, role) ==
    /\ At(p, "idle")
    /\ req' = [req EXCEPT ![p] = Request("decide", r, now, NoRecommendation, d, role)]
    /\ UNCHANGED <<now, rowVars, audit, applied, topic>>

\* Mutant of DecideError: the approver matrix is not consulted.
MutantDecideErrorAnyRole(r, d, role, ts) ==
    IF status[r] = Absent THEN 404
    ELSE IF status[r] # "PENDING_APPROVAL" \/ ts >= proposal[r].expires THEN 409
    ELSE 0

\* _check_decidable: 404, 409 (decided, not pending, blocked, expired) or 403.
DecideError(r, d, role, ts) ==
    IF status[r] = Absent THEN 404
    ELSE IF \/ approval[r] # NoApproval
            \/ status[r] # "PENDING_APPROVAL"
            \/ policy[r] # "ALLOW"
            \/ ts >= proposal[r].expires THEN 409
    ELSE IF d = "APPROVE" /\ ~ CanApprove(role, proposal[r].action) THEN 403
    ELSE 0

DecideGet(p) ==
    LET q     == req[p]
        error == DecideError(q.rem, q.decision, q.role, q.ts)
    IN  /\ At(p, "decide")
        /\ IF error # 0 THEN Reply(p, error)
                        ELSE req' = [req EXCEPT ![p] = Goto(req[p], "deciding")]
        /\ UNCHANGED <<now, rowVars, audit, applied, topic>>

\* Mutant of StillUndecided: no second check under the lock.
MutantStillUndecidedUnchecked(r) == TRUE

\* What record_decision checks again once it holds the row lock.
StillUndecided(r) == approval[r] = NoApproval

RecordDecision(p) ==
    LET q == req[p]
        r == q.rem
        final == IF q.decision = "APPROVE" THEN "APPROVED" ELSE "REJECTED"
    IN  /\ At(p, "deciding")
        /\ StillUndecided(r)
        /\ status' = [status EXCEPT ![r] = final]
        /\ approval' = [approval EXCEPT ![r] =
                          [decision |-> q.decision, role |-> q.role, at |-> q.ts]]
        /\ CommitWithAudit(p, r, <<DecisionEvent(final)>>, "done", 200)
        /\ UNCHANGED <<now, proposal, policy, execution, verification, applied, topic>>

\* RemediationAlreadyDecidedError, which no handler of the route catches.
DecisionRaceLost(p) ==
    /\ At(p, "deciding")
    /\ ~ StillUndecided(req[p].rem)
    /\ Reply(p, 500)
    /\ UNCHANGED <<now, rowVars, audit, applied, topic>>

-----------------------------------------------------------------------------
(* POST /remediations/{id}/execute: execute.                               *)

ExecuteRequest(p, r) ==
    /\ At(p, "idle")
    /\ req' = [req EXCEPT ![p] =
                 Request("execute", r, now, NoRecommendation, Nothing, Nothing)]
    /\ UNCHANGED <<now, rowVars, audit, applied, topic>>

\* _check_executable with authorize_execution.
ExecuteError(r, ts) ==
    IF status[r] = Absent THEN 404
    ELSE IF \/ status[r] # "APPROVED"
            \/ approval[r].decision # "APPROVE"
            \/ proposal[r].service \notin AllowedTargetServices
            \/ RequiredParameters(proposal[r].action) # {}
            \/ ts >= proposal[r].expires THEN 409
    ELSE 0

ExecuteGet(p) ==
    LET error == ExecuteError(req[p].rem, req[p].ts)
    IN  /\ At(p, "execute")
        /\ IF error # 0 THEN Reply(p, error)
                        ELSE req' = [req EXCEPT ![p] = Goto(req[p], "claiming")]
        /\ UNCHANGED <<now, rowVars, audit, applied, topic>>

\* dry_run in the request's body: the same guards, the executor on a copy of
\* its state, nothing stored.  Only the real run catches an ExecutorError.
DryRun(p, result) ==
    /\ At(p, "execute")
    /\ ExecuteError(req[p].rem, req[p].ts) = 0
    /\ Reply(p, IF result = "SUCCEEDED" THEN 200 ELSE 500)
    /\ UNCHANGED <<now, rowVars, audit, applied, topic>>

\* Mutant of Claimable: a claim does not exclude a second one.
MutantClaimableTwice(r) == status[r] \in {"APPROVED", "EXECUTING"}

\* What begin_execution checks again under the row lock.
Claimable(r) == status[r] = "APPROVED"

BeginExecution(p) ==
    LET r == req[p].rem
    IN  /\ At(p, "claiming")
        /\ Claimable(r)
        /\ status' = [status EXCEPT ![r] = "EXECUTING"]
        /\ execution' = [execution EXCEPT ![r] = "STARTED"]
        /\ CommitWithAudit(p, r,
             <<ExecutionRequestedEvent, ExecutionStartedEvent>>, "claimed", 0)
        /\ UNCHANGED <<now, proposal, policy, approval, verification, applied, topic>>

\* Mutant of ExecutionConflict: the loser of the claim retries for ever.
MutantExecutionConflictRetried(p) ==
    At(p, "claiming") /\ ~ Claimable(req[p].rem) /\ UNCHANGED vars

ExecutionConflict(p) ==
    /\ At(p, "claiming")
    /\ ~ Claimable(req[p].rem)
    /\ Reply(p, 409)
    /\ UNCHANGED <<now, rowVars, audit, applied, topic>>

\* Mutant of RunExecutor: the executor fails after it has had its effect.
MutantRunExecutorPartial(p, result) ==
    /\ At(p, "claimed")
    /\ applied' = [applied EXCEPT ![req[p].rem] = @ + 1]
    /\ req' = [req EXCEPT ![p] =
                 Further(req[p], "finishing", NoHistory, result, 1, 0, 0)]
    /\ UNCHANGED <<now, rowVars, audit, topic>>

\* executor.execute: the effect happens here, outside any transaction, and
\* only this request knows of it until finish_execution commits.
RunExecutor(p, result) ==
    LET r == req[p].rem
    IN  /\ At(p, "claimed")
        /\ applied' = [applied EXCEPT ![r] = IF result = "SUCCEEDED" THEN @ + 1 ELSE @]
        /\ req' = [req EXCEPT ![p] =
                 Further(req[p], "finishing", NoHistory, result, 1, 0, 0)]
        /\ UNCHANGED <<now, rowVars, audit, topic>>

\* The defensive conflict of finish_execution (the row is no longer EXECUTING)
\* is unreachable: a claim has one owner (Ownership in RemediationProofs).
FinishExecution(p) ==
    LET r     == req[p].rem
        ok    == req[p].result = "SUCCEEDED"
        final == IF ok THEN "EXECUTED" ELSE "EXECUTION_FAILED"
    IN  /\ At(p, "finishing")
        /\ status[r] = "EXECUTING"
        /\ status' = [status EXCEPT ![r] = final]
        /\ execution' = [execution EXCEPT ![r] = req[p].result]
        /\ CommitWithAudit(p, r, <<ExecutionFinishedEvent(ok, final)>>, "done", 200)
        /\ UNCHANGED <<now, proposal, policy, approval, verification, applied, topic>>

-----------------------------------------------------------------------------
(* POST /remediations/{id}/verify-recovery: verify_recovery.               *)

VerifyRequest(p, r) ==
    /\ At(p, "idle")
    /\ req' = [req EXCEPT ![p] =
                 Request("verify", r, now, NoRecommendation, Nothing, Nothing)]
    /\ UNCHANGED <<now, rowVars, audit, applied, topic>>

\* 200 is the replay of a stored verdict; 0 means that a fresh one may start.
VerifyAnswer(r) ==
    IF status[r] = Absent THEN 404
    ELSE IF status[r] \in {"RECOVERED", "RECOVERY_FAILED"} THEN 200
    ELSE IF status[r] # "EXECUTED" \/ execution[r] # "SUCCEEDED" THEN 409
    ELSE 0

VerifyGet(p) ==
    LET answer == VerifyAnswer(req[p].rem)
    IN  /\ At(p, "verify")
        /\ IF answer # 0 THEN Reply(p, answer)
                         ELSE req' = [req EXCEPT ![p] = Goto(req[p], "checking")]
        /\ UNCHANGED <<now, rowVars, audit, applied, topic>>

\* What begin_verification checks again under the row lock.
Verifiable(r) == status[r] = "EXECUTED"

BeginVerification(p) ==
    LET r == req[p].rem
    IN  /\ At(p, "checking")
        /\ Verifiable(r)
        /\ status' = [status EXCEPT ![r] = "VERIFYING"]
        /\ verification' = [verification EXCEPT ![r] = "STARTED"]
        /\ CommitWithAudit(p, r,
             <<VerificationStartedEvent>>, "observing", 0)
        /\ UNCHANGED <<now, proposal, policy, approval, execution, applied, topic>>

VerificationConflict(p) ==
    /\ At(p, "checking")
    /\ ~ Verifiable(req[p].rem)
    /\ Reply(p, 409)
    /\ UNCHANGED <<now, rowVars, audit, applied, topic>>

\* verifier.verify only observes; which verdict it reaches is left open here.
Observe(p, verdict) ==
    /\ At(p, "observing")
    /\ req' = [req EXCEPT ![p] =
                 Further(req[p], "concluding", NoHistory, verdict, 1, 0, 0)]
    /\ UNCHANGED <<now, rowVars, audit, applied, topic>>

FinishVerification(p) ==
    LET r     == req[p].rem
        final == req[p].result
    IN  /\ At(p, "concluding")
        /\ status[r] = "VERIFYING"
        /\ status' = [status EXCEPT ![r] = final]
        /\ verification' = [verification EXCEPT ![r] = final]
        /\ CommitWithAudit(p, r, <<VerificationFinishedEvent(final)>>, "done", 200)
        /\ UNCHANGED <<now, proposal, policy, approval, execution, applied, topic>>

-----------------------------------------------------------------------------
(* Publication, answers, failures, time.                                   *)

\* The request after its loop over the events has reached position i.
Published(q, i) == Further(q, q.pc, q.seen, q.result, i, q.upto, q.reply)

\* Mutant of Publish: the loop sends an event again after a failed acknowledgement.
MutantPublishResends(p, sent) ==
    LET r == req[p].rem
        i == req[p].next
    IN  /\ i <= req[p].upto
        /\ Len(topic[r]) < 4
        /\ topic' = [topic EXCEPT ![r] = IF Publishable(audit[r][i])
                                           THEN Append(@, i) ELSE @]
        /\ req' = [req EXCEPT ![p] = Published(@, IF sent THEN i + 1 ELSE i)]
        /\ UNCHANGED <<now, rowVars, audit, applied>>

\* One iteration of publish_audit_events.  A failed send is logged and the
\* loop goes on; a producer that is not ready fails every send.
Publish(p, sent) ==
    LET r == req[p].rem
        i == req[p].next
    IN  /\ i <= req[p].upto
        /\ topic' = [topic EXCEPT ![r] = IF sent /\ Publishable(audit[r][i])
                                           THEN Append(@, i) ELSE @]
        /\ req' = [req EXCEPT ![p] = Published(@, i + 1)]
        /\ UNCHANGED <<now, rowVars, audit, applied>>

Respond(p) ==
    /\ At(p, "done")
    /\ req' = [req EXCEPT ![p] = Idle]
    /\ UNCHANGED <<now, rowVars, audit, applied, topic>>

\* The process dies, the database fails or the task is cancelled at an await:
\* what the request had not committed is gone, what it had committed stays.
Abort(p) ==
    /\ MayAbort
    /\ req[p].pc # "idle"
    /\ req' = [req EXCEPT ![p] = Idle]
    /\ UNCHANGED <<now, rowVars, audit, applied, topic>>

Tick ==
    /\ now < MaxTime
    /\ now' = now + 1
    /\ UNCHANGED <<rowVars, audit, applied, topic, req>>

-----------------------------------------------------------------------------
\* A new request reaches the API.
Arrive(p) ==
    \/ \E rec \in Recommendations :
         \/ ProposeUnmappable(p, rec)
         \/ \E r \in Rems : ProposeMapped(p, rec, r)
    \/ \E r \in Rems, d \in Decisions, role \in RouteRoles : DecideRequest(p, r, d, role)
    \/ \E r \in Rems : ExecuteRequest(p, r) \/ VerifyRequest(p, r)

\* The event loop runs a request to its next await.
Advance(p) ==
    \/ HistorySnapshot(p) \/ Create(p)
    \/ DecideGet(p) \/ RecordDecision(p) \/ DecisionRaceLost(p)
    \/ ExecuteGet(p) \/ BeginExecution(p) \/ ExecutionConflict(p)
    \/ \E result \in {"SUCCEEDED", "FAILED"} : DryRun(p, result) \/ RunExecutor(p, result)
    \/ FinishExecution(p)
    \/ VerifyGet(p) \/ BeginVerification(p) \/ VerificationConflict(p)
    \/ \E verdict \in {"RECOVERED", "RECOVERY_FAILED"} : Observe(p, verdict)
    \/ FinishVerification(p)
    \/ \E sent \in BOOLEAN : Publish(p, sent)
    \/ Respond(p)

Next == Tick \/ \E p \in Procs : Arrive(p) \/ Advance(p) \/ Abort(p)

Spec == Init /\ [][Next]_vars

\* The clock runs and the event loop schedules every started request.
Fairness == WF_vars(Tick) /\ \A p \in Procs : WF_vars(Advance(p))

FairSpec == Spec /\ Fairness

-----------------------------------------------------------------------------
(* Types.                                                                  *)

AuditTypes == {"PROPOSAL_CREATED", "POLICY_EVALUATED", "REMEDIATION_BLOCKED",
               "APPROVED", "REJECTED", "EXECUTION_REQUESTED", "EXECUTION_STARTED",
               "EXECUTION_SUCCEEDED", "EXECUTION_FAILED", "VERIFICATION_STARTED",
               "VERIFICATION_SUCCEEDED", "VERIFICATION_FAILED"}
AuditEvents == [type : AuditTypes, prev : Statuses \cup {Nothing}, new : Statuses]

PCs == {"idle", "mapped", "snapshotted", "decide", "deciding", "execute",
        "claiming", "claimed", "finishing", "verify", "checking", "observing",
        "concluding", "done"}

Incidents == {rec.incident : rec \in Recommendations}

Proposals == [incident : Incidents, action : ActionTypes,
              service : AllowedTargetServices, environment : TargetEnvironments,
              created : Nat, expires : Nat]

Approvals == [decision : Decisions, role : RouteRoles, at : Nat]

\* HTTP status codes; 0 while the request is not answered yet.
Replies == {0, 200, 201, 403, 404, 409, 422, 500}

Requests == [pc : PCs, rem : Rems \cup {NoRem}, ts : Nat,
             rec : Recommendations \cup {NoRecommendation},
             seen : [active : BOOLEAN, lastCompleted : SUBSET Nat],
             decision : Decisions \cup {Nothing}, role : RouteRoles \cup {Nothing},
             result : {"SUCCEEDED", "FAILED", "RECOVERED", "RECOVERY_FAILED", Nothing},
             next : Nat, upto : Nat,
             reply : Replies]

\* Every variable holds a value of its column or local variable.
TypeOK ==
    /\ now \in Nat
    /\ status \in [Rems -> Statuses \cup {Absent}]
    /\ proposal \in [Rems -> Proposals \cup {NoProposal}]
    /\ policy \in [Rems -> {"ALLOW", "DENY", Nothing}]
    /\ approval \in [Rems -> Approvals \cup {NoApproval}]
    /\ execution \in [Rems -> {"STARTED", "SUCCEEDED", "FAILED", Nothing}]
    /\ verification \in [Rems -> {"STARTED", "RECOVERED", "RECOVERY_FAILED", Nothing}]
    /\ audit \in [Rems -> Seq(AuditEvents)]
    /\ applied \in [Rems -> Nat]
    /\ topic \in [Rems -> Seq(Nat)]
    /\ req \in [Procs -> Requests]

-----------------------------------------------------------------------------
(* Safety.                                                                 *)

\* The executor changes the world at most once per remediation, and only for
\* one that policy allowed and that a person whose role may approve an action
\* of its catalogue risk approved before it expired, whatever requests race
\* (execute, begin_execution, decide).
EffectAuthorised ==
    \A r \in Rems :
      /\ applied[r] <= 1
      /\ applied[r] = 1 =>
           /\ policy[r] = "ALLOW"
           /\ approval[r].decision = "APPROVE"
           /\ CanApprove(approval[r].role, proposal[r].action)
           /\ approval[r].at < proposal[r].expires

\* The row never misreports the executor: a remediation recorded as executed,
\* or verified, was applied exactly once; one recorded as failed, rejected,
\* blocked or not yet claimed was not applied at all.  Only EXECUTING leaves
\* it open, the status a crash between the two transactions leaves behind.
OutcomeTruthful ==
    \A r \in Rems :
      /\ status[r] \in {"EXECUTED", "VERIFYING", "RECOVERED", "RECOVERY_FAILED"}
           => applied[r] = 1 /\ execution[r] = "SUCCEEDED"
      /\ status[r] \notin {"EXECUTING", "EXECUTED", "VERIFYING", "RECOVERED",
                           "RECOVERY_FAILED"} => applied[r] = 0

\* The audit trail replays to the row: a remediation has a trail exactly when
\* it has a row, the trail ends in the row's status, and after the creation
\* events every event starts from the state its predecessor ended in, although
\* the service fills in previous_state before it holds the row lock.
TrailMatchesRow ==
    \A r \in Rems :
      LET trail == audit[r]
      IN  /\ trail = <<>> <=> status[r] = Absent
          /\ trail # <<>> => trail[Len(trail)].new = status[r]
          /\ \A i \in 3 .. Len(trail) :
               trail[i].type # "REMEDIATION_BLOCKED" =>
                 trail[i].prev = trail[i - 1].new

\* A decision, once recorded, is immutable; a terminal status is final; the
\* audit trail only grows (the UNIQUE rows, _ALLOWED and the append-only table).
HistoryImmutable ==
    [][\A r \in Rems :
         /\ approval[r] # NoApproval => approval'[r] = approval[r]
         /\ status[r] \in TerminalStatuses => status'[r] = status[r]
         /\ SubSeq(audit'[r], 1, Len(audit[r])) = audit[r]]_vars

\* What reaches remediation.events is the mirror of a committed audit event
\* with a lifecycle type, and no event is sent twice, whatever fails between
\* the commit and the send (publish_audit_events).
EventsMirrorTrail ==
    \A r \in Rems :
      /\ \A i \in 1 .. Len(topic[r]) :
           topic[r][i] <= Len(audit[r]) /\ Publishable(audit[r][topic[r][i]])
      /\ \A i, j \in 1 .. Len(topic[r]) : i # j => topic[r][i] # topic[r][j]

\* Two remediations of one (incident, action, target) are never both in
\* flight: the DUPLICATE_ACTIVE rule of cooldown_rule.
AtMostOneActivePerKey ==
    \A r, s \in Rems :
      /\ r # s
      /\ status[r] \in ActiveStatuses /\ status[s] \in ActiveStatuses
      => ~ SameKey(proposal[r], proposal[s])

\* s becomes approvable while r, of the same key, is in its cooldown window.
AllowedInCooldown(s, r) ==
    /\ status[s] = Absent /\ status'[s] = "PENDING_APPROVAL"
    /\ SameKey(proposal[r], proposal'[s])
    /\ proposal'[s].created < approval[r].at + Cooldown[proposal[r].action]

\* A run that failed keeps its key cooling down: no proposal for the same
\* (incident, action, target) becomes approvable before the action's cooldown,
\* counted from the decision, is over (COOLDOWN_ACTIVE of cooldown_rule).
FailedRunCoolsDown ==
    [][\A r, s \in Rems :
         status[r] = "EXECUTION_FAILED" => ~ AllowedInCooldown(s, r)]_vars

\* Any remediation that ran keeps its key cooling down, a verified one too.  No
\* run checks this: CooldownAnchors leaves the verified out (README, section 5).
CooldownRespected ==
    [][\A r, s \in Rems : applied[r] = 1 => ~ AllowedInCooldown(s, r)]_vars

-----------------------------------------------------------------------------
(* Refinement.                                                             *)

Lifecycle == INSTANCE RemediationLifecycle WITH
    st      <- status,
    act     <- [r \in Rems |-> proposal[r].action],
    grant   <- [r \in Rems |-> IF approval[r].decision = "APPROVE"
                                 THEN approval[r].role ELSE Nothing],
    effects <- applied

\* The controller, with all its races and crashes, implements the lifecycle.
LifecycleSpec == Lifecycle!LSpec

-----------------------------------------------------------------------------
(* Liveness, under FairSpec.                                               *)

\* A claimed execution and a started verification come to an end, and so does
\* every request, as long as no request dies.
ClaimsResolve ==
    /\ \A r \in Rems : status[r] = "EXECUTING" ~> status[r] # "EXECUTING"
    /\ \A r \in Rems : status[r] = "VERIFYING" ~> status[r] # "VERIFYING"
    /\ \A p \in Procs : req[p].pc # "idle" ~> req[p].pc = "idle"
=============================================================================
