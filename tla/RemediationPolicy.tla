--------------------------- MODULE RemediationPolicy ---------------------------
(***************************************************************************)
(* The pure part of the remediation controller: the closed action          *)
(* catalogue, the mapping from an RCA recommendation to a proposal, the    *)
(* nine policy rules, the approver matrix and the lifecycle edges.         *)
(* Nothing here has state; Remediation.tla calls these operators from its  *)
(* actions the way service.py calls the functions they translate.          *)
(*                                                                         *)
(* Time is in ticks: the catalogue's cooldown seconds are the constant     *)
(* function Cooldown, so that a small clock can exercise them.             *)
(***************************************************************************)
EXTENDS Integers

CONSTANT Cooldown     \* ActionDefinition.cooldown_seconds, per action

ActionTypes == {"RESTART_SERVICE", "SCALE_SERVICE",
                "ROLL_BACK_DEPLOYMENT", "DISABLE_FEATURE_FLAG"}

ASSUME CooldownAssumption == Cooldown \in [ActionTypes -> Nat]

Nothing == "none"     \* Python's None where the code has an optional value

-----------------------------------------------------------------------------
(* The catalogue.  Risk and required parameters come from here and never   *)
(* from the proposal.                                                      *)

RiskLevels == {"LOW", "MEDIUM", "HIGH"}

RiskLevel(action) ==
    CASE action = "ROLL_BACK_DEPLOYMENT" -> "HIGH"
      [] action = "DISABLE_FEATURE_FLAG" -> "LOW"
      [] OTHER                           -> "MEDIUM"

RiskRank(risk) ==
    CASE risk = "LOW" -> 0 [] risk = "MEDIUM" -> 1 [] risk = "HIGH" -> 2

MaxBlastRadius(action) == IF action = "SCALE_SERVICE" THEN 10 ELSE 1

RequiredParameters(action) ==
    CASE action = "SCALE_SERVICE"        -> {"replicas"}
      [] action = "DISABLE_FEATURE_FLAG" -> {"flag_key"}
      [] OTHER                           -> {}

AllowedSeverities(action) ==
    {"MEDIUM", "HIGH", "CRITICAL"}
      \cup (IF action = "DISABLE_FEATURE_FLAG" THEN {"LOW"} ELSE {})

KnownSeverities == {"INFO", "LOW", "MEDIUM", "HIGH", "CRITICAL"}

AllowedTargetServices == {"orders-service"}

\* ServiceTarget rejects any environment outside this list.
TargetEnvironments == {"development", "staging", "production"}

-----------------------------------------------------------------------------
(* proposal_from_rca.  A recommendation names a category of the RCA        *)
(* report, a service or Nothing, and the caller's severity or Nothing.     *)

RcaActionMap == {"RESTART_SERVICE", "ROLL_BACK_DEPLOYMENT", "SCALE_SERVICE"}

IsMappable(rec) ==
    /\ rec.action \in RcaActionMap
    /\ rec.severity # Nothing => rec.severity \in AllowedSeverities(rec.action)
    /\ RequiredParameters(rec.action) = {}
    /\ rec.environment \in TargetEnvironments
    /\ rec.service \in AllowedTargetServices

-----------------------------------------------------------------------------
(* The policy rules, each the set of reason codes it reports.  `seen' is   *)
(* the history snapshot read before the evaluation (its lastCompleted is   *)
(* {} for None and a singleton otherwise); ts is the time stamp taken when *)
(* the request arrived.                                                    *)

EligibleActions == ActionTypes
PolicyEnvironments == {"development"}
MaxAllowedRisk == "HIGH"
MaxAllowedBlastRadius == 10

ActionRule(rec) ==
    IF rec.action \in EligibleActions THEN {} ELSE {"ACTION_NOT_ALLOWED"}

TargetRule(rec) ==
    IF rec.service \in AllowedTargetServices THEN {} ELSE {"TARGET_NOT_ALLOWED"}

EnvironmentRule(rec) ==
    IF rec.environment \in PolicyEnvironments
      THEN {} ELSE {"ENVIRONMENT_NOT_ALLOWED"}

\* An unknown severity fails closed (require_known_incident_severity).
SeverityRule(rec) ==
    IF rec.severity \in KnownSeverities \cap AllowedSeverities(rec.action)
      THEN {} ELSE {"SEVERITY_NOT_ALLOWED"}

ParameterRule(rec) ==
    IF RequiredParameters(rec.action) = {} THEN {} ELSE {"PARAMETER_INVALID"}

RiskRule(rec) ==
    IF /\ RiskRank(RiskLevel(rec.action)) <= RiskRank(MaxAllowedRisk)
       /\ MaxBlastRadius(rec.action) <= MaxAllowedBlastRadius
      THEN {} ELSE {"RISK_EXCEEDED"}

ExpiryRule(created, expires, ts) ==
    IF expires <= created \/ ts >= expires THEN {"PROPOSAL_EXPIRED"} ELSE {}

CooldownRule(rec, seen, ts) ==
    (IF seen.active THEN {"DUPLICATE_ACTIVE"} ELSE {})
      \cup
    (IF \E t \in seen.lastCompleted : ts - t < Cooldown[rec.action]
       THEN {"COOLDOWN_ACTIVE"} ELSE {})

\* All nine rules always run.  The state rule accepts every freshly mapped
\* proposal, whose status is PROPOSED, so it contributes no code here.
Violations(rec, seen, created, expires, ts) ==
    ActionRule(rec) \cup TargetRule(rec) \cup EnvironmentRule(rec)
      \cup SeverityRule(rec) \cup ParameterRule(rec) \cup RiskRule(rec)
      \cup ExpiryRule(created, expires, ts) \cup CooldownRule(rec, seen, ts)

PolicyOutcome(rec, seen, created, expires, ts) ==
    IF Violations(rec, seen, created, expires, ts) = {} THEN "ALLOW" ELSE "DENY"

-----------------------------------------------------------------------------
(* Who may approve what: the role-to-risk matrix.                          *)

ApproverRoles == {"OPERATOR", "INCIDENT_RESPONDER", "ADMINISTRATOR"}

ApprovableRisks(role) ==
    CASE role = "OPERATOR"           -> {"LOW"}
      [] role = "INCIDENT_RESPONDER" -> {"LOW", "MEDIUM"}
      [] role = "ADMINISTRATOR"      -> {"LOW", "MEDIUM", "HIGH"}

CanApprove(role, action) == RiskLevel(action) \in ApprovableRisks(role)

-----------------------------------------------------------------------------
(* The lifecycle of one remediation.                                       *)

Statuses == {"PROPOSED", "POLICY_EVALUATION", "PENDING_APPROVAL", "APPROVED",
             "EXECUTING", "EXECUTED", "VERIFYING", "BLOCKED", "REJECTED",
             "EXPIRED", "EXECUTION_FAILED", "RECOVERED", "RECOVERY_FAILED"}

TerminalStatuses == {"BLOCKED", "REJECTED", "EXPIRED", "EXECUTION_FAILED",
                     "RECOVERED", "RECOVERY_FAILED"}

ActiveStatuses == Statuses \ TerminalStatuses

AllowedTransitions(status) ==
    CASE status = "PROPOSED"          -> {"POLICY_EVALUATION", "BLOCKED"}
      [] status = "POLICY_EVALUATION" -> {"PENDING_APPROVAL", "BLOCKED"}
      [] status = "PENDING_APPROVAL"  -> {"APPROVED", "REJECTED", "EXPIRED"}
      [] status = "APPROVED"          -> {"EXECUTING", "EXPIRED"}
      [] status = "EXECUTING"         -> {"EXECUTED", "EXECUTION_FAILED"}
      [] status = "EXECUTED"          -> {"VERIFYING"}
      [] status = "VERIFYING"         -> {"RECOVERED", "RECOVERY_FAILED"}
      [] OTHER                        -> {}

\* Mutant of CooldownAnchors: a failed run does not count as a run.
MutantCooldownAnchorsNoFailure == {"APPROVED", "EXECUTING", "EXECUTED"}

\* Statuses whose decided_at starts a cooldown window.
CooldownAnchors == {"APPROVED", "EXECUTING", "EXECUTED", "EXECUTION_FAILED"}

\* Statuses only reachable through a recorded approval.
ApprovedStatuses == {"APPROVED", "EXECUTING", "EXECUTED", "VERIFYING",
                     "EXECUTION_FAILED", "RECOVERED", "RECOVERY_FAILED"}
=============================================================================
