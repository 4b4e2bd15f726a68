------------------------- MODULE RemediationLifecycle -------------------------
(***************************************************************************)
(* What the remediation controller promises about one remediation, without *)
(* requests, rows, locks or time: it is proposed once, a role that may     *)
(* approve its action grants it or a person rejects it, the action is      *)
(* applied at most once and only after the grant, the recorded outcome     *)
(* says truthfully whether it was applied, and only an applied action is   *)
(* verified.  Remediation.tla is shown to implement this specification.    *)
(***************************************************************************)
EXTENDS RemediationPolicy

CONSTANT Rems

VARIABLES
    st,        \* the status of each remediation
    act,       \* its action
    grant,     \* the role that approved it, or Nothing
    effects    \* how often its action was applied

lvars == <<st, act, grant, effects>>

LInit ==
    /\ st = [r \in Rems |-> "ABSENT"]
    /\ act = [r \in Rems |-> Nothing]
    /\ grant = [r \in Rems |-> Nothing]
    /\ effects = [r \in Rems |-> 0]

\* validate_transition: every status change follows an edge of _ALLOWED.
Move(r, to) ==
    /\ to \in AllowedTransitions(st[r])
    /\ st' = [st EXCEPT ![r] = to]

\* The proposal and the policy verdict become visible together.
LPropose(r, a, to) ==
    /\ st[r] = "ABSENT"
    /\ to \in {"PENDING_APPROVAL", "BLOCKED"}
    /\ st' = [st EXCEPT ![r] = to]
    /\ act' = [act EXCEPT ![r] = a]
    /\ UNCHANGED <<grant, effects>>

LApprove(r, role) ==
    /\ CanApprove(role, act[r])
    /\ Move(r, "APPROVED")
    /\ grant' = [grant EXCEPT ![r] = role]
    /\ UNCHANGED <<act, effects>>

LReject(r) == Move(r, "REJECTED") /\ UNCHANGED <<act, grant, effects>>

LClaim(r) == Move(r, "EXECUTING") /\ UNCHANGED <<act, grant, effects>>

LApply(r) ==
    /\ st[r] = "EXECUTING"
    /\ effects[r] = 0
    /\ effects' = [effects EXCEPT ![r] = 1]
    /\ UNCHANGED <<st, act, grant>>

LFinish(r) ==
    /\ Move(r, IF effects[r] = 1 THEN "EXECUTED" ELSE "EXECUTION_FAILED")
    /\ UNCHANGED <<act, grant, effects>>

LVerify(r) ==
    /\ \/ Move(r, "VERIFYING")
       \/ Move(r, "RECOVERED")
       \/ Move(r, "RECOVERY_FAILED")
    /\ UNCHANGED <<act, grant, effects>>

LNext ==
    \E r \in Rems :
      \/ \E a \in ActionTypes, to \in Statuses : LPropose(r, a, to)
      \/ \E role \in ApproverRoles : LApprove(r, role)
      \/ LReject(r) \/ LClaim(r) \/ LApply(r) \/ LFinish(r) \/ LVerify(r)

LSpec == LInit /\ [][LNext]_lvars
=============================================================================
