----------------------------- MODULE MCRemediation -----------------------------
(* Small instances of Remediation for TLC. *)
EXTENDS Remediation, TLC

\* One incident, one medium-risk and one high-risk action, and the ways a
\* recommendation can fail: unmappable, or mapped and then denied by policy.
Recommend(action, severity, environment) ==
    [incident |-> "inc1", action |-> action, service |-> "orders-service",
     severity |-> severity, environment |-> environment]

MCRecommendations ==
    {Recommend("RESTART_SERVICE", "HIGH", "development"),
     Recommend("ROLL_BACK_DEPLOYMENT", "CRITICAL", "development"),
     Recommend("RESTART_SERVICE", Nothing, "development"),
     Recommend("SCALE_SERVICE", "HIGH", "development")}

\* One proposal that policy allows and one that it blocks.
MCAllowedAndBlocked ==
    {Recommend("RESTART_SERVICE", "HIGH", "development"),
     Recommend("RESTART_SERVICE", Nothing, "development")}

\* Only allowed proposals of one key, for the questions about history.
MCOneKey == {Recommend("RESTART_SERVICE", "HIGH", "development")}

\* The catalogue's 300 s / 600 s cooldowns and 3600 s window, scaled down and
\* kept in order: cooldown of a restart < cooldown of a roll-back < TTL.
MCCooldown == [a \in ActionTypes |->
                 IF a = "ROLL_BACK_DEPLOYMENT" THEN 2 ELSE 1]

\* Requests and remediation ids are interchangeable.
Symmetry == Permutations(Procs) \cup Permutations(Rems)
=============================================================================
