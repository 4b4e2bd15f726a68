------------------------------ MODULE MCRecovery ------------------------------
(* Small instances of Recovery for TLC. *)
EXTENDS Recovery

\* The interval divides the timeout, does not divide it, exceeds it.
MCConfigs ==
    {[timeout |-> t, interval |-> i, require_ready |-> TRUE] :
        t \in {8}, i \in {1, 2, 3, 9}}
    \cup {[timeout |-> 7, interval |-> 2, require_ready |-> FALSE]}
=============================================================================
