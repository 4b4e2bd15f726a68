---------------------------- MODULE MCInvestigation ----------------------------
(* Small instances of Investigation for TLC. *)
EXTENDS Investigation

Lifecycle(type, version) ==
    [type |-> type, version |-> version, valid |-> TRUE, incident |-> "inc1"]

\* An announcement, an undecodable record, an unknown version, an event for
\* others; a crash before the commit delivers any of them again.
MCMessage == [o \in Offsets |->
    CASE o = 2 -> Lifecycle("incident.opened", 2)
      [] o = 3 -> Lifecycle("incident.updated", 1)
      [] OTHER -> Lifecycle("incident.opened", 1)]
=============================================================================
