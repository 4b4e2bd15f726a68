-------------------------- MODULE IncidentCorrelator --------------------------
(***************************************************************************)
(* The incident correlator: consumers that fold anomalies into incidents   *)
(* (AnomalyProcessor over SqlIncidentRepository) and API requests that     *)
(* move incidents through their life cycle, all on one PostgreSQL          *)
(* database.                                                               *)
(*                                                                         *)
(* A unit of work is cut where transactions can meet: the duplicate check  *)
(* reads before anything is locked; SELECT ... FOR UPDATE takes the row of *)
(* the active incident or waits for it; the writes take effect together at *)
(* the commit, which the foreign keys of a new link may delay until the    *)
(* neighbour's row is free.  The event is published after the commit.      *)
(***************************************************************************)
EXTENDS IncidentRules, Sequences

CONSTANTS
    Workers,           \* consumers: one per instance of the service
    Clients,           \* concurrent API requests
    Events,            \* event ids of anomaly.detected
    Signal,            \* the anomaly each event carries
    Ids,               \* incident ids that may be minted (bounds creation)
    None,
    MaxAttempts,       \* max_supersede_retries
    MayCrash,          \* may a consumer die in the middle of a message?
    SendOutcomes       \* can a send succeed (TRUE), can it fail (FALSE)?

Signals == [service : Services, environment : Environments, start : Nat, end : Nat,
            at : Nat, abnormal : SUBSET STRING, error : Nat, latency : Nat]

ASSUME CorrelatorAssumption ==
    /\ Signal \in [Events -> Signals]
    /\ \A e \in Events : IsFiniteSet(Signal[e].abnormal)
    /\ None \notin Ids \cup Workers \cup Events
    /\ MaxAttempts \in Nat \ {0}
    /\ MayCrash \in BOOLEAN
    /\ SendOutcomes \in (SUBSET BOOLEAN) \ {{}}

VARIABLES
    row,               \* incidents
    evidence,          \* incident_evidence: the incident an event counts for
    history,           \* incident_state_history, per incident
    links,             \* incident_relations: <<dependent, dependency>>
    locked,            \* who holds the row of an incident FOR UPDATE
    topic,             \* incident.events: <<incident, change>>
    dead,              \* events whose handler gave up on them
    worker,            \* the consumers' local state
    client             \* the API requests' local state

tables == <<row, evidence, history, links>>
vars == <<tables, locked, topic, dead, worker, client>>

NoRow == [service |-> None, environment |-> None, status |-> "ABSENT",
          severity |-> 0, count |-> 0, abnormal |-> {}, error |-> 0, latency |-> 0,
          started |-> 0, last |-> 0]

\* A consumer at pc with an event on its attempt-th try.
Working(pc, event, attempt) ==
    [pc |-> pc, event |-> event, attempt |-> attempt, active |-> None,
     copy |-> NoRow, action |-> None, want |-> {}, id |-> None, change |-> None]

Waiting(event, attempt, i) == [Working("waiting", event, attempt) EXCEPT !.active = i]

IdleWorker == Working("idle", None, 0)

IdleClient == [pc |-> "idle", id |-> None, target |-> None]

Init ==
    /\ row = [i \in Ids |-> NoRow]
    /\ evidence = [e \in Events |-> None]
    /\ history = [i \in Ids |-> <<>>]
    /\ links = {}
    /\ locked = [i \in Ids |-> None]
    /\ topic = {}
    /\ dead = {}
    /\ worker = [w \in Workers |-> IdleWorker]
    /\ client = [c \in Clients |-> IdleClient]

-----------------------------------------------------------------------------
(* Building blocks.                                                        *)

\* Mutant of Change: the two ends are swapped.
MutantChangeSwapped(from, to) == [from |-> to, to |-> from]

\* A row of incident_state_history.
Change(from, to) == [from |-> from, to |-> to]

IsActive(i) == row[i].status \in ActiveStatuses

\* Mutant of ActiveOfKey: the index covers OPEN incidents only.
MutantActiveOfKeyOpen(key) == {i \in Ids : row[i].status = "OPEN" /\ Key(row[i]) = key}

\* The rows uq_incidents_active_key indexes under a key.
ActiveOfKey(key) == {i \in Ids : IsActive(i) /\ Key(row[i]) = key}

SignalOf(w) == Signal[worker[w].event]

\* What COMMIT or ROLLBACK does to the rows that w holds.
Release(w) == [i \in Ids |-> IF locked[i] = w THEN None ELSE locked[i]]

ActiveIncidentsInServices(services, environment) ==
    {j \in Ids : IsActive(j) /\ row[j].service \in services /\ row[j].environment = environment}

\* Active neighbours in the topology that were on fire at the same time as inc.
Neighbours(inc, self) ==
    {j \in ActiveIncidentsInServices(RelatedServices(inc.service), inc.environment) \ {self} :
        Overlap(inc, row[j])}

\* Mutant of Edge: the edge points from the incident at hand to its neighbour.
MutantEdgeOutward(inc, i, j) == <<i, j>>

\* The edge between incident i, whose row is inc, and its neighbour j.
Edge(inc, i, j) ==
    IF row[j].service \in Dependencies(inc.service) THEN <<i, j>> ELSE <<j, i>>

\* Mutant of LockedBy: the SELECT does not ask for a lock.
MutantLockedByNobody(i, w) == [locked EXCEPT ![i] = None]

\* FOR UPDATE.
LockedBy(i, w) == [locked EXCEPT ![i] = w]

-----------------------------------------------------------------------------
(* A consumer: AnomalyProcessor.process for one delivery of an event.      *)

\* Kafka delivers at least once, and to another consumer after a rebalance:
\* any idle consumer may be handed any event at any time.
Deliver(w, e) ==
    /\ worker[w].pc = "idle"
    /\ worker' = [worker EXCEPT ![w] = Working("begin", e, 1)]
    /\ UNCHANGED <<tables, locked, topic, dead, client>>

\* evidence_exists, the first read of the transaction.
EvidenceExists(w) ==
    LET q == worker[w]
    IN  /\ q.pc = "begin"
        /\ worker' = [worker EXCEPT ![w] =
             IF evidence[q.event] # None THEN IdleWorker
                                         ELSE Working("lock", q.event, q.attempt)]
        /\ UNCHANGED <<tables, locked, topic, dead, client>>

\* decide on what the locked read returned (None for no active incident), and
\* look up the neighbours to link: the unit of work as it will be written.
Decided(w, active) ==
    LET q      == worker[w]
        action == IF active = None THEN "CREATE" ELSE Correlate(SignalOf(w), row[active])
        inc    == IF action = "APPEND" THEN Absorb(row[active], SignalOf(w))
                                       ELSE Absorb(Blank(SignalOf(w)), SignalOf(w))
    IN  [Working("commit", q.event, q.attempt) EXCEPT
           !.active = active,
           !.copy = IF active = None THEN NoRow ELSE row[active],
           !.action = action,
           !.want = Neighbours(inc, active)]

\* lock_active_incident: the row of the key's active incident, if it has one.
LockActive(w) ==
    LET q    == worker[w]
        mine == ActiveOfKey(Key(SignalOf(w)))
    IN  /\ q.pc = "lock"
        /\ \/ /\ mine = {}
              /\ worker' = [worker EXCEPT ![w] = Decided(w, None)]
              /\ UNCHANGED locked
           \/ \E i \in mine :
                IF locked[i] = None
                THEN /\ locked' = LockedBy(i, w)
                     /\ worker' = [worker EXCEPT ![w] = Decided(w, i)]
                ELSE /\ worker' = [worker EXCEPT ![w] = Waiting(q.event, q.attempt, i)]
                     /\ UNCHANGED locked
        /\ UNCHANGED <<tables, topic, dead, client>>

\* The row w waited for is free.  PostgreSQL reads it again: if it is resolved
\* by now the query returns nothing, whatever else has been inserted meanwhile.
LockGranted(w) ==
    LET i == worker[w].active
    IN  /\ worker[w].pc = "waiting"
        /\ locked[i] = None
        /\ IF IsActive(i)
           THEN /\ locked' = LockedBy(i, w)
                /\ worker' = [worker EXCEPT ![w] = Decided(w, i)]
           ELSE /\ worker' = [worker EXCEPT ![w] = Decided(w, None)]
                /\ UNCHANGED locked
        /\ UNCHANGED <<tables, topic, dead, client>>

\* A write of w violates a unique index: the key has another active incident,
\* or the event is evidence already.
Duplicate(w) ==
    LET q == worker[w]
    IN  \/ evidence[q.event] # None
        \/ q.action # "APPEND" /\ ActiveOfKey(Key(SignalOf(w))) \ {q.active} # {}

\* The edge from the incident w works on to j is stored already.
AlreadyLinked(w, j) ==
    /\ worker[w].action = "APPEND"
    /\ Edge(worker[w].copy, worker[w].active, j) \in links

\* The consumers w waits for: the foreign keys of a new link need the
\* neighbour's row, which whoever updates that incident holds FOR UPDATE.
Blockers(w) ==
    {locked[j] : j \in {j \in worker[w].want : ~ AlreadyLinked(w, j)}} \ {None, w}

\* The transaction's writes and COMMIT.  i is the incident the event goes to.
Commit(w, i) ==
    LET q      == worker[w]
        signal == SignalOf(w)
        base   == IF q.action = "APPEND" THEN q.copy ELSE Blank(signal)
        inc    == Absorb(base, signal)
        change == IF q.action # "APPEND" THEN "opened"
                  ELSE IF inc.severity # q.copy.severity THEN "severity-changed"
                  ELSE "evidence-added"
    IN  /\ q.pc = "commit"
        /\ ~ Duplicate(w)
        /\ Blockers(w) = {}
        /\ IF q.action = "APPEND" THEN i = q.active ELSE row[i] = NoRow
        /\ row' = [j \in Ids |->
                     IF j = i THEN inc
                     ELSE IF q.action = "SUPERSEDE" /\ j = q.active
                            THEN WithStatus(q.copy, "RESOLVED")
                     ELSE row[j]]
        /\ history' = [j \in Ids |->
                         IF j = i /\ q.action # "APPEND"
                           THEN Append(history[j], Change(None, "OPEN"))
                         ELSE IF q.action = "SUPERSEDE" /\ j = q.active
                           THEN Append(history[j], Change(q.copy.status, "RESOLVED"))
                         ELSE history[j]]
        /\ evidence' = [evidence EXCEPT ![q.event] = i]
        /\ links' = links \cup {Edge(inc, i, j) : j \in q.want}
        /\ locked' = Release(w)
        /\ worker' = [worker EXCEPT ![w] =
             [Working("publish", q.event, q.attempt) EXCEPT !.id = i, !.change = change]]
        /\ UNCHANGED <<topic, dead, client>>

\* Mutant of LostRace: the retry goes straight back to the locked read and
\* attempts are not counted.
MutantLostRaceForever(w) ==
    LET q == worker[w]
    IN  /\ q.pc = "commit"
        /\ Duplicate(w)
        /\ locked' = Release(w)
        /\ worker' = [worker EXCEPT ![w] = Working("lock", q.event, q.attempt)]
        /\ UNCHANGED <<tables, topic, dead, client>>

\* DuplicateActiveIncidentError: roll back and try again; after the last
\* attempt a RetryableError makes the consumer deliver the event again.
LostRace(w) ==
    LET q == worker[w]
    IN  /\ q.pc = "commit"
        /\ Duplicate(w)
        /\ locked' = Release(w)
        /\ worker' = [worker EXCEPT ![w] =
             IF q.attempt < MaxAttempts THEN Working("begin", q.event, q.attempt + 1)
                                        ELSE IdleWorker]
        /\ UNCHANGED <<tables, topic, dead, client>>

\* PostgreSQL breaks a circle of waiting transactions by failing one of them.
\* That error is no IntegrityError: the processor does not retry, and the
\* consumer sends the event to the dead-letter topic.
DeadlockDetected(w) ==
    /\ worker[w].pc = "commit"
    /\ \E circle \in SUBSET Workers :
         /\ w \in circle
         /\ \A v \in circle : /\ worker[v].pc = "commit" /\ ~ Duplicate(v)
                              /\ Blockers(v) \cap circle # {}
                              /\ \E u \in circle : v \in Blockers(u)
    /\ locked' = Release(w)
    /\ worker' = [worker EXCEPT ![w] = IdleWorker]
    /\ dead' = dead \cup {worker[w].event}
    /\ UNCHANGED <<tables, topic, client>>

\* Mutant of Publish: what to announce is taken from the row as it is by now.
MutantPublishUpdates(w, sent) ==
    LET q == worker[w]
        change == IF row[q.id].count > 1 THEN "evidence-added" ELSE q.change
    IN  /\ q.pc = "publish"
        /\ topic' = IF sent THEN topic \cup {<<q.id, change>>} ELSE topic
        /\ worker' = [worker EXCEPT ![w] = IdleWorker]
        /\ UNCHANGED <<tables, locked, dead, client>>

\* _publish: best effort, after the commit.
Publish(w, sent) ==
    LET q == worker[w]
    IN  /\ q.pc = "publish"
        /\ topic' = IF sent THEN topic \cup {<<q.id, q.change>>} ELSE topic
        /\ worker' = [worker EXCEPT ![w] = IdleWorker]
        /\ UNCHANGED <<tables, locked, dead, client>>

\* The consumer dies; its transaction is rolled back, its offset not committed.
Crash(w) ==
    /\ MayCrash
    /\ worker[w].pc # "idle"
    /\ locked' = Release(w)
    /\ worker' = [worker EXCEPT ![w] = IdleWorker]
    /\ UNCHANGED <<tables, topic, dead, client>>

-----------------------------------------------------------------------------
(* POST /incidents/{id}/acknowledge, /resolve and /transition.             *)

\* _transition loads the incident without a lock and validates the move.  404
\* for an unknown incident and 409 for an illegal move change nothing.
LoadIncident(c, i, target) ==
    /\ client[c].pc = "idle"
    /\ row[i] # NoRow
    /\ target \in Allowed(row[i].status)
    /\ client' = [client EXCEPT ![c] = [pc |-> "apply", id |-> i, target |-> target]]
    /\ UNCHANGED <<tables, locked, topic, dead, worker>>

\* Mutant of ApplyTransition: the history row names the status that was loaded
\* as OPEN, not the one the locked row has.
MutantApplyTransitionFromOpen(c) ==
    LET i      == client[c].id
        target == client[c].target
    IN  /\ client[c].pc = "apply"
        /\ locked[i] = None
        /\ target \in ActiveStatuses => ActiveOfKey(Key(row[i])) \ {i} = {}
        /\ row' = [row EXCEPT ![i] = WithStatus(row[i], target)]
        /\ history' = [history EXCEPT ![i] = Append(@, Change("OPEN", target))]
        /\ client' = [client EXCEPT ![c] = IdleClient]
        /\ UNCHANGED <<evidence, links, locked, topic, dead, worker>>

\* apply_transition locks the row and writes; it does not validate again.
ApplyTransition(c) ==
    LET i      == client[c].id
        target == client[c].target
    IN  /\ client[c].pc = "apply"
        /\ locked[i] = None
        /\ target \in ActiveStatuses => ActiveOfKey(Key(row[i])) \ {i} = {}
        /\ row' = [row EXCEPT ![i] = WithStatus(row[i], target)]
        /\ history' = [history EXCEPT ![i] = Append(@, Change(row[i].status, target))]
        /\ client' = [client EXCEPT ![c] = IdleClient]
        /\ UNCHANGED <<evidence, links, locked, topic, dead, worker>>

\* The unique index refuses a status that would make a second active incident:
\* an unhandled IntegrityError, 500, nothing written.
TransitionRefused(c) ==
    LET i == client[c].id
    IN  /\ client[c].pc = "apply"
        /\ locked[i] = None
        /\ client[c].target \in ActiveStatuses
        /\ ActiveOfKey(Key(row[i])) \ {i} # {}
        /\ client' = [client EXCEPT ![c] = IdleClient]
        /\ UNCHANGED <<tables, locked, topic, dead, worker>>

-----------------------------------------------------------------------------
WorkerStep(w) ==
    \/ EvidenceExists(w) \/ LockActive(w) \/ LockGranted(w)
    \/ \E i \in Ids : Commit(w, i)
    \/ LostRace(w) \/ DeadlockDetected(w)
    \/ \E sent \in SendOutcomes : Publish(w, sent)

\* acknowledge and resolve ask for their own status, transition for any.
OperatorRequest(c) ==
    \E i \in Ids, target \in {"ACKNOWLEDGED", "RESOLVED"} \cup IncidentStatuses :
        LoadIncident(c, i, target)

ClientStep(c) == ApplyTransition(c) \/ TransitionRefused(c)

Next ==
    \/ \E w \in Workers : \/ \E e \in Events : Deliver(w, e)
                          \/ WorkerStep(w)
                          \/ Crash(w)
    \/ \E c \in Clients : OperatorRequest(c) \/ ClientStep(c)

Spec == Init /\ [][Next]_vars

\* Consumers and requests that have started are scheduled; the database breaks
\* every deadlock.
Fairness ==
    /\ \A w \in Workers : WF_vars(WorkerStep(w))
    /\ \A c \in Clients : WF_vars(ClientStep(c))

FairSpec == Spec /\ Fairness

-----------------------------------------------------------------------------
(* Types.                                                                  *)

Rows == [service : Services, environment : Environments, status : IncidentStatuses,
         severity : Severities, count : Nat, abnormal : SUBSET STRING, error : Nat,
         latency : Nat, started : Nat, last : Nat]

Changes == [from : IncidentStatuses \cup {None}, to : IncidentStatuses]

WorkerStates ==
    [pc : {"idle", "begin", "lock", "waiting", "commit", "publish"},
     event : Events \cup {None}, attempt : Nat, active : Ids \cup {None},
     copy : Rows \cup {NoRow},
     action : {"CREATE", "APPEND", "SUPERSEDE", None}, want : SUBSET Ids,
     id : Ids \cup {None},
     change : {"opened", "severity-changed", "evidence-added", None}]

ClientStates == [pc : {"idle", "apply"}, id : Ids \cup {None},
                 target : IncidentStatuses \cup {None}]

\* Every variable holds a value of its column or local variable.
TypeOK ==
    /\ row \in [Ids -> Rows \cup {NoRow}]
    /\ evidence \in [Events -> Ids \cup {None}]
    /\ history \in [Ids -> Seq(Changes)]
    /\ links \in SUBSET (Ids \X Ids)
    /\ locked \in [Ids -> Workers \cup {None}]
    /\ topic \in SUBSET (Ids \X {"opened", "severity-changed", "evidence-added"})
    /\ dead \in SUBSET Events
    /\ worker \in [Workers -> WorkerStates]
    /\ client \in [Clients -> ClientStates]

-----------------------------------------------------------------------------
(* Safety.                                                                 *)

\* A service has at most one active incident per environment, whatever
\* consumers race to create, supersede or append and whatever operators do
\* meanwhile (lock_active_incident, uq_incidents_active_key).
OneActivePerKey ==
    \A i, j \in Ids : IsActive(i) /\ IsActive(j) /\ Key(row[i]) = Key(row[j]) => i = j

EvidenceOf(i) == {e \in Events : evidence[e] = i}

IsLargest(x, S) == x \in S /\ \A y \in S : y <= x
IsSmallest(x, S) == x \in S /\ \A y \in S : x <= y

\* The running aggregates of an incident are those of its evidence rows, and
\* its severity is what the rules give for them: no anomaly is counted twice,
\* none is lost, and the order of arrival does not matter, although _absorb
\* works on a copy of the row and events are delivered more than once.
AggregatesMatchEvidence ==
    \A i \in Ids : row[i] # NoRow =>
      LET inc      == row[i]
          mine     == EvidenceOf(i)
          abnormal == UNION {Signal[e].abnormal : e \in mine}
      IN  /\ \A e \in mine : Key(Signal[e]) = Key(inc)
          /\ inc.count = Cardinality(mine)
          /\ inc.abnormal = abnormal
          /\ IsLargest(inc.error, {Signal[e].error : e \in mine})
          /\ IsLargest(inc.latency, {Signal[e].latency : e \in mine})
          /\ IsLargest(inc.last, {Signal[e].end : e \in mine})
          /\ IsSmallest(inc.started, {Signal[e].start : e \in mine})
          /\ inc.severity = EvaluateSeverity(Cardinality(mine), Cardinality(abnormal),
                               inc.error, inc.latency, Larger(inc.last - inc.started, 0))

\* The history of an incident replays to its status: it starts with the
\* opening row, every row starts where its predecessor ended, and the last one
\* ends in the status of the incident (add_transition, apply_transition).
HistoryReplays ==
    \A i \in Ids :
      LET log == history[i]
      IN  /\ log = <<>> <=> row[i] = NoRow
          /\ log # <<>> => /\ log[1] = Change(None, "OPEN")
                           /\ log[Len(log)].to = row[i].status
          /\ \A n \in 2 .. Len(log) : log[n].from = log[n - 1].to

\* A link runs from an incident to one of a service it depends on, in the same
\* environment, and the two really were on fire within the window, although
\* the neighbour was read without a lock (_link_related_incidents).
LinksFollowTopology ==
    \A i, j \in Ids : <<i, j>> \in links =>
      /\ row[i] # NoRow /\ row[j] # NoRow
      /\ row[j].service \in Dependencies(row[i].service)
      /\ row[i].environment = row[j].environment
      /\ Overlap(row[i], row[j])

\* A consumer closes an incident only when it has been quiet: the anomaly that
\* supersedes it came more than Window after its last evidence, also when that
\* evidence was written after the consumer first looked (decide, FOR UPDATE).
ClosedOnlyWhenQuiet ==
    [][\A i \in Ids, e \in Events :
         (IsActive(i) /\ row'[i].status = "RESOLVED" /\ evidence'[e] # evidence[e])
           => Signal[e].at - row[i].last > Window]_vars

\* The RCA agent hears of every incident: as long as no consumer dies and no
\* send fails, an incident whose opening is not on the topic yet is about to be
\* announced by the consumer that created it, whoever has appended to it,
\* acknowledged or closed it in the meantime (_publish).
OpenedAnnounced ==
    ~ MayCrash /\ SendOutcomes = {TRUE} =>
      \A i \in Ids : row[i] # NoRow /\ <<i, "opened">> \notin topic =>
        \E w \in Workers : /\ worker[w].pc = "publish"
                           /\ worker[w].id = i /\ worker[w].change = "opened"

\* RESOLVED is terminal: there is no reopening.  No run checks this: two
\* transitions that were loaded together break it (README, section 5).
NoReopening == [][\A i \in Ids : row[i].status = "RESOLVED" => ~ IsActive(i)']_vars

\* Linking races ride the processor's retry loop: no anomaly is given up.  No
\* run checks this: DeadlockDetected breaks it (README, section 5).
LinkRacesRetried == dead = {}

-----------------------------------------------------------------------------
(* Liveness, under FairSpec.                                               *)

\* Every delivery is handled to its end in spite of row locks, lost races and
\* deadlocks, as long as no consumer dies (process, _process_once).
HandlersFinish == \A w \in Workers : worker[w].pc # "idle" ~> worker[w].pc = "idle"
=============================================================================
