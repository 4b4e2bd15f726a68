------------------------ MODULE IncidentCorrelatorProofs ------------------------
(***************************************************************************)
(* Proofs about the incident correlator, for any number of consumers,      *)
(* operators, incidents and anomalies, any topology and any windows.       *)
(*                                                                         *)
(* OneActivePerKey is not inductive: the unique index refuses a second     *)
(* active row only at a commit, and an append or a supersede writes back a *)
(* copy of a row read earlier.  The invariant IInv adds why that copy is   *)
(* still the row: the consumer has held its lock since the read.           *)
(*                                                                         *)
(* The other invariants are inductive relative to IInv, each with what it  *)
(* needs: the announcements with nothing, the histories with nothing, the  *)
(* aggregates with EvidenceSound, the links with WantsSound, which says    *)
(* that what a consumer decided to link is still related when it commits.  *)
(***************************************************************************)
EXTENDS IncidentCorrelator, FiniteSetTheorems, TLAPS

\* The program counters of a consumer and the events it may announce.
PCs == {"idle", "begin", "lock", "waiting", "commit", "publish"}

Announcements == {"opened", "severity-changed", "evidence-added"}

\* What a consumer knows at its program counter.
Sound(w, q) ==
    /\ q \in WorkerStates
    /\ q.pc # "idle" => q.event \in Events
    /\ q.pc = "waiting" =>
         /\ q.active \in Ids
         /\ row[q.active] # NoRow
         /\ Key(row[q.active]) = Key(Signal[q.event])
    /\ q.pc = "commit" /\ q.active = None => q.action = "CREATE"
    /\ q.pc = "commit" /\ q.active # None =>
         /\ q.active \in Ids
         /\ q.action \in {"APPEND", "SUPERSEDE"}
         /\ locked[q.active] = w
         /\ q.copy = row[q.active]
         /\ IsActive(q.active)
         /\ Key(q.copy) = Key(Signal[q.event])
         /\ q.action = "SUPERSEDE" => Signal[q.event].at - q.copy.last > Window
    /\ q.pc = "publish" => q.id \in Ids /\ q.change \in Announcements

\* A request that has loaded an incident has a target for it.
Loaded(q) ==
    q.pc = "apply" => /\ q.id \in Ids
                      /\ row[q.id] # NoRow
                      /\ q.target \in IncidentStatuses

\* The two for all consumers and all requests, and the whole invariant.
WorkersSound  == \A w \in Workers : Sound(w, worker[w])
ClientsLoaded == \A c \in Clients : Loaded(client[c])

IInv == TypeOK /\ WorkersSound /\ ClientsLoaded /\ OneActivePerKey

\* The local variables of _process_once are well typed at every step.
LEMMA WorkingTyped ==
  ASSUME NEW pc \in PCs, NEW event \in Events \cup {None}, NEW attempt \in Nat
  PROVE  /\ Working(pc, event, attempt) \in WorkerStates
         /\ Working(pc, event, attempt).pc = pc
         /\ Working(pc, event, attempt).event = event
         /\ Working(pc, event, attempt).active = None
  BY DEF Working, WorkerStates, PCs

\* So are those of a consumer blocked on a row lock.
LEMMA WaitingTyped ==
  ASSUME NEW event \in Events \cup {None}, NEW attempt \in Nat, NEW i \in Ids
  PROVE  /\ Waiting(event, attempt, i) \in WorkerStates
         /\ Waiting(event, attempt, i).pc = "waiting"
         /\ Waiting(event, attempt, i).event = event
         /\ Waiting(event, attempt, i).active = i
  BY DEF Waiting, Working, WorkerStates, PCs

\* evaluate_severity returns one of the severities whatever it is given:
\* the rules that fire, with the default, have a greatest member.
LEMMA SeverityTyped ==
  ASSUME NEW count, NEW distinct, NEW error, NEW latency, NEW duration
  PROVE  EvaluateSeverity(count, distinct, error, latency, duration) \in Severities
<1>. DEFINE fired == {0} \cup {level \in 1 .. 4 :
                     SeverityRule(level, count, distinct, error, latency, duration)}
<1>1. fired \subseteq 0 .. 4 /\ 0 \in fired
  OBVIOUS
<1>2. \E level \in fired : \A other \in fired : other <= level
  <2>. HIDE DEF fired
  <2>1. CASE 4 \in fired
    BY <1>1, <2>1
  <2>2. CASE 4 \notin fired /\ 3 \in fired
    BY <1>1, <2>2
  <2>3. CASE 4 \notin fired /\ 3 \notin fired /\ 2 \in fired
    BY <1>1, <2>3
  <2>4. CASE 4 \notin fired /\ 3 \notin fired /\ 2 \notin fired
    BY <1>1, <2>4
  <2>. QED
    BY <2>1, <2>2, <2>3, <2>4
<1>3. EvaluateSeverity(count, distinct, error, latency, duration)
        = CHOOSE level \in fired : \A other \in fired : other <= level
  BY DEF EvaluateSeverity
<1>4. (CHOOSE level \in fired : \A other \in fired : other <= level) \in fired
  <2>. HIDE DEF fired
  <2>. QED
    BY <1>2
<1>. QED
  BY <1>1, <1>3, <1>4 DEF Severities

\* Absorbing an anomaly keeps a row's type, key and status.
LEMMA AbsorbTyped ==
  ASSUME NEW inc \in Rows, NEW signal \in Signals
  PROVE  /\ Absorb(inc, signal) \in Rows
         /\ Key(Absorb(inc, signal)) = Key(inc)
         /\ Absorb(inc, signal).status = inc.status
<1>1. \A a, b, c, d, e : EvaluateSeverity(a, b, c, d, e) \in Severities
  BY SeverityTyped
<1>. QED
  BY <1>1 DEF Absorb, Rows, Signals, Key, Larger, Smaller

\* A new incident is OPEN and has the key of its anomaly.
LEMMA BlankTyped ==
  ASSUME NEW signal \in Signals
  PROVE  Blank(signal) \in Rows /\ Key(Blank(signal)) = Key(signal)
  BY DEF Blank, Rows, Signals, Key, IncidentStatuses, ActiveStatuses, Severities

\* A change of status keeps a row's type and key.
LEMMA WithStatusTyped ==
  ASSUME NEW inc \in Rows, NEW s \in IncidentStatuses
  PROVE  /\ WithStatus(inc, s) \in Rows
         /\ Key(WithStatus(inc, s)) = Key(inc)
         /\ WithStatus(inc, s).status = s
  BY DEF WithStatus, Rows, Key

\* The placeholder is not a row.
LEMMA NoRowFacts == NoRow \notin Rows /\ NoRow.status \notin IncidentStatuses
  BY DEF NoRow, Rows, IncidentStatuses, ActiveStatuses

-----------------------------------------------------------------------------
(* The initial state.                                                      *)

\* A consumer that has not fetched an event relies on nothing.
LEMMA IdleSound ==
  ASSUME NEW w \in Workers
  PROVE  Sound(w, IdleWorker)
<1>1. /\ IdleWorker \in WorkerStates
      /\ IdleWorker.pc = "idle"
  BY WorkingTyped DEF IdleWorker, PCs
<1>. QED
  BY <1>1 DEF Sound

\* A transition request that has not arrived relies on nothing.
LEMMA IdleClientLoaded == IdleClient \in ClientStates /\ Loaded(IdleClient)
  BY DEF IdleClient, ClientStates, Loaded

\* The invariant holds when the service starts on an empty database.
LEMMA InitIInv == Init => IInv
<1>. SUFFICES ASSUME Init PROVE IInv
  OBVIOUS
<1>1. WorkersSound
  BY IdleSound DEF Init, WorkersSound
<1>2. ClientsLoaded
  BY IdleClientLoaded DEF Init, ClientsLoaded
<1>3. TypeOK
  BY IdleSound, IdleClientLoaded DEF Init, TypeOK, Sound
<1>4. OneActivePerKey
  BY NoRowFacts DEF Init, OneActivePerKey, IsActive, IncidentStatuses
<1>. QED
  BY <1>1, <1>2, <1>3, <1>4 DEF IInv

-----------------------------------------------------------------------------
(* Steps of a consumer that leave the tables alone.                        *)

\* A consumer may go to any state it can vouch for, take rows that are free
\* and release its own.
LEMMA WorkerMove ==
  ASSUME IInv, NEW w \in Workers, NEW X,
         UNCHANGED <<tables, client>>,
         worker' = [worker EXCEPT ![w] = X],
         locked' \in [Ids -> Workers \cup {None}],
         \A i \in Ids : locked[i] \notin {None, w} => locked'[i] = locked[i],
         topic' \in SUBSET (Ids \X Announcements),
         dead' \in SUBSET Events,
         Sound(w, X)'
  PROVE  IInv'
<1>1. X \in WorkerStates
  BY DEF Sound
<1>2. TypeOK'
  BY <1>1 DEF IInv, TypeOK, tables, Announcements
<1>3. WorkersSound'
  <2>. SUFFICES ASSUME NEW v \in Workers PROVE Sound(v, worker[v])'
    BY DEF WorkersSound
  <2>1. CASE v = w
    BY <2>1 DEF IInv, TypeOK
  <2>2. CASE v # w
    <3>1. worker'[v] = worker[v] /\ Sound(v, worker[v]) /\ row' = row
      BY <2>2 DEF IInv, TypeOK, WorkersSound, tables
    <3>2. v # None
      BY CorrelatorAssumption
    <3>. QED
      BY <2>2, <3>1, <3>2 DEF Sound, IsActive
  <2>. QED
    BY <2>1, <2>2
<1>4. ClientsLoaded' /\ OneActivePerKey'
  BY DEF IInv, ClientsLoaded, Loaded, OneActivePerKey, IsActive, tables
<1>. QED
  BY <1>2, <1>3, <1>4 DEF IInv

\* A rollback or commit takes nothing from the others.
LEMMA ReleaseFacts ==
  ASSUME IInv, NEW w \in Workers, locked' = Release(w)
  PROVE  /\ locked' \in [Ids -> Workers \cup {None}]
         /\ \A i \in Ids : locked[i] \notin {None, w} => locked'[i] = locked[i]
  BY DEF IInv, TypeOK, Release

\* FOR UPDATE on a free row takes nothing from the others.
LEMMA LockedByFacts ==
  ASSUME IInv, NEW w \in Workers, NEW i \in Ids, locked[i] = None,
         locked' = LockedBy(i, w)
  PROVE  /\ locked' \in [Ids -> Workers \cup {None}]
         /\ locked'[i] = w
         /\ \A j \in Ids : locked[j] \notin {None, w} => locked'[j] = locked[j]
  BY DEF IInv, TypeOK, LockedBy

\* A step that leaves the locks alone takes nothing from the others.
LEMMA KeepFacts ==
  ASSUME IInv, NEW w \in Workers, UNCHANGED locked
  PROVE  /\ locked' \in [Ids -> Workers \cup {None}]
         /\ \A i \in Ids : locked[i] \notin {None, w} => locked'[i] = locked[i]
  BY DEF IInv, TypeOK

\* The unit of work as decided on is one the consumer can vouch for.
LEMMA DecidedSound ==
  ASSUME IInv, NEW w \in Workers, NEW i \in Ids \cup {None}, NEW X,
         X = Decided(w, i),
         worker[w].pc \in {"lock", "waiting"},
         i # None => /\ IsActive(i)
                     /\ Key(row[i]) = Key(SignalOf(w))
                     /\ locked'[i] = w,
         UNCHANGED row
  PROVE  Sound(w, X)'
<1>. DEFINE q == worker[w]
            action == IF i = None THEN "CREATE" ELSE Correlate(SignalOf(w), row[i])
<1>1. q \in WorkerStates /\ q.event \in Events /\ q.attempt \in Nat
  BY DEF IInv, WorkersSound, Sound, WorkerStates
<1>2. /\ action \in {"CREATE", "APPEND", "SUPERSEDE"}
      /\ i = None => action = "CREATE"
      /\ i # None => action \in {"APPEND", "SUPERSEDE"}
  BY DEF Correlate
<1>3. PICK want, copy : want \in SUBSET Ids /\ copy = (IF i = None THEN NoRow ELSE row[i])
        /\ X = [Working("commit", q.event, q.attempt) EXCEPT
                  !.active = i, !.copy = copy, !.action = action, !.want = want]
  BY DEF Decided, Neighbours, ActiveIncidentsInServices
<1>4. copy \in Rows \cup {NoRow}
  BY <1>3 DEF IInv, TypeOK
<1>5. /\ X \in WorkerStates
      /\ X.pc = "commit" /\ X.event = q.event /\ X.active = i
      /\ X.copy = copy /\ X.action = action
  <2>. HIDE DEF action
  <2>. QED
    BY <1>1, <1>2, <1>3, <1>4 DEF Working, WorkerStates
<1>6. i # None => i \in Ids
  OBVIOUS
<1>7. i # None /\ action = "SUPERSEDE" => Signal[q.event].at - copy.last > Window
  <2>1. SignalOf(w) = Signal[q.event] /\ SignalOf(w).at \in Nat
    BY <1>1, CorrelatorAssumption DEF SignalOf, Signals
  <2>2. i # None => row[i] \in Rows /\ row[i].last \in Nat
    BY <1>6, NoRowFacts DEF IInv, TypeOK, IsActive, IncidentStatuses, Rows
  <2>. QED
    BY <1>3, <2>1, <2>2, RulesAssumption DEF Correlate
<1>. HIDE DEF action
<1>. QED
  BY <1>1, <1>2, <1>3, <1>5, <1>6, <1>7 DEF Sound, IsActive, SignalOf

\* Before the locked read a consumer relies on nothing.
LEMMA WorkingSound ==
  ASSUME NEW w \in Workers, NEW pc \in {"begin", "lock"}, NEW e \in Events,
         NEW attempt \in Nat, NEW X, X = Working(pc, e, attempt)
  PROVE  Sound(w, X)'
<1>1. X \in WorkerStates /\ X.pc = pc /\ X.event = e
  BY WorkingTyped DEF PCs
<1>. QED
  BY <1>1 DEF Sound

\* A finished consumer relies on nothing.
LEMMA IdleSoundNext ==
  ASSUME NEW w \in Workers, NEW X, X = IdleWorker
  PROVE  Sound(w, X)'
<1>1. X \in WorkerStates /\ X.pc = "idle"
  BY WorkingTyped DEF IdleWorker, PCs
<1>. QED
  BY <1>1 DEF Sound

\* A consumer at work has an event and a number of attempts.
LEMMA AtWork ==
  ASSUME IInv, NEW w \in Workers, worker[w].pc # "idle"
  PROVE  /\ worker[w].event \in Events
         /\ worker[w].attempt \in Nat
         /\ SignalOf(w) \in Signals
  BY CorrelatorAssumption DEF IInv, WorkersSound, Sound, WorkerStates, SignalOf

\* The topics hold announcements of incidents and rejected events.
LEMMA TopicTyped ==
  ASSUME IInv
  PROVE  /\ topic \in SUBSET (Ids \X Announcements)
         /\ dead \in SUBSET Events
  BY DEF IInv, TypeOK, Announcements

\* _handle: an event reaches the processor.
LEMMA DeliverStep ==
  ASSUME IInv, NEW w \in Workers, NEW e \in Events, Deliver(w, e)
  PROVE  IInv'
<1>1. PICK X : X = Working("begin", e, 1)
  OBVIOUS
<1>2. Sound(w, X)'
  BY <1>1, WorkingSound
<1>. QED
  BY <1>1, <1>2, WorkerMove, KeepFacts, TopicTyped DEF Deliver

\* evidence_exists: a redelivered event ends here.
LEMMA EvidenceExistsStep ==
  ASSUME IInv, NEW w \in Workers, EvidenceExists(w)
  PROVE  IInv'
<1>. DEFINE q == worker[w]
<1>1. q.event \in Events /\ q.attempt \in Nat
  BY AtWork DEF EvidenceExists
<1>2. PICK X : X = IF evidence[q.event] # None THEN IdleWorker
                                         ELSE Working("lock", q.event, q.attempt)
  OBVIOUS
<1>3. Sound(w, X)'
  BY <1>1, <1>2, WorkingSound, IdleSoundNext
<1>4. worker' = [worker EXCEPT ![w] = X]
  BY <1>2 DEF EvidenceExists
<1>. QED
  BY <1>3, <1>4, WorkerMove, KeepFacts, TopicTyped DEF EvidenceExists

\* The locked read and what follows from it, whether or not it found a row.
LEMMA DecideStep ==
  ASSUME IInv, NEW w \in Workers, worker[w].pc \in {"lock", "waiting"},
         UNCHANGED <<tables, topic, dead, client>>,
         \/ /\ worker' = [worker EXCEPT ![w] = Decided(w, None)]
            /\ UNCHANGED locked
         \/ \E i \in Ids : /\ locked[i] = None
                           /\ IsActive(i)
                           /\ Key(row[i]) = Key(SignalOf(w))
                           /\ locked' = LockedBy(i, w)
                           /\ worker' = [worker EXCEPT ![w] = Decided(w, i)]
  PROVE  IInv'
<1>0. UNCHANGED row
  BY DEF tables
<1>1. CASE worker' = [worker EXCEPT ![w] = Decided(w, None)] /\ UNCHANGED locked
  <2>1. PICK X : X = Decided(w, None)
    OBVIOUS
  <2>2. Sound(w, X)'
    BY <1>0, <2>1, DecidedSound
  <2>. QED
    BY <1>1, <2>1, <2>2, WorkerMove, KeepFacts, TopicTyped
<1>2. ASSUME NEW i \in Ids, locked[i] = None, IsActive(i),
             Key(row[i]) = Key(SignalOf(w)), locked' = LockedBy(i, w),
             worker' = [worker EXCEPT ![w] = Decided(w, i)]
      PROVE  IInv'
  <2>1. PICK X : X = Decided(w, i)
    OBVIOUS
  <2>2. Sound(w, X)'
    BY <1>0, <1>2, <2>1, DecidedSound, LockedByFacts
  <2>. QED
    BY <1>2, <2>1, <2>2, WorkerMove, LockedByFacts, TopicTyped
<1>. QED
  BY <1>1, <1>2

\* get_active_incident with FOR UPDATE: nothing found, locked, or waiting.
LEMMA LockActiveStep ==
  ASSUME IInv, NEW w \in Workers, LockActive(w)
  PROVE  IInv'
<1>. DEFINE q == worker[w]
            mine == ActiveOfKey(Key(SignalOf(w)))
<1>0. q.pc = "lock" /\ UNCHANGED <<tables, topic, dead, client>>
  BY DEF LockActive
<1>1. q.event \in Events /\ q.attempt \in Nat
  BY <1>0, AtWork
<1>2. \A i \in mine : i \in Ids /\ IsActive(i) /\ Key(row[i]) = Key(SignalOf(w))
  BY DEF ActiveOfKey
<1>3. CASE worker' = [worker EXCEPT ![w] = Decided(w, None)] /\ UNCHANGED locked
  BY <1>0, <1>3, DecideStep
<1>4. CASE \E i \in mine : /\ locked[i] = None
                           /\ locked' = LockedBy(i, w)
                           /\ worker' = [worker EXCEPT ![w] = Decided(w, i)]
  BY <1>0, <1>2, <1>4, DecideStep
<1>5. ASSUME NEW i \in mine, UNCHANGED locked,
             worker' = [worker EXCEPT ![w] = Waiting(q.event, q.attempt, i)]
      PROVE  IInv'
  <2>1. PICK X : X = Waiting(q.event, q.attempt, i)
    OBVIOUS
  <2>2. row[i] # NoRow
    BY <1>2, NoRowFacts DEF IsActive, IncidentStatuses
  <2>3. Sound(w, X)'
    BY <1>0, <1>1, <1>2, <1>5, <2>1, <2>2, WaitingTyped DEF Sound, SignalOf, tables
  <2>. QED
    BY <1>0, <1>5, <2>1, <2>3, WorkerMove, KeepFacts, TopicTyped
<1>. QED
  BY <1>3, <1>4, <1>5 DEF LockActive

\* The awaited lock is free: the condition is evaluated again on that row.
LEMMA LockGrantedStep ==
  ASSUME IInv, NEW w \in Workers, LockGranted(w)
  PROVE  IInv'
<1>. DEFINE i == worker[w].active
<1>1. i \in Ids /\ Key(row[i]) = Key(SignalOf(w))
  BY DEF LockGranted, IInv, WorkersSound, Sound, SignalOf
<1>. QED
  BY <1>1, DecideStep DEF LockGranted

\* A unique index refuses the unit of work: rollback, then retry or give up.
LEMMA LostRaceStep ==
  ASSUME IInv, NEW w \in Workers, LostRace(w)
  PROVE  IInv'
<1>. DEFINE q == worker[w]
<1>1. q.event \in Events /\ q.attempt + 1 \in Nat
  BY AtWork DEF LostRace
<1>2. PICK X : X = IF q.attempt < MaxAttempts
                     THEN Working("begin", q.event, q.attempt + 1) ELSE IdleWorker
  OBVIOUS
<1>3. Sound(w, X)'
  BY <1>1, <1>2, WorkingSound, IdleSoundNext
<1>4. worker' = [worker EXCEPT ![w] = X]
  BY <1>2 DEF LostRace
<1>. QED
  BY <1>3, <1>4, WorkerMove, ReleaseFacts, TopicTyped DEF LostRace

\* A broken deadlock or a dying process gives up the unit of work.
LEMMA GiveUpStep ==
  ASSUME IInv, NEW w \in Workers, DeadlockDetected(w) \/ Crash(w)
  PROVE  IInv'
<1>1. PICK X : X = IdleWorker
  OBVIOUS
<1>2. Sound(w, X)'
  BY <1>1, IdleSoundNext
<1>3. dead' \in SUBSET Events /\ topic' = topic
  BY AtWork, TopicTyped DEF DeadlockDetected, Crash
<1>. QED
  BY <1>1, <1>2, <1>3, WorkerMove, ReleaseFacts, TopicTyped DEF DeadlockDetected, Crash

\* The announcement after the commit, sent or lost.
LEMMA PublishStep ==
  ASSUME IInv, NEW w \in Workers, NEW sent \in SendOutcomes, Publish(w, sent)
  PROVE  IInv'
<1>1. PICK X : X = IdleWorker
  OBVIOUS
<1>2. Sound(w, X)'
  BY <1>1, IdleSoundNext
<1>3. topic' \in SUBSET (Ids \X Announcements) /\ UNCHANGED dead
  BY TopicTyped DEF Publish, IInv, WorkersSound, Sound, Announcements
<1>. QED
  BY <1>1, <1>2, <1>3, WorkerMove, KeepFacts, TopicTyped DEF Publish

-----------------------------------------------------------------------------
(* API requests.                                                           *)

\* A request may go to any state it can vouch for.
LEMMA ClientMove ==
  ASSUME IInv, NEW c \in Clients, NEW X,
         UNCHANGED <<tables, locked, topic, dead, worker>>,
         client' = [client EXCEPT ![c] = X],
         X \in ClientStates, Loaded(X)'
  PROVE  IInv'
<1>1. TypeOK'
  BY DEF IInv, TypeOK, tables
<1>2. WorkersSound' /\ OneActivePerKey'
  BY DEF IInv, WorkersSound, Sound, OneActivePerKey, IsActive, tables
<1>3. ClientsLoaded'
  BY DEF IInv, TypeOK, ClientsLoaded, Loaded, tables
<1>. QED
  BY <1>1, <1>2, <1>3 DEF IInv

\* _transition: the unlocked read of the incident.
LEMMA LoadIncidentStep ==
  ASSUME IInv, NEW c \in Clients, NEW i \in Ids, NEW target \in IncidentStatuses,
         LoadIncident(c, i, target)
  PROVE  IInv'
<1>1. PICK X : X = [pc |-> "apply", id |-> i, target |-> target]
  OBVIOUS
<1>2. X \in ClientStates /\ Loaded(X)'
  BY <1>1 DEF ClientStates, Loaded, LoadIncident, tables
<1>. QED
  BY <1>1, <1>2, ClientMove DEF LoadIncident

\* The unique index refuses the status: nothing is written.
LEMMA TransitionRefusedStep ==
  ASSUME IInv, NEW c \in Clients, TransitionRefused(c)
  PROVE  IInv'
<1>1. PICK X : X = IdleClient
  OBVIOUS
<1>2. X \in ClientStates /\ Loaded(X)'
  BY <1>1 DEF IdleClient, ClientStates, Loaded
<1>. QED
  BY <1>1, <1>2, ClientMove DEF TransitionRefused

\* Rows keep existing under their key, and a row that is locked keeps its
\* contents: then everybody else's knowledge survives a write.
LEMMA OthersSound ==
  ASSUME IInv, NEW v \in Workers,
         \A j \in Ids : row[j] # NoRow =>
                          row'[j] # NoRow /\ Key(row'[j]) = Key(row[j]),
         \A j \in Ids : locked[j] = v /\ row[j] # NoRow =>
                          locked'[j] = v /\ row'[j] = row[j],
         worker'[v] = worker[v]
  PROVE  Sound(v, worker[v])'
<1>1. Sound(v, worker[v])
  BY DEF IInv, WorkersSound
<1>. QED
  BY <1>1, NoRowFacts DEF Sound, IsActive, IncidentStatuses

\* apply_transition: the status moves, and an incident that is not active
\* does not become active beside another one of its key.
LEMMA ApplyTransitionStep ==
  ASSUME IInv, NEW c \in Clients, ApplyTransition(c)
  PROVE  IInv'
<1>0. PICK i, target : i = client[c].id /\ target = client[c].target
  OBVIOUS
<1>1. /\ i \in Ids /\ row[i] \in Rows /\ target \in IncidentStatuses
      /\ locked[i] = None
  BY <1>0 DEF ApplyTransition, IInv, TypeOK, ClientsLoaded, Loaded
<1>2. PICK new : new = WithStatus(row[i], target)
  OBVIOUS
<1>3. new \in Rows /\ Key(new) = Key(row[i]) /\ new.status = target
  BY <1>1, <1>2, WithStatusTyped
<1>4. /\ row' = [row EXCEPT ![i] = new]
      /\ history' = [history EXCEPT ![i] = Append(history[i], Change(row[i].status, target))]
      /\ client' = [client EXCEPT ![c] = IdleClient]
      /\ UNCHANGED <<evidence, links, locked, topic, dead, worker>>
  BY <1>0, <1>1, <1>2 DEF ApplyTransition, IInv, TypeOK
<1>5. /\ row'[i] = new
      /\ \A j \in Ids \ {i} : row'[j] = row[j]
  BY <1>1, <1>4 DEF IInv, TypeOK
<1>6. TypeOK'
  <2>1. Change(row[i].status, target) \in Changes
    BY <1>1 DEF Change, Changes, Rows
  <2>2. history' \in [Ids -> Seq(Changes)]
    BY <1>1, <1>4, <2>1 DEF IInv, TypeOK
  <2>. QED
    BY <1>1, <1>3, <1>4, <2>2, IdleClientLoaded DEF IInv, TypeOK
<1>7. WorkersSound'
  <2>. SUFFICES ASSUME NEW v \in Workers PROVE Sound(v, worker[v])'
    BY DEF WorkersSound
  <2>1. v # None
    BY CorrelatorAssumption
  <2>2. /\ \A j \in Ids : row[j] # NoRow =>
                            row'[j] # NoRow /\ Key(row'[j]) = Key(row[j])
        /\ \A j \in Ids : locked[j] = v => locked'[j] = v /\ row'[j] = row[j]
    BY <1>1, <1>3, <1>4, <1>5, <2>1, NoRowFacts
  <2>. QED
    BY <1>4, <2>2, OthersSound
<1>8. ClientsLoaded'
  BY <1>1, <1>3, <1>4, <1>5, NoRowFacts, IdleClientLoaded
  DEF IInv, TypeOK, ClientsLoaded, Loaded, IdleClient
<1>9. OneActivePerKey'
  <2>1. target \in ActiveStatuses => ActiveOfKey(Key(row[i])) \ {i} = {}
    BY <1>0 DEF ApplyTransition
  <2>2. \A j \in Ids \ {i} : IsActive(j)' => IsActive(j) /\ Key(row'[j]) = Key(row[j])
    BY <1>5 DEF IsActive
  <2>3. IsActive(i)' => \A j \in Ids \ {i} : IsActive(j) => Key(row[j]) # Key(row[i])
    BY <1>1, <1>3, <1>5, <2>1 DEF IsActive, ActiveOfKey
  <2>4. Key(row'[i]) = Key(row[i])
    BY <1>3, <1>5
  <2>5. ASSUME NEW a \in Ids, NEW b \in Ids, IsActive(a)', IsActive(b)',
               Key(row'[a]) = Key(row'[b])
        PROVE  a = b
    <3>1. CASE a = i \/ b = i
      BY <2>2, <2>3, <2>4, <2>5, <3>1
    <3>2. CASE a # i /\ b # i
      BY <2>2, <2>5, <3>2 DEF IInv, OneActivePerKey
    <3>. QED
      BY <3>1, <3>2
  <2>. QED
    BY <2>5 DEF OneActivePerKey
<1>. QED
  BY <1>6, <1>7, <1>8, <1>9 DEF IInv

-----------------------------------------------------------------------------
(* The commit of a unit of work.                                           *)

\* The commit of create, append or supersede.
LEMMA CommitStep ==
  ASSUME IInv, NEW w \in Workers, NEW i \in Ids, Commit(w, i)
  PROVE  IInv'
<1>0. PICK q, signal, inc :
        /\ q = worker[w]
        /\ signal = SignalOf(w)
        /\ inc = Absorb(IF q.action = "APPEND" THEN q.copy ELSE Blank(signal), signal)
  OBVIOUS
<1>1. /\ q \in WorkerStates /\ q.pc = "commit" /\ q.event \in Events
      /\ q.attempt \in Nat /\ signal = Signal[q.event] /\ signal \in Signals
      /\ Sound(w, q) /\ q.want \in SUBSET Ids
  BY <1>0, AtWork DEF Commit, IInv, WorkersSound, Sound, SignalOf, WorkerStates
<1>2. q.action # "CREATE" =>
        /\ q.active \in Ids /\ q.action \in {"APPEND", "SUPERSEDE"}
        /\ locked[q.active] = w /\ q.copy = row[q.active] /\ q.copy \in Rows
        /\ q.copy.status \in ActiveStatuses /\ Key(q.copy) = Key(signal)
  BY <1>1, NoRowFacts DEF Sound, IsActive, IInv, TypeOK, IncidentStatuses
<1>3. IF q.action = "APPEND" THEN i = q.active ELSE row[i] = NoRow
  BY <1>0 DEF Commit
<1>4. /\ inc \in Rows
      /\ Key(inc) = Key(signal)
      /\ q.action = "APPEND" => inc.status = row[i].status
  BY <1>0, <1>1, <1>2, <1>3, AbsorbTyped, BlankTyped
<1>5. /\ row' = [j \in Ids |->
                   IF j = i THEN inc
                   ELSE IF q.action = "SUPERSEDE" /\ j = q.active
                          THEN WithStatus(q.copy, "RESOLVED")
                   ELSE row[j]]
      /\ history' = [j \in Ids |->
                       IF j = i /\ q.action # "APPEND"
                         THEN Append(history[j], Change(None, "OPEN"))
                       ELSE IF q.action = "SUPERSEDE" /\ j = q.active
                         THEN Append(history[j], Change(q.copy.status, "RESOLVED"))
                       ELSE history[j]]
      /\ evidence' = [evidence EXCEPT ![q.event] = i]
      /\ links' = links \cup {Edge(inc, i, j) : j \in q.want}
      /\ locked' = Release(w)
      /\ UNCHANGED <<topic, dead, client>>
  BY <1>0 DEF Commit
<1>6. PICK X : /\ worker' = [worker EXCEPT ![w] = X]
               /\ X \in WorkerStates /\ X.pc = "publish" /\ X.event = q.event
               /\ X.id = i /\ X.change \in Announcements
  <2>1. PICK change : change = IF q.action # "APPEND" THEN "opened"
                               ELSE IF inc.severity # q.copy.severity
                                 THEN "severity-changed" ELSE "evidence-added"
    OBVIOUS
  <2>2. change \in Announcements
    BY <2>1 DEF Announcements
  <2>3. PICK X : X = [Working("publish", q.event, q.attempt) EXCEPT
                        !.id = i, !.change = change]
    OBVIOUS
  <2>4. /\ X \in WorkerStates /\ X.pc = "publish" /\ X.event = q.event
        /\ X.id = i /\ X.change = change
    BY <1>1, <2>2, <2>3 DEF Working, WorkerStates, Announcements
  <2>5. worker' = [worker EXCEPT ![w] = X]
    BY <1>0, <2>1, <2>3 DEF Commit
  <2>. QED
    BY <2>2, <2>4, <2>5
<1>7. PICK closed : closed = WithStatus(q.copy, "RESOLVED")
  OBVIOUS
<1>8. q.action = "SUPERSEDE" =>
        closed \in Rows /\ Key(closed) = Key(q.copy) /\ closed.status = "RESOLVED"
  BY <1>2, <1>7, WithStatusTyped DEF IncidentStatuses
<1>9. /\ row'[i] = inc
      /\ \A j \in Ids \ {i} : \/ row'[j] = row[j]
                              \/ /\ q.action = "SUPERSEDE" /\ j = q.active
                                 /\ row'[j] = closed
      /\ q.action = "SUPERSEDE" => q.active # i /\ row'[q.active] = closed
  BY <1>2, <1>3, <1>5, <1>7, NoRowFacts
<1>10. TypeOK'
  <2>1. row' \in [Ids -> Rows \cup {NoRow}]
    BY <1>4, <1>5, <1>7, <1>8 DEF IInv, TypeOK
  <2>2. /\ Change(None, "OPEN") \in Changes
        /\ q.action = "SUPERSEDE" => Change(q.copy.status, "RESOLVED") \in Changes
    BY <1>2 DEF Change, Changes, Rows, IncidentStatuses, ActiveStatuses
  <2>3. history' \in [Ids -> Seq(Changes)]
    BY <1>5, <2>2 DEF IInv, TypeOK
  <2>4. evidence' \in [Events -> Ids \cup {None}]
    BY <1>5 DEF IInv, TypeOK
  <2>5. links' \in SUBSET (Ids \X Ids)
    BY <1>1, <1>5 DEF IInv, TypeOK, Edge
  <2>6. locked' \in [Ids -> Workers \cup {None}]
    BY <1>5, ReleaseFacts
  <2>7. worker' \in [Workers -> WorkerStates]
    BY <1>6 DEF IInv, TypeOK
  <2>. QED
    BY <1>5, <2>1, <2>3, <2>4, <2>5, <2>6, <2>7 DEF IInv, TypeOK
<1>11. \A j \in Ids : row[j] # NoRow =>
                        row'[j] # NoRow /\ Key(row'[j]) = Key(row[j])
  BY <1>2, <1>3, <1>4, <1>8, <1>9, NoRowFacts
<1>12. WorkersSound'
  <2>. SUFFICES ASSUME NEW v \in Workers PROVE Sound(v, worker[v])'
    BY DEF WorkersSound
  <2>1. CASE v = w
    <3>1. worker'[w] = X
      BY <1>6 DEF IInv, TypeOK
    <3>. QED
      BY <1>1, <1>6, <2>1, <3>1 DEF Sound
  <2>2. CASE v # w
    <3>1. worker'[v] = worker[v] /\ v # None
      BY <1>6, <2>2, CorrelatorAssumption DEF IInv, TypeOK
    <3>2. \A j \in Ids : locked[j] = v => locked'[j] = v
      BY <1>5, <2>2, <3>1, ReleaseFacts
    <3>3. \A j \in Ids : locked[j] = v /\ row[j] # NoRow => row'[j] = row[j]
      <4>. SUFFICES ASSUME NEW j \in Ids, locked[j] = v, row[j] # NoRow
                    PROVE  row'[j] = row[j]
        OBVIOUS
      <4>1. CASE j # i
        BY <1>2, <1>9, <2>2, <4>1
      <4>2. CASE j = i
        BY <1>2, <1>3, <2>2, <4>2
      <4>. QED
        BY <4>1, <4>2
    <3>. QED
      BY <1>11, <3>1, <3>2, <3>3, OthersSound
  <2>. QED
    BY <2>1, <2>2
<1>13. ClientsLoaded'
  BY <1>5, <1>11 DEF IInv, ClientsLoaded, Loaded
<1>14. OneActivePerKey'
  <2>1. \A j \in Ids \ {i} : IsActive(j)' => IsActive(j) /\ row'[j] = row[j]
    BY <1>8, <1>9 DEF IsActive, ActiveStatuses
  <2>2. \A j \in Ids \ {i} : IsActive(j)' /\ Key(row[j]) = Key(signal) => ~ IsActive(i)'
    <3>. SUFFICES ASSUME NEW j \in Ids \ {i}, IsActive(j)', IsActive(i)',
                         Key(row[j]) = Key(signal)
                  PROVE  FALSE
      OBVIOUS
    <3>1. IsActive(j)
      BY <2>1
    <3>2. CASE q.action = "APPEND"
      <4>1. IsActive(i) /\ Key(row[i]) = Key(signal)
        BY <1>2, <1>3, <3>2 DEF IsActive
      <4>. QED
        BY <3>1, <4>1 DEF IInv, OneActivePerKey
    <3>3. CASE q.action # "APPEND"
      <4>1. j = q.active
        BY <1>0, <3>1, <3>3 DEF Commit, Duplicate, ActiveOfKey
      <4>2. q.action = "SUPERSEDE"
        BY <1>1, <1>2, <3>3, <4>1, CorrelatorAssumption DEF Sound
      <4>. QED
        BY <1>8, <1>9, <4>1, <4>2 DEF IsActive, ActiveStatuses
    <3>. QED
      BY <3>2, <3>3
  <2>3. ASSUME NEW a \in Ids, NEW b \in Ids, IsActive(a)', IsActive(b)',
               Key(row'[a]) = Key(row'[b])
        PROVE  a = b
    <3>1. CASE a = i \/ b = i
      BY <1>4, <1>9, <2>1, <2>2, <2>3, <3>1
    <3>2. CASE a # i /\ b # i
      BY <2>1, <2>3, <3>2 DEF IInv, OneActivePerKey
    <3>. QED
      BY <3>1, <3>2
  <2>. QED
    BY <2>3 DEF OneActivePerKey
<1>. QED
  BY <1>10, <1>12, <1>13, <1>14 DEF IInv

-----------------------------------------------------------------------------
(* The theorems.                                                           *)

\* Every step preserves the invariant.
LEMMA NextIInv == IInv /\ [Next]_vars => IInv'
<1>. SUFFICES ASSUME IInv, [Next]_vars PROVE IInv'
  OBVIOUS
<1>1. CASE UNCHANGED vars
  BY <1>1 DEF vars, tables, IInv, TypeOK, WorkersSound, Sound, ClientsLoaded, Loaded,
              OneActivePerKey, IsActive
<1>2. ASSUME NEW w \in Workers, NEW e \in Events, Deliver(w, e) PROVE IInv'
  BY <1>2, DeliverStep
<1>3. ASSUME NEW w \in Workers, WorkerStep(w) \/ Crash(w) PROVE IInv'
  BY <1>3, EvidenceExistsStep, LockActiveStep, LockGrantedStep, CommitStep, LostRaceStep,
     GiveUpStep, PublishStep DEF WorkerStep
<1>4. ASSUME NEW c \in Clients, NEW i \in Ids, NEW target \in IncidentStatuses,
             LoadIncident(c, i, target) PROVE IInv'
  BY <1>4, LoadIncidentStep
<1>6. ASSUME NEW c \in Clients, OperatorRequest(c) PROVE IInv'
  BY <1>4, <1>6 DEF OperatorRequest, IncidentStatuses, ActiveStatuses
<1>5. ASSUME NEW c \in Clients, ClientStep(c) PROVE IInv'
  BY <1>5, ApplyTransitionStep, TransitionRefusedStep DEF ClientStep
<1>. QED
  BY <1>1, <1>2, <1>3, <1>5, <1>6 DEF Next

\* The inductive invariant holds in every reachable state: besides the types, a
\* consumer between its locked read and its commit owns the row it will write and
\* its copy is that row, and no two active incidents share service and environment.
THEOREM Inductive == Spec => []IInv
  BY InitIInv, NextIInv, PTL DEF Spec

\* Every table, lock and local variable of the correlator keeps its type.
THEOREM TypeCorrectness == Spec => []TypeOK
<1>1. IInv => TypeOK
  BY DEF IInv
<1>. QED
  BY <1>1, Inductive, PTL

\* However consumers, operators, retries, deadlocks and crashes interleave, a
\* service and environment never has two active incidents.
THEOREM SingleActiveIncident == Spec => []OneActivePerKey
<1>1. IInv => OneActivePerKey
  BY DEF IInv
<1>. QED
  BY <1>1, Inductive, PTL

\* The step form of ClosedOnlyWhenQuiet.
QuietStep ==
    \A i \in Ids, e \in Events :
      (IsActive(i) /\ row'[i].status = "RESOLVED" /\ evidence'[e] # evidence[e])
        => Signal[e].at - row[i].last > Window

\* Only a commit writes evidence, and what it closes it has kept locked since
\* it compared the gap with the window.
LEMMA CommitQuiet ==
  ASSUME IInv, NEW w \in Workers, NEW k \in Ids, Commit(w, k)
  PROVE  QuietStep
<1>. SUFFICES ASSUME NEW i \in Ids, NEW e \in Events, IsActive(i),
                     row'[i].status = "RESOLVED", evidence'[e] # evidence[e]
              PROVE  Signal[e].at - row[i].last > Window
  BY DEF QuietStep
<1>0. PICK q, signal, inc :
        /\ q = worker[w]
        /\ signal = SignalOf(w)
        /\ inc = Absorb(IF q.action = "APPEND" THEN q.copy ELSE Blank(signal), signal)
  OBVIOUS
<1>1. /\ Sound(w, q) /\ q.pc = "commit" /\ signal \in Signals
      /\ row[i] \in Rows
  BY <1>0, AtWork, NoRowFacts
  DEF Commit, IInv, TypeOK, WorkersSound, IsActive, IncidentStatuses
<1>2. e = q.event
  BY <1>0 DEF Commit, IInv, TypeOK
<1>3. /\ IF q.action = "APPEND" THEN k = q.active ELSE row[k] = NoRow
      /\ row' = [j \in Ids |->
                   IF j = k THEN inc
                   ELSE IF q.action = "SUPERSEDE" /\ j = q.active
                          THEN WithStatus(q.copy, "RESOLVED")
                   ELSE row[j]]
  BY <1>0 DEF Commit
<1>4. i # k
  <2>. SUFFICES ASSUME i = k PROVE FALSE
    OBVIOUS
  <2>1. q.action = "APPEND" /\ row'[i] = inc
    BY <1>1, <1>3, NoRowFacts
  <2>2. q.copy = row[i]
    BY <1>1, <1>3, <2>1 DEF Sound
  <2>3. inc.status = row[i].status
    BY <1>0, <1>1, <2>1, <2>2, AbsorbTyped
  <2>. QED
    BY <2>1, <2>3 DEF IsActive, ActiveStatuses
<1>5. q.action = "SUPERSEDE" /\ i = q.active
  BY <1>3, <1>4 DEF IsActive, ActiveStatuses
<1>. QED
  BY <1>1, <1>2, <1>5, CorrelatorAssumption DEF Sound

\* Every step closes only what is quiet.
LEMMA NextQuiet == IInv /\ [Next]_vars => QuietStep
<1>. SUFFICES ASSUME IInv, [Next]_vars PROVE QuietStep
  OBVIOUS
<1>1. CASE UNCHANGED evidence
  BY <1>1 DEF QuietStep
<1>2. CASE \E w \in Workers, i \in Ids : Commit(w, i)
  BY <1>2, CommitQuiet
<1>. QED
  BY <1>1, <1>2 DEF Next, WorkerStep, ClientStep, vars, tables, Deliver, EvidenceExists,
     LockActive, LockGranted, LostRace, DeadlockDetected, Publish, Crash, OperatorRequest, LoadIncident,
     ApplyTransition, TransitionRefused

\* However consumers interleave, an anomaly closes an incident only when that
\* incident, as it is at the commit, has been quiet for longer than the window.
THEOREM QuietClosing == Spec => ClosedOnlyWhenQuiet
<1>1. IInv /\ [Next]_vars => [QuietStep]_vars
  BY NextQuiet
<1>. QED
  BY <1>1, Inductive, PTL DEF Spec, ClosedOnlyWhenQuiet, QuietStep

-----------------------------------------------------------------------------
(* Announcements.                                                          *)

\* Who still has to announce the opening of an incident.
Announces(q, i) == q.pc = "publish" /\ q.id = i /\ q.change = "opened"

Reliable == ~ MayCrash /\ SendOutcomes = {TRUE}

\* A step keeps the announcements if it adds no row and takes none back, and no
\* consumer leaves its announcement unsent.
LEMMA AnnouncementsKept ==
  ASSUME OpenedAnnounced, Reliable,
         \A i \in Ids : row'[i] # NoRow => row[i] # NoRow,
         topic \subseteq topic',
         \A v \in Workers : \/ worker'[v] = worker[v]
                            \/ worker[v].pc # "publish"
                            \/ <<worker[v].id, worker[v].change>> \in topic'
  PROVE  OpenedAnnounced'
<1>. SUFFICES ASSUME NEW i \in Ids, row'[i] # NoRow, <<i, "opened">> \notin topic'
              PROVE  \E v \in Workers : Announces(worker'[v], i)
  BY DEF OpenedAnnounced, Announces
<1>1. PICK v \in Workers : Announces(worker[v], i)
  BY DEF OpenedAnnounced, Reliable, Announces
<1>. QED
  BY <1>1 DEF Announces

\* The commit that creates an incident leaves its consumer about to announce it.
LEMMA CommitAnnounced ==
  ASSUME IInv, OpenedAnnounced, Reliable, NEW w \in Workers, NEW k \in Ids, Commit(w, k)
  PROVE  OpenedAnnounced'
<1>. DEFINE q == worker[w]
<1>1. /\ q.pc = "commit" /\ UNCHANGED topic
      /\ q.action = "APPEND" => k = q.active
      /\ \A j \in Ids : j # k /\ ~ (q.action = "SUPERSEDE" /\ j = q.active) => row'[j] = row[j]
  BY DEF Commit
<1>2. /\ worker'[w].pc = "publish" /\ worker'[w].id = k
      /\ q.action # "APPEND" => worker'[w].change = "opened"
      /\ \A v \in Workers : v # w => worker'[v] = worker[v]
  BY DEF Commit, Working, IInv, TypeOK
<1>3. q.action \in {"APPEND", "SUPERSEDE"} => q.active \in Ids /\ row[q.active] # NoRow
  <2>1. q.action \in {"APPEND", "SUPERSEDE"} => q.active # None
    BY <1>1 DEF IInv, WorkersSound, Sound
  <2>2. \A j \in Ids : IsActive(j) => row[j] # NoRow
    BY DEF IsActive, ActiveStatuses, NoRow
  <2>. QED
    BY <1>1, <2>1, <2>2 DEF IInv, WorkersSound, Sound
<1>. SUFFICES ASSUME NEW i \in Ids, row'[i] # NoRow, <<i, "opened">> \notin topic'
              PROVE  \E v \in Workers : Announces(worker'[v], i)
  BY DEF OpenedAnnounced, Announces
<1>4. CASE i = k /\ q.action # "APPEND"
  BY <1>2, <1>4 DEF Announces
<1>5. CASE ~ (i = k /\ q.action # "APPEND")
  <2>1. row[i] # NoRow
    BY <1>1, <1>3, <1>5
  <2>2. PICK v \in Workers : Announces(worker[v], i)
    BY <1>1, <2>1 DEF OpenedAnnounced, Reliable, Announces
  <2>3. v # w
    BY <1>1, <2>2 DEF Announces
  <2>. QED
    BY <1>2, <2>2, <2>3
<1>. QED
  BY <1>4, <1>5

\* Every step keeps the announcements.
LEMMA NextAnnounced == IInv /\ OpenedAnnounced /\ [Next]_vars => OpenedAnnounced'
<1>. SUFFICES ASSUME IInv, OpenedAnnounced, [Next]_vars, Reliable PROVE OpenedAnnounced'
  BY DEF OpenedAnnounced, Reliable
<1>1. ASSUME NEW w \in Workers, NEW q, worker' = [worker EXCEPT ![w] = q],
             worker[w].pc # "publish", UNCHANGED <<row, topic>>
      PROVE  OpenedAnnounced'
  <2>1. \A v \in Workers : v # w => worker'[v] = worker[v]
    BY <1>1 DEF IInv, TypeOK
  <2>. QED
    BY <1>1, <2>1, AnnouncementsKept
<1>2. ASSUME NEW w \in Workers, NEW e \in Events, Deliver(w, e) PROVE OpenedAnnounced'
  BY <1>1, <1>2 DEF Deliver, tables
<1>3. ASSUME NEW w \in Workers, EvidenceExists(w) PROVE OpenedAnnounced'
  BY <1>1, <1>3 DEF EvidenceExists, tables
<1>4. ASSUME NEW w \in Workers, LockActive(w) PROVE OpenedAnnounced'
  BY <1>1, <1>4 DEF LockActive, tables
<1>5. ASSUME NEW w \in Workers, LockGranted(w) PROVE OpenedAnnounced'
  BY <1>1, <1>5 DEF LockGranted, tables
<1>6. ASSUME NEW w \in Workers, LostRace(w) PROVE OpenedAnnounced'
  BY <1>1, <1>6 DEF LostRace, tables
<1>7. ASSUME NEW w \in Workers, DeadlockDetected(w) PROVE OpenedAnnounced'
  BY <1>1, <1>7 DEF DeadlockDetected, tables
<1>8. ASSUME NEW w \in Workers, NEW sent \in SendOutcomes, Publish(w, sent)
      PROVE  OpenedAnnounced'
  <2>1. topic' = topic \cup {<<worker[w].id, worker[w].change>>}
    BY <1>8 DEF Publish, Reliable
  <2>2. \A v \in Workers : v # w => worker'[v] = worker[v]
    BY <1>8 DEF Publish, IInv, TypeOK
  <2>3. UNCHANGED row
    BY <1>8 DEF Publish, tables
  <2>. QED
    BY <2>1, <2>2, <2>3, AnnouncementsKept
<1>9. ASSUME NEW c \in Clients, OperatorRequest(c) \/ TransitionRefused(c)
      PROVE  OpenedAnnounced'
  <2>1. UNCHANGED <<row, topic, worker>>
    BY <1>9 DEF OperatorRequest, LoadIncident, TransitionRefused, tables
  <2>. QED
    BY <2>1, AnnouncementsKept
<1>10. ASSUME NEW c \in Clients, ApplyTransition(c) PROVE OpenedAnnounced'
  <2>1. row[client[c].id] # NoRow /\ UNCHANGED <<topic, worker>>
    BY <1>10 DEF ApplyTransition, IInv, ClientsLoaded, Loaded
  <2>2. \A i \in Ids : i # client[c].id => row'[i] = row[i]
    BY <1>10 DEF ApplyTransition, IInv, TypeOK
  <2>. QED
    BY <2>1, <2>2, AnnouncementsKept
<1>11. CASE UNCHANGED vars
  <2>1. UNCHANGED <<row, topic, worker>>
    BY <1>11 DEF vars, tables
  <2>. QED
    BY <2>1, AnnouncementsKept
<1>12. ASSUME NEW w \in Workers, WorkerStep(w) \/ Crash(w) PROVE OpenedAnnounced'
  BY <1>3, <1>4, <1>5, <1>6, <1>7, <1>8, <1>12, CommitAnnounced DEF WorkerStep, Crash, Reliable
<1>. QED
  BY <1>2, <1>9, <1>10, <1>11, <1>12 DEF Next, ClientStep

\* The RCA agent hears of every incident, however consumers and operators race,
\* as long as no consumer dies and no send fails (_publish, after the commit).
THEOREM EveryOpeningAnnounced == Spec => []OpenedAnnounced
<1>1. Init => OpenedAnnounced
  BY DEF Init, OpenedAnnounced
<1>. QED
  BY <1>1, NextAnnounced, Inductive, PTL DEF Spec

-----------------------------------------------------------------------------
(* What a commit writes.                                                   *)

\* The row that a unit of work will write for its incident.
Written(q) == Absorb(IF q.action = "APPEND" THEN q.copy ELSE Blank(Signal[q.event]),
                     Signal[q.event])

\* A commit writes one incident, which is new or the row it has locked, and may
\* close the row it has locked; its event was evidence of nothing before.
LEMMA CommitFacts ==
  ASSUME IInv, NEW w \in Workers, NEW k \in Ids, Commit(w, k),
         NEW q, q = worker[w]
  PROVE  /\ q.pc = "commit" /\ q.event \in Events /\ evidence[q.event] = None
         /\ SignalOf(w) = Signal[q.event] /\ Signal[q.event] \in Signals
         /\ q.action = "APPEND" =>
              /\ k = q.active /\ q.copy = row[k] /\ row[k] \in Rows /\ row[k] # NoRow
              /\ Key(row[k]) = Key(Signal[q.event])
         /\ q.action # "APPEND" => row[k] = NoRow
         /\ q.action = "SUPERSEDE" =>
              /\ q.active \in Ids \ {k} /\ q.copy = row[q.active] /\ row[q.active] \in Rows
              /\ row[q.active] # NoRow
              /\ row'[q.active] = WithStatus(row[q.active], "RESOLVED")
         /\ row'[k] = Written(q) /\ Written(q) \in Rows
         /\ \A j \in Ids \ {k} : ~ (q.action = "SUPERSEDE" /\ j = q.active) => row'[j] = row[j]
<1>1. Sound(w, q) /\ q.pc = "commit" /\ ~ Duplicate(w)
  BY DEF Commit, IInv, WorkersSound
<1>2. q.event \in Events /\ evidence[q.event] = None
  BY <1>1 DEF Sound, Duplicate
<1>3. SignalOf(w) = Signal[q.event] /\ Signal[q.event] \in Signals
  BY <1>2, CorrelatorAssumption DEF SignalOf
<1>4. q.action \in {"APPEND", "SUPERSEDE"} =>
        /\ q.active \in Ids /\ q.copy = row[q.active] /\ row[q.active] \in Rows
        /\ row[q.active] # NoRow
        /\ Key(row[q.active]) = Key(Signal[q.event])
  <2>1. q.action \in {"APPEND", "SUPERSEDE"} => q.active # None
    BY <1>1 DEF Sound
  <2>2. \A j \in Ids : IsActive(j) => row[j] \in Rows /\ row[j] # NoRow
    BY NoRowFacts DEF IsActive, IncidentStatuses, IInv, TypeOK
  <2>. QED
    BY <1>1, <2>1, <2>2 DEF Sound
<1>5. /\ IF q.action = "APPEND" THEN k = q.active ELSE row[k] = NoRow
      /\ row' = [j \in Ids |->
                   IF j = k THEN Written(q)
                   ELSE IF q.action = "SUPERSEDE" /\ j = q.active
                          THEN WithStatus(q.copy, "RESOLVED")
                   ELSE row[j]]
  BY <1>3 DEF Commit, Written
<1>6. Written(q) \in Rows
  BY <1>3, <1>4, <1>5, AbsorbTyped, BlankTyped DEF Written
<1>. QED
  BY <1>1, <1>2, <1>3, <1>4, <1>5, <1>6

\* Every step but a commit and an operator's write leaves the incidents, the
\* evidence, the history and the links alone.
LEMMA TablesChange ==
  ASSUME [Next]_vars
  PROVE  \/ UNCHANGED tables
         \/ \E w \in Workers, k \in Ids : Commit(w, k)
         \/ \E c \in Clients : ApplyTransition(c)
  BY DEF Next, WorkerStep, ClientStep, vars, tables, Deliver, EvidenceExists,
     LockActive, LockGranted, LostRace, DeadlockDetected, Publish, Crash, OperatorRequest,
     LoadIncident, TransitionRefused

\* An operator's write changes the status of one existing incident.
LEMMA TransitionFacts ==
  ASSUME IInv, NEW c \in Clients, ApplyTransition(c), NEW i, NEW s,
         i = client[c].id, s = client[c].target
  PROVE  /\ i \in Ids /\ row[i] \in Rows /\ row[i] # NoRow /\ s \in IncidentStatuses
         /\ row' = [row EXCEPT ![i] = WithStatus(row[i], s)]
         /\ row'[i] = WithStatus(row[i], s)
         /\ history' = [history EXCEPT ![i] = Append(history[i], Change(row[i].status, s))]
         /\ UNCHANGED <<evidence, links, worker>>
<1>1. i \in Ids /\ row[i] \in Rows /\ row[i] # NoRow /\ s \in IncidentStatuses
  BY DEF IInv, ClientsLoaded, Loaded, ApplyTransition, TypeOK
<1>2. row' = [row EXCEPT ![i] = WithStatus(row[i], s)]
  BY DEF ApplyTransition
<1>3. row'[i] = WithStatus(row[i], s)
  BY <1>1, <1>2 DEF IInv, TypeOK
<1>4. history' = [history EXCEPT ![i] = Append(history[i], Change(row[i].status, s))]
  BY DEF ApplyTransition
<1>. QED
  BY <1>1, <1>2, <1>3, <1>4 DEF ApplyTransition

-----------------------------------------------------------------------------
(* The history of an incident.                                             *)

\* A log that replays to a status.
Replays(log, inc) ==
    /\ log = <<>> <=> inc = NoRow
    /\ log # <<>> => log[1] = Change(None, "OPEN") /\ log[Len(log)].to = inc.status
    /\ \A n \in 2 .. Len(log) : log[n].from = log[n - 1].to

\* The first row of a log.
LEMMA FirstReplays ==
  ASSUME NEW log, log = <<>>, NEW inc, inc # NoRow, inc.status = "OPEN"
  PROVE  Replays(Append(log, Change(None, "OPEN")), inc)
<1>1. Append(log, Change(None, "OPEN")) = <<Change(None, "OPEN")>>
  OBVIOUS
<1>2. PICK new : new = <<Change(None, "OPEN")>>
  OBVIOUS
<1>3. Len(new) = 1 /\ new # <<>> /\ new[1] = Change(None, "OPEN")
  BY <1>2
<1>. QED
  BY <1>1, <1>2, <1>3 DEF Replays, Change

\* A row that starts where the log ended.
LEMMA NextReplays ==
  ASSUME NEW log \in Seq(Changes), NEW old, NEW new, old # NoRow, new # NoRow,
         Replays(log, old), NEW s \in IncidentStatuses, new.status = s,
         old.status \in IncidentStatuses
  PROVE  Replays(Append(log, Change(old.status, s)), new)
<1>. DEFINE r == Change(old.status, s)
<1>1. r.from = old.status /\ r.to = s /\ r \in Changes
  BY DEF Change, Changes
<1>. HIDE DEF r
<1>2. PICK longer : longer = Append(log, r)
  OBVIOUS
<1>3. /\ log # <<>> /\ Len(log) \in Nat /\ Len(log) # 0
      /\ log[1] = Change(None, "OPEN") /\ log[Len(log)].to = old.status
  BY DEF Replays
<1>4. /\ Len(longer) = Len(log) + 1
      /\ longer # <<>>
      /\ longer[Len(log) + 1] = r
      /\ \A n \in 1 .. Len(log) : longer[n] = log[n]
  BY <1>1, <1>2, <1>3
<1>5. longer[1] = Change(None, "OPEN") /\ longer[Len(longer)].to = new.status
  BY <1>1, <1>3, <1>4
<1>6. ASSUME NEW n \in 2 .. Len(longer) PROVE longer[n].from = longer[n - 1].to
  <2>1. CASE n = Len(log) + 1
    <3>1. n - 1 = Len(log) /\ Len(log) \in 1 .. Len(log)
      BY <1>3, <2>1
    <3>2. longer[n] = r /\ longer[n - 1] = log[Len(log)]
      BY <1>4, <2>1, <3>1
    <3>. QED
      BY <1>1, <1>3, <3>2
  <2>2. CASE n # Len(log) + 1
    <3>1. n \in 2 .. Len(log) /\ n \in 1 .. Len(log) /\ n - 1 \in 1 .. Len(log)
      BY <1>3, <1>4, <1>6, <2>2
    <3>2. longer[n] = log[n] /\ longer[n - 1] = log[n - 1]
      BY <1>4, <3>1
    <3>. QED
      BY <3>1, <3>2 DEF Replays
  <2>. QED
    BY <2>1, <2>2
<1>7. Replays(longer, new)
  BY <1>4, <1>5, <1>6 DEF Replays
<1>. QED
  BY <1>2, <1>7 DEF r

\* Every step adds to a log the row that its change of status calls for.
LEMMA NextHistory == IInv /\ HistoryReplays /\ [Next]_vars => HistoryReplays'
<1>. SUFFICES ASSUME IInv, HistoryReplays, [Next]_vars, NEW i \in Ids
              PROVE  Replays(history'[i], row'[i])
  BY DEF HistoryReplays, Replays
<1>0. Replays(history[i], row[i]) /\ history[i] \in Seq(Changes)
  BY DEF HistoryReplays, Replays, IInv, TypeOK
<1>1. CASE UNCHANGED tables
  BY <1>0, <1>1 DEF tables
<1>2. ASSUME NEW w \in Workers, NEW k \in Ids, Commit(w, k) PROVE Replays(history'[i], row'[i])
  <2>1. PICK q : q = worker[w]
    OBVIOUS
  <2>2. history'[i] = IF i = k /\ q.action # "APPEND"
                        THEN Append(history[i], Change(None, "OPEN"))
                      ELSE IF q.action = "SUPERSEDE" /\ i = q.active
                        THEN Append(history[i], Change(q.copy.status, "RESOLVED"))
                      ELSE history[i]
    BY <1>2, <2>1 DEF Commit
  <2>3. CASE i = k /\ q.action # "APPEND"
    <3>1. /\ history'[i] = Append(history[i], Change(None, "OPEN"))
          /\ history[i] = <<>> /\ row'[i] = Written(q) /\ row'[i] \in Rows
      BY <1>0, <1>2, <2>1, <2>2, <2>3, CommitFacts DEF Replays
    <3>2. row'[i].status = "OPEN"
      <4>1. Signal[q.event] \in Signals
        BY <1>2, <2>1, CommitFacts
      <4>. QED
        BY <2>3, <3>1, <4>1, AbsorbTyped, BlankTyped DEF Written, Blank
    <3>3. row'[i] # NoRow
      BY <3>1, NoRowFacts
    <3>. QED
      BY <3>1, <3>2, <3>3, FirstReplays
  <2>4. CASE q.action = "SUPERSEDE" /\ i = q.active
    <3>1. /\ row[i] \in Rows /\ row[i] # NoRow /\ i # k
          /\ row'[i] = WithStatus(row[i], "RESOLVED") /\ q.copy = row[i]
      BY <1>2, <2>1, <2>4, CommitFacts
    <3>2. row'[i] # NoRow /\ row'[i].status = "RESOLVED" /\ row[i].status \in IncidentStatuses
          /\ "RESOLVED" \in IncidentStatuses
      BY <3>1, WithStatusTyped, NoRowFacts DEF IncidentStatuses, Rows
    <3>3. history'[i] = Append(history[i], Change(row[i].status, "RESOLVED"))
      BY <2>2, <2>4, <3>1
    <3>. QED
      BY <1>0, <3>1, <3>2, <3>3, NextReplays
  <2>5. CASE i = k /\ q.action = "APPEND"
    <3>1. /\ history'[i] = history[i] /\ row[i] \in Rows /\ row[i] # NoRow
          /\ row'[i] = Absorb(row[i], Signal[q.event]) /\ Signal[q.event] \in Signals
      BY <1>2, <2>1, <2>2, <2>5, CommitFacts DEF Written
    <3>2. row'[i] # NoRow /\ row'[i].status = row[i].status
      BY <3>1, AbsorbTyped, NoRowFacts
    <3>. QED
      BY <1>0, <3>1, <3>2 DEF Replays
  <2>6. CASE i # k /\ ~ (q.action = "SUPERSEDE" /\ i = q.active)
    BY <1>0, <1>2, <2>1, <2>2, <2>6, CommitFacts
  <2>. QED
    BY <2>3, <2>4, <2>5, <2>6
<1>3. ASSUME NEW c \in Clients, ApplyTransition(c) PROVE Replays(history'[i], row'[i])
  <2>1. PICK j, s : j = client[c].id /\ s = client[c].target
    OBVIOUS
  <2>2. /\ j \in Ids /\ row[j] \in Rows /\ row[j] # NoRow /\ s \in IncidentStatuses
        /\ row' = [row EXCEPT ![j] = WithStatus(row[j], s)]
        /\ history' = [history EXCEPT ![j] = Append(history[j], Change(row[j].status, s))]
    BY <1>3, <2>1, TransitionFacts
  <2>3. CASE i # j
    BY <1>0, <2>2, <2>3 DEF IInv, TypeOK
  <2>4. CASE i = j
    <3>1. /\ row'[i] = WithStatus(row[i], s)
          /\ history'[i] = Append(history[i], Change(row[i].status, s))
      BY <2>2, <2>4 DEF IInv, TypeOK
    <3>2. row'[i] # NoRow /\ row'[i].status = s /\ row[i].status \in IncidentStatuses
      BY <2>2, <2>4, <3>1, WithStatusTyped, NoRowFacts DEF Rows
    <3>. QED
      BY <1>0, <2>2, <2>4, <3>1, <3>2, NextReplays
  <2>. QED
    BY <2>3, <2>4
<1>. QED
  BY <1>1, <1>2, <1>3, TablesChange

\* The audit trail of an incident replays to its status whatever consumers and
\* operators do at once (add_transition, apply_transition).
THEOREM HistoryTrustworthy == Spec => []HistoryReplays
<1>1. Init => HistoryReplays
  BY DEF Init, HistoryReplays
<1>. QED
  BY <1>1, NextHistory, Inductive, PTL DEF Spec

-----------------------------------------------------------------------------
(* The aggregates of an incident.                                          *)

\* The aggregates of a row are those of a set of evidence.
Aggregated(inc, mine) ==
    LET abnormal == UNION {Signal[e].abnormal : e \in mine}
    IN  /\ \A e \in mine : Key(Signal[e]) = Key(inc)
        /\ inc.count = Cardinality(mine)
        /\ inc.abnormal = abnormal
        /\ IsLargest(inc.error, {Signal[e].error : e \in mine})
        /\ IsLargest(inc.latency, {Signal[e].latency : e \in mine})
        /\ IsLargest(inc.last, {Signal[e].end : e \in mine})
        /\ IsSmallest(inc.started, {Signal[e].start : e \in mine})
        /\ inc.severity = EvaluateSeverity(Cardinality(mine), Cardinality(abnormal),
                             inc.error, inc.latency, Larger(inc.last - inc.started, 0))

\* Evidence belongs to incidents that exist, finitely much to each.
EvidenceSound ==
    /\ \A e \in Events : evidence[e] # None => row[evidence[e]] # NoRow
    /\ \A i \in Ids : IsFiniteSet(EvidenceOf(i))

\* The largest and the smallest of a set with one more member.
LEMMA LargestGrows ==
  ASSUME NEW S \in SUBSET Nat, NEW x \in Nat, NEW y \in Nat, IsLargest(x, S)
  PROVE  IsLargest(Larger(x, y), S \cup {y})
  BY DEF IsLargest, Larger

\* The same for the smallest.
LEMMA SmallestGrows ==
  ASSUME NEW S \in SUBSET Nat, NEW x \in Nat, NEW y \in Nat, IsSmallest(x, S)
  PROVE  IsSmallest(Smaller(x, y), S \cup {y})
  BY DEF IsSmallest, Smaller

\* A union with one more member.
LEMMA UnionGrows ==
  ASSUME NEW S, NEW x
  PROVE  UNION (S \cup {x}) = (UNION S) \cup x
  OBVIOUS

\* What _absorb computes, column by column.
LEMMA AbsorbColumns ==
  ASSUME NEW inc \in Rows, NEW signal \in Signals, NEW new, new = Absorb(inc, signal)
  PROVE  /\ new.count = inc.count + 1
         /\ new.abnormal = inc.abnormal \cup signal.abnormal
         /\ new.error = Larger(inc.error, signal.error)
         /\ new.latency = Larger(inc.latency, signal.latency)
         /\ new.started = Smaller(inc.started, signal.start)
         /\ new.last = Larger(inc.last, signal.end)
         /\ new.severity = EvaluateSeverity(new.count, Cardinality(new.abnormal), new.error,
                              new.latency, Larger(new.last - new.started, 0))
  BY DEF Absorb

\* Absorbing an event that is not evidence yet keeps the aggregates exact.
LEMMA AbsorbAggregates ==
  ASSUME NEW inc \in Rows, NEW mine \in SUBSET Events, IsFiniteSet(mine),
         NEW e \in Events, e \notin mine, Key(Signal[e]) = Key(inc),
         Aggregated(inc, mine)
  PROVE  Aggregated(Absorb(inc, Signal[e]), mine \cup {e})
<1>. DEFINE new == Absorb(inc, Signal[e])
            more == mine \cup {e}
<1>1. \A f \in Events : Signal[f] \in Signals
  BY CorrelatorAssumption
<1>2. /\ new.count = inc.count + 1
      /\ new.abnormal = inc.abnormal \cup Signal[e].abnormal
      /\ new.error = Larger(inc.error, Signal[e].error)
      /\ new.latency = Larger(inc.latency, Signal[e].latency)
      /\ new.started = Smaller(inc.started, Signal[e].start)
      /\ new.last = Larger(inc.last, Signal[e].end)
      /\ new.severity = EvaluateSeverity(new.count, Cardinality(new.abnormal), new.error,
                           new.latency, Larger(new.last - new.started, 0))
      /\ Key(new) = Key(inc)
  BY <1>1, AbsorbColumns, AbsorbTyped
<1>3. Cardinality(more) = Cardinality(mine) + 1
  BY FS_AddElement
<1>. HIDE DEF new
<1>4. UNION {Signal[f].abnormal : f \in more}
        = (UNION {Signal[f].abnormal : f \in mine}) \cup Signal[e].abnormal
  <2>1. {Signal[f].abnormal : f \in more} = {Signal[f].abnormal : f \in mine} \cup {Signal[e].abnormal}
    OBVIOUS
  <2>2. UNION ({Signal[f].abnormal : f \in mine} \cup {Signal[e].abnormal})
          = (UNION {Signal[f].abnormal : f \in mine}) \cup Signal[e].abnormal
    BY UnionGrows
  <2>. QED
    BY <2>1, <2>2
<1>5. /\ inc.error \in Nat /\ inc.latency \in Nat /\ inc.last \in Nat /\ inc.started \in Nat
      /\ \A f \in Events : /\ Signal[f].error \in Nat /\ Signal[f].latency \in Nat
                           /\ Signal[f].end \in Nat /\ Signal[f].start \in Nat
  BY <1>1 DEF Rows, Signals
<1>6. /\ IsLargest(inc.error, {Signal[f].error : f \in mine})
      /\ IsLargest(inc.latency, {Signal[f].latency : f \in mine})
      /\ IsLargest(inc.last, {Signal[f].end : f \in mine})
      /\ IsSmallest(inc.started, {Signal[f].start : f \in mine})
  BY DEF Aggregated
<1>8. IsLargest(new.error, {Signal[f].error : f \in more})
  <2>1. {Signal[f].error : f \in more} = {Signal[f].error : f \in mine} \cup {Signal[e].error}
    OBVIOUS
  <2>2. {Signal[f].error : f \in mine} \in SUBSET Nat /\ Signal[e].error \in Nat
    BY <1>5
  <2>. QED
    BY <1>2, <1>5, <1>6, <2>1, <2>2, LargestGrows
<1>9. IsLargest(new.latency, {Signal[f].latency : f \in more})
  <2>1. {Signal[f].latency : f \in more} = {Signal[f].latency : f \in mine} \cup {Signal[e].latency}
    OBVIOUS
  <2>2. {Signal[f].latency : f \in mine} \in SUBSET Nat /\ Signal[e].latency \in Nat
    BY <1>5
  <2>. QED
    BY <1>2, <1>5, <1>6, <2>1, <2>2, LargestGrows
<1>10. IsLargest(new.last, {Signal[f].end : f \in more})
  <2>1. {Signal[f].end : f \in more} = {Signal[f].end : f \in mine} \cup {Signal[e].end}
    OBVIOUS
  <2>2. {Signal[f].end : f \in mine} \in SUBSET Nat /\ Signal[e].end \in Nat
    BY <1>5
  <2>. QED
    BY <1>2, <1>5, <1>6, <2>1, <2>2, LargestGrows
<1>11. IsSmallest(new.started, {Signal[f].start : f \in more})
  <2>1. {Signal[f].start : f \in more} = {Signal[f].start : f \in mine} \cup {Signal[e].start}
    OBVIOUS
  <2>2. {Signal[f].start : f \in mine} \in SUBSET Nat /\ Signal[e].start \in Nat
    BY <1>5
  <2>. QED
    BY <1>2, <1>5, <1>6, <2>1, <2>2, SmallestGrows
<1>12. /\ new.count = Cardinality(more)
       /\ new.abnormal = UNION {Signal[f].abnormal : f \in more}
       /\ \A f \in more : Key(Signal[f]) = Key(new)
  BY <1>2, <1>3, <1>4 DEF Aggregated
<1>13. new.severity = EvaluateSeverity(Cardinality(more),
                         Cardinality(UNION {Signal[f].abnormal : f \in more}),
                         new.error, new.latency, Larger(new.last - new.started, 0))
  BY <1>2, <1>12
<1>14. Aggregated(new, more)
  <2>. HIDE DEF more
  <2>. QED
    BY <1>8, <1>9, <1>10, <1>11, <1>12, <1>13 DEF Aggregated
<1>. QED
  BY <1>14 DEF new

\* So does absorbing the first event of a new incident.
LEMMA BlankAggregates ==
  ASSUME NEW e \in Events
  PROVE  Aggregated(Absorb(Blank(Signal[e]), Signal[e]), {e})
<1>. DEFINE signal == Signal[e]
            blank == Blank(signal)
            new == Absorb(blank, signal)
<1>1. signal \in Signals
  BY CorrelatorAssumption
<1>2. blank \in Rows /\ Key(blank) = Key(signal)
  BY <1>1, BlankTyped
<1>3. /\ blank.count = 0 /\ blank.abnormal = {} /\ blank.error = 0 /\ blank.latency = 0
      /\ blank.started = signal.start /\ blank.last = signal.end
  BY DEF Blank
<1>. HIDE DEF blank, signal
<1>4. /\ new.count = blank.count + 1
      /\ new.abnormal = blank.abnormal \cup signal.abnormal
      /\ new.error = Larger(blank.error, signal.error)
      /\ new.latency = Larger(blank.latency, signal.latency)
      /\ new.started = Smaller(blank.started, signal.start)
      /\ new.last = Larger(blank.last, signal.end)
      /\ new.severity = EvaluateSeverity(new.count, Cardinality(new.abnormal), new.error,
                           new.latency, Larger(new.last - new.started, 0))
      /\ Key(new) = Key(blank)
  BY <1>1, <1>2, AbsorbColumns, AbsorbTyped
<1>. HIDE DEF new
<1>5. /\ signal.error \in Nat /\ signal.latency \in Nat
      /\ signal.start \in Nat /\ signal.end \in Nat
  BY <1>1 DEF Signals
<1>6. /\ new.count = 1 /\ new.abnormal = signal.abnormal
      /\ new.error = signal.error /\ new.latency = signal.latency
      /\ new.started = signal.start /\ new.last = signal.end
  BY <1>3, <1>4, <1>5 DEF Larger, Smaller
<1>7. Cardinality({e}) = 1 /\ UNION {Signal[f].abnormal : f \in {e}} = signal.abnormal
  <2>1. Cardinality({e}) = 1
    BY FS_Singleton
  <2>. QED
    BY <2>1 DEF signal
<1>8. /\ IsLargest(new.error, {Signal[f].error : f \in {e}})
      /\ IsLargest(new.latency, {Signal[f].latency : f \in {e}})
      /\ IsLargest(new.last, {Signal[f].end : f \in {e}})
      /\ IsSmallest(new.started, {Signal[f].start : f \in {e}})
  BY <1>5, <1>6 DEF IsLargest, IsSmallest, signal
<1>9. \A f \in {e} : Key(Signal[f]) = Key(new)
  BY <1>2, <1>4 DEF signal
<1>10. new.severity = EvaluateSeverity(Cardinality({e}),
                         Cardinality(UNION {Signal[f].abnormal : f \in {e}}),
                         new.error, new.latency, Larger(new.last - new.started, 0))
  BY <1>4, <1>6, <1>7
<1>11. Aggregated(new, {e})
  BY <1>6, <1>7, <1>8, <1>9, <1>10 DEF Aggregated
<1>. QED
  BY <1>11 DEF new, blank, signal

\* A change of status leaves the aggregates alone.
LEMMA StatusKeepsAggregates ==
  ASSUME NEW inc, NEW s, NEW mine, Aggregated(inc, mine)
  PROVE  Aggregated(WithStatus(inc, s), mine)
<1>. DEFINE new == WithStatus(inc, s)
<1>1. /\ Key(new) = Key(inc) /\ new.count = inc.count /\ new.abnormal = inc.abnormal
      /\ new.error = inc.error /\ new.latency = inc.latency /\ new.last = inc.last
      /\ new.started = inc.started /\ new.severity = inc.severity
  BY DEF WithStatus, Key
<1>. HIDE DEF new
<1>2. Aggregated(new, mine)
  BY <1>1 DEF Aggregated
<1>. QED
  BY <1>2 DEF new

\* The whole: evidence and aggregates.
AggregatesSound == EvidenceSound /\ AggregatesMatchEvidence

\* The invariant in terms of Aggregated.
LEMMA AggregatesMeaning ==
  AggregatesMatchEvidence <=> \A i \in Ids : row[i] # NoRow => Aggregated(row[i], EvidenceOf(i))
  BY DEF AggregatesMatchEvidence, Aggregated

\* A commit counts its event once, for the incident it writes.
LEMMA CommitAggregates ==
  ASSUME IInv, AggregatesSound, NEW w \in Workers, NEW k \in Ids, Commit(w, k)
  PROVE  /\ EvidenceSound'
         /\ \A i \in Ids : row'[i] # NoRow => Aggregated(row'[i], EvidenceOf(i)')
<1>1. PICK q : q = worker[w]
  OBVIOUS
<1>2. /\ q.event \in Events /\ evidence[q.event] = None /\ Signal[q.event] \in Signals
      /\ q.action = "APPEND" =>
           /\ q.copy = row[k] /\ row[k] \in Rows /\ row[k] # NoRow
           /\ Key(row[k]) = Key(Signal[q.event])
      /\ q.action # "APPEND" => row[k] = NoRow
      /\ q.action = "SUPERSEDE" =>
           /\ q.active \in Ids \ {k} /\ row[q.active] # NoRow /\ row[q.active] \in Rows
           /\ row'[q.active] = WithStatus(row[q.active], "RESOLVED")
      /\ row'[k] = Written(q) /\ Written(q) \in Rows
      /\ \A j \in Ids \ {k} : ~ (q.action = "SUPERSEDE" /\ j = q.active) => row'[j] = row[j]
  BY <1>1, CommitFacts
<1>3. evidence' = [evidence EXCEPT ![q.event] = k] /\ evidence \in [Events -> Ids \cup {None}]
  BY <1>1 DEF Commit, IInv, TypeOK
<1>4. None \notin Ids
  BY CorrelatorAssumption
<1>5. /\ EvidenceOf(k)' = EvidenceOf(k) \cup {q.event}
      /\ q.event \notin EvidenceOf(k)
      /\ \A i \in Ids \ {k} : EvidenceOf(i)' = EvidenceOf(i)
  BY <1>2, <1>3, <1>4 DEF EvidenceOf
<1>6. \A i \in Ids : IsFiniteSet(EvidenceOf(i)) /\ EvidenceOf(i) \in SUBSET Events
  BY DEF AggregatesSound, EvidenceSound, EvidenceOf
<1>7. \A i \in Ids : row[i] # NoRow => row'[i] # NoRow
  BY <1>2, NoRowFacts, WithStatusTyped DEF IncidentStatuses
<1>8. row'[k] # NoRow
  BY <1>2, NoRowFacts
<1>9. EvidenceSound'
  <2>1. \A i \in Ids : IsFiniteSet(EvidenceOf(i)')
    BY <1>5, <1>6, FS_AddElement
  <2>2. ASSUME NEW e \in Events, evidence'[e] # None PROVE row'[evidence'[e]] # NoRow
    BY <1>2, <1>3, <1>7, <1>8, <2>2 DEF AggregatesSound, EvidenceSound
  <2>. QED
    BY <2>1, <2>2 DEF EvidenceSound
<1>10. \A i \in Ids : row[i] # NoRow => Aggregated(row[i], EvidenceOf(i))
  BY AggregatesMeaning DEF AggregatesSound
<1>11. Aggregated(row'[k], EvidenceOf(k)')
  <2>1. CASE q.action = "APPEND"
    <3>1. row'[k] = Absorb(row[k], Signal[q.event])
      BY <1>2, <2>1 DEF Written
    <3>2. Aggregated(Absorb(row[k], Signal[q.event]), EvidenceOf(k) \cup {q.event})
      BY <1>2, <1>5, <1>6, <1>10, <2>1, AbsorbAggregates
    <3>. QED
      BY <1>5, <3>1, <3>2
  <2>2. CASE q.action # "APPEND"
    <3>1. EvidenceOf(k) = {}
      BY <1>2, <1>4, <2>2 DEF AggregatesSound, EvidenceSound, EvidenceOf
    <3>2. EvidenceOf(k)' = {q.event}
      BY <1>5, <3>1
    <3>3. row'[k] = Absorb(Blank(Signal[q.event]), Signal[q.event])
      BY <1>2, <2>2 DEF Written
    <3>. QED
      BY <1>2, <3>2, <3>3, BlankAggregates
  <2>. QED
    BY <2>1, <2>2
<1>12. ASSUME NEW i \in Ids \ {k}, row'[i] # NoRow PROVE Aggregated(row'[i], EvidenceOf(i)')
  <2>1. CASE q.action = "SUPERSEDE" /\ i = q.active
    <3>1. Aggregated(WithStatus(row[i], "RESOLVED"), EvidenceOf(i))
      BY <1>2, <1>10, <2>1, StatusKeepsAggregates
    <3>. QED
      BY <1>2, <1>5, <2>1, <3>1
  <2>2. CASE ~ (q.action = "SUPERSEDE" /\ i = q.active)
    BY <1>2, <1>5, <1>10, <1>12, <2>2
  <2>. QED
    BY <2>1, <2>2
<1>. QED
  BY <1>9, <1>11, <1>12

\* Every step keeps evidence and aggregates together.
LEMMA NextAggregates == IInv /\ AggregatesSound /\ [Next]_vars => AggregatesSound'
<1>. SUFFICES ASSUME IInv, AggregatesSound, [Next]_vars PROVE AggregatesSound'
  OBVIOUS
<1>0. AggregatesMatchEvidence'
        <=> \A i \in Ids : row'[i] # NoRow => Aggregated(row'[i], EvidenceOf(i)')
  BY DEF AggregatesMatchEvidence, Aggregated, EvidenceOf
<1>1. CASE UNCHANGED tables
  BY <1>1 DEF tables, AggregatesSound, EvidenceSound, AggregatesMatchEvidence, EvidenceOf
<1>2. ASSUME NEW w \in Workers, NEW k \in Ids, Commit(w, k) PROVE AggregatesSound'
  BY <1>0, <1>2, CommitAggregates DEF AggregatesSound
<1>3. ASSUME NEW c \in Clients, ApplyTransition(c) PROVE AggregatesSound'
  <2>1. PICK j, s : j = client[c].id /\ s = client[c].target
    OBVIOUS
  <2>2. /\ j \in Ids /\ row[j] \in Rows /\ row[j] # NoRow /\ s \in IncidentStatuses
        /\ row' = [row EXCEPT ![j] = WithStatus(row[j], s)]
        /\ row'[j] = WithStatus(row[j], s) /\ evidence' = evidence
    BY <1>3, <2>1, TransitionFacts
  <2>3. row'[j] # NoRow /\ \A i \in Ids \ {j} : row'[i] = row[i]
    BY <2>2, WithStatusTyped, NoRowFacts DEF IInv, TypeOK
  <2>4. \A i \in Ids : EvidenceOf(i)' = EvidenceOf(i)
    BY <2>2 DEF EvidenceOf
  <2>5. \A i \in Ids : row[i] # NoRow => Aggregated(row[i], EvidenceOf(i))
    BY AggregatesMeaning DEF AggregatesSound
  <2>6. Aggregated(row'[j], EvidenceOf(j)')
    BY <2>2, <2>4, <2>5, StatusKeepsAggregates
  <2>7. \A i \in Ids : row'[i] # NoRow => Aggregated(row'[i], EvidenceOf(i)')
    BY <2>3, <2>4, <2>5, <2>6
  <2>8. EvidenceSound'
    <3>1. \A i \in Ids : IsFiniteSet(EvidenceOf(i)')
      BY <2>4 DEF AggregatesSound, EvidenceSound
    <3>2. \A e \in Events : evidence'[e] # None => row'[evidence'[e]] # NoRow
      BY <2>2, <2>3 DEF AggregatesSound, EvidenceSound, IInv, TypeOK
    <3>. QED
      BY <3>1, <3>2 DEF EvidenceSound
  <2>. QED
    BY <1>0, <2>7, <2>8 DEF AggregatesSound
<1>. QED
  BY <1>1, <1>2, <1>3, TablesChange

\* No anomaly is counted twice and none is lost: in every reachable state the
\* running aggregates and the severity of each incident are those of its evidence.
THEOREM ExactAggregates == Spec => []AggregatesMatchEvidence
<1>1. Init => AggregatesSound
  <2>. SUFFICES ASSUME Init PROVE AggregatesSound
    OBVIOUS
  <2>1. \A i \in Ids : EvidenceOf(i) = {} /\ row[i] = NoRow
    BY CorrelatorAssumption DEF Init, EvidenceOf
  <2>. QED
    BY <2>1, FS_EmptySet DEF Init, AggregatesSound, EvidenceSound, AggregatesMatchEvidence
<1>2. AggregatesSound => AggregatesMatchEvidence
  BY DEF AggregatesSound
<1>. QED
  BY <1>1, <1>2, NextAggregates, Inductive, PTL DEF Spec

-----------------------------------------------------------------------------
(* Links.                                                                  *)

\* An incident only grows: it keeps its key, starts no later and ends no earlier.
Grown(old, new) ==
    /\ old \in Rows /\ new \in Rows
    /\ new.service = old.service /\ new.environment = old.environment
    /\ new.started <= old.started /\ old.last <= new.last

RowsGrow == \A j \in Ids : row[j] # NoRow => row'[j] # NoRow /\ Grown(row[j], row'[j])

\* What incident a, which depends on b, and b have in common.
Related(a, b) ==
    /\ b.service \in Dependencies(a.service)
    /\ a.environment = b.environment
    /\ Overlap(a, b)

\* A unit of work wants links to incidents that exist and that the incident it
\* will write is related to, either way.
Wants(q) ==
    q.pc = "commit" =>
      \A j \in q.want : /\ row[j] # NoRow /\ j # q.active
                        /\ Related(Written(q), row[j]) \/ Related(row[j], Written(q))

WantsSound == \A w \in Workers : Wants(worker[w])

LinksSound == WantsSound /\ LinksFollowTopology

\* Absorbing an anomaly or changing the status makes an incident grow.
LEMMA RowGrows ==
  ASSUME NEW inc \in Rows
  PROVE  /\ \A signal \in Signals : Grown(inc, Absorb(inc, signal))
         /\ \A s \in IncidentStatuses : Grown(inc, WithStatus(inc, s))
<1>1. ASSUME NEW signal \in Signals PROVE Grown(inc, Absorb(inc, signal))
  <2>. DEFINE new == Absorb(inc, signal)
  <2>1. /\ new \in Rows /\ new.service = inc.service /\ new.environment = inc.environment
        /\ new.started = Smaller(inc.started, signal.start)
        /\ new.last = Larger(inc.last, signal.end)
    BY AbsorbTyped DEF Absorb
  <2>. HIDE DEF new
  <2>2. Grown(inc, new)
    BY <2>1 DEF Grown, Smaller, Larger, Rows, Signals
  <2>. QED
    BY <2>2 DEF new
<1>2. ASSUME NEW s \in IncidentStatuses PROVE Grown(inc, WithStatus(inc, s))
  BY WithStatusTyped DEF Grown, WithStatus, Rows
<1>. QED
  BY <1>1, <1>2

\* Growing is reflexive.
LEMMA GrownRefl == \A inc \in Rows : Grown(inc, inc)
  BY DEF Grown, Rows

\* Incidents that overlap still do when they have grown.
LEMMA RelatedGrows ==
  ASSUME NEW a, NEW b, NEW c, NEW d, Grown(a, c), Grown(b, d), Related(a, b)
  PROVE  Related(c, d)
  BY RulesAssumption DEF Grown, Related, Overlap, Rows

\* Every step lets incidents grow.
LEMMA NextRowsGrow == IInv /\ [Next]_vars => RowsGrow
<1>. SUFFICES ASSUME IInv, [Next]_vars, NEW j \in Ids, row[j] # NoRow
              PROVE  row'[j] # NoRow /\ Grown(row[j], row'[j])
  BY DEF RowsGrow
<1>0. row[j] \in Rows
  BY DEF IInv, TypeOK
<1>1. CASE row'[j] = row[j]
  BY <1>0, <1>1, GrownRefl
<1>2. \A new : Grown(row[j], new) => new # NoRow
  BY NoRowFacts DEF Grown
<1>3. ASSUME NEW w \in Workers, NEW k \in Ids, Commit(w, k)
      PROVE  row'[j] # NoRow /\ Grown(row[j], row'[j])
  <2>1. PICK q : q = worker[w]
    OBVIOUS
  <2>2. CASE j = k
    <3>1. row'[j] = Absorb(row[j], Signal[q.event]) /\ Signal[q.event] \in Signals
      BY <1>3, <2>1, <2>2, CommitFacts DEF Written
    <3>. QED
      BY <1>0, <1>2, <3>1, RowGrows
  <2>3. CASE j # k /\ q.action = "SUPERSEDE" /\ j = q.active
    <3>1. row'[j] = WithStatus(row[j], "RESOLVED") /\ "RESOLVED" \in IncidentStatuses
      BY <1>3, <2>1, <2>3, CommitFacts DEF IncidentStatuses
    <3>. QED
      BY <1>0, <1>2, <3>1, RowGrows
  <2>4. CASE j # k /\ ~ (q.action = "SUPERSEDE" /\ j = q.active)
    BY <1>1, <1>3, <2>1, <2>4, CommitFacts
  <2>. QED
    BY <2>2, <2>3, <2>4
<1>4. ASSUME NEW c \in Clients, ApplyTransition(c)
      PROVE  row'[j] # NoRow /\ Grown(row[j], row'[j])
  <2>1. PICK i, s : i = client[c].id /\ s = client[c].target
    OBVIOUS
  <2>2. /\ i \in Ids /\ s \in IncidentStatuses
        /\ row' = [row EXCEPT ![i] = WithStatus(row[i], s)]
        /\ row'[i] = WithStatus(row[i], s)
    BY <1>4, <2>1, TransitionFacts
  <2>3. CASE j = i
    BY <1>0, <1>2, <2>2, <2>3, RowGrows
  <2>4. CASE j # i
    BY <1>1, <2>2, <2>4 DEF IInv, TypeOK
  <2>. QED
    BY <2>3, <2>4
<1>5. CASE UNCHANGED tables
  BY <1>1, <1>5 DEF tables
<1>. QED
  BY <1>3, <1>4, <1>5, TablesChange

\* The row a unit of work will write is one.
LEMMA WrittenTyped ==
  ASSUME IInv, NEW w \in Workers, NEW q, q = worker[w], q.pc = "commit"
  PROVE  Written(q) \in Rows
<1>1. Sound(w, q)
  BY DEF IInv, WorkersSound
<1>2. Signal[q.event] \in Signals
  BY <1>1, CorrelatorAssumption DEF Sound
<1>3. q.action = "APPEND" => q.copy \in Rows
  <2>1. q.action = "APPEND" => q.active # None
    BY <1>1 DEF Sound
  <2>. QED
    BY <1>1, <2>1, NoRowFacts DEF Sound, IsActive, IInv, TypeOK, IncidentStatuses
<1>. QED
  BY <1>2, <1>3, AbsorbTyped, BlankTyped DEF Written

\* A unit of work that was wanted before a step still is after it.
LEMMA WantsKept ==
  ASSUME IInv, RowsGrow, NEW w \in Workers, Wants(worker[w]), worker'[w] = worker[w]
  PROVE  Wants(worker[w])'
<1>1. PICK q : q = worker[w]
  OBVIOUS
<1>. SUFFICES ASSUME q.pc = "commit", NEW j \in q.want
              PROVE  /\ row'[j] # NoRow /\ j # q.active
                     /\ Related(Written(q), row'[j]) \/ Related(row'[j], Written(q))
  BY <1>1 DEF Wants
<1>2. /\ row[j] # NoRow /\ j # q.active /\ j \in Ids
      /\ Related(Written(q), row[j]) \/ Related(row[j], Written(q))
  BY <1>1 DEF Wants, IInv, TypeOK, WorkerStates
<1>3. row'[j] # NoRow /\ Grown(row[j], row'[j]) /\ Grown(Written(q), Written(q))
  BY <1>1, <1>2, WrittenTyped, GrownRefl DEF RowsGrow
<1>. QED
  BY <1>2, <1>3, RelatedGrows

\* The neighbours that decide looks up are related to what it will write.
LEMMA DecidedWants ==
  ASSUME IInv, NEW w \in Workers, NEW i \in Ids \cup {None}, NEW X, X = Decided(w, i),
         worker[w].pc \in {"lock", "waiting"}, i # None => IsActive(i), UNCHANGED row
  PROVE  Wants(X)'
<1>. DEFINE q == worker[w]
            signal == Signal[q.event]
            action == IF i = None THEN "CREATE" ELSE Correlate(signal, row[i])
            copy == IF i = None THEN NoRow ELSE row[i]
            inc == IF action = "APPEND" THEN Absorb(row[i], signal)
                                        ELSE Absorb(Blank(signal), signal)
<1>1. signal \in Signals /\ SignalOf(w) = signal
  BY AtWork DEF SignalOf
<1>2. X = [Working("commit", q.event, q.attempt) EXCEPT
             !.active = i, !.copy = copy, !.action = action, !.want = Neighbours(inc, i)]
  BY <1>1 DEF Decided
<1>3. action = "APPEND" => i \in Ids /\ copy = row[i] /\ row[i] \in Rows
  BY NoRowFacts DEF IInv, TypeOK, IsActive, IncidentStatuses
<1>. HIDE DEF action, copy
<1>4. inc \in Rows
  BY <1>1, <1>3, AbsorbTyped, BlankTyped
<1>. HIDE DEF signal
<1>5. /\ X.want = Neighbours(inc, i) /\ X.active = i /\ X.copy = copy /\ X.action = action
      /\ X.event = q.event
  <2>. HIDE DEF inc
  <2>. QED
    BY <1>2 DEF Working
<1>6. Written(X) = inc
  BY <1>3, <1>5 DEF Written, signal
<1>. HIDE DEF inc
<1>7. ASSUME NEW j \in X.want
      PROVE  /\ row[j] # NoRow /\ j # i
             /\ Related(inc, row[j]) \/ Related(row[j], inc)
  <2>1. /\ j \in Ids /\ j # i /\ IsActive(j) /\ row[j].service \in RelatedServices(inc.service)
        /\ row[j].environment = inc.environment /\ Overlap(inc, row[j])
    BY <1>5, <1>7 DEF Neighbours, ActiveIncidentsInServices
  <2>2. row[j] # NoRow /\ row[j] \in Rows
    BY <2>1, NoRowFacts DEF IsActive, IncidentStatuses, IInv, TypeOK
  <2>3. Overlap(row[j], inc)
    BY <2>1 DEF Overlap
  <2>. QED
    BY <2>1, <2>2, <2>3 DEF Related, RelatedServices
<1>. QED
  BY <1>5, <1>6, <1>7 DEF Wants

\* A consumer that is not about to commit wants nothing.
LEMMA NoWants == \A q : q.pc # "commit" => Wants(q)'
  BY DEF Wants

\* Every step keeps what the consumers want sound.
LEMMA NextWants == IInv /\ WantsSound /\ [Next]_vars => WantsSound'
<1>. SUFFICES ASSUME IInv, WantsSound, [Next]_vars PROVE WantsSound'
  OBVIOUS
<1>0. RowsGrow
  BY NextRowsGrow
<1>1. ASSUME NEW w \in Workers, NEW X, worker' = [worker EXCEPT ![w] = X], Wants(X)'
      PROVE  WantsSound'
  <2>. SUFFICES ASSUME NEW v \in Workers PROVE Wants(worker[v])'
    BY DEF WantsSound
  <2>1. CASE v = w
    BY <1>1, <2>1 DEF IInv, TypeOK
  <2>2. CASE v # w
    <3>1. worker'[v] = worker[v]
      BY <1>1, <2>2 DEF IInv, TypeOK
    <3>. QED
      BY <1>0, <3>1, WantsKept DEF WantsSound
  <2>. QED
    BY <2>1, <2>2
<1>2. ASSUME NEW w \in Workers, NEW X, worker' = [worker EXCEPT ![w] = X], X.pc # "commit"
      PROVE  WantsSound'
  BY <1>1, <1>2, NoWants
<1>3. \A pc, e, n : Working(pc, e, n).pc = pc
  BY DEF Working
<1>4. \A e, n, i : Waiting(e, n, i).pc = "waiting"
  BY DEF Waiting, Working
<1>5. IdleWorker.pc = "idle"
  BY <1>3 DEF IdleWorker
<1>6. ASSUME NEW w \in Workers, NEW e \in Events, Deliver(w, e) PROVE WantsSound'
  <2>1. PICK X : X = Working("begin", e, 1)
    OBVIOUS
  <2>2. worker' = [worker EXCEPT ![w] = X] /\ X.pc # "commit"
    BY <1>3, <1>6, <2>1 DEF Deliver
  <2>. QED
    BY <1>2, <2>2
<1>7. ASSUME NEW w \in Workers, EvidenceExists(w) PROVE WantsSound'
  <2>1. PICK X : X = IF evidence[worker[w].event] # None THEN IdleWorker
                     ELSE Working("lock", worker[w].event, worker[w].attempt)
    OBVIOUS
  <2>2. X.pc # "commit"
    BY <1>3, <1>5, <2>1
  <2>. QED
    BY <1>2, <1>7, <2>1, <2>2 DEF EvidenceExists
<1>8. ASSUME NEW w \in Workers, NEW i \in Ids \cup {None}, i # None => IsActive(i),
             worker[w].pc \in {"lock", "waiting"}, UNCHANGED row,
             worker' = [worker EXCEPT ![w] = Decided(w, i)]
      PROVE  WantsSound'
  <2>1. PICK X : X = Decided(w, i)
    OBVIOUS
  <2>2. Wants(X)'
    BY <1>8, <2>1, DecidedWants
  <2>. QED
    BY <1>1, <1>8, <2>1, <2>2
<1>9. ASSUME NEW w \in Workers, LockActive(w) PROVE WantsSound'
  <2>1. worker[w].pc = "lock" /\ UNCHANGED row
    BY <1>9 DEF LockActive, tables
  <2>2. CASE worker' = [worker EXCEPT ![w] = Decided(w, None)]
    BY <1>8, <2>1, <2>2
  <2>3. CASE \E i \in ActiveOfKey(Key(SignalOf(w))) : worker' = [worker EXCEPT ![w] = Decided(w, i)]
    <3>1. PICK i \in ActiveOfKey(Key(SignalOf(w))) : worker' = [worker EXCEPT ![w] = Decided(w, i)]
      BY <2>3
    <3>2. i \in Ids /\ IsActive(i)
      BY <3>1 DEF ActiveOfKey
    <3>. QED
      BY <1>8, <2>1, <3>1, <3>2
  <2>4. CASE \E i : worker' = [worker EXCEPT ![w] = Waiting(worker[w].event, worker[w].attempt, i)]
    <3>1. PICK i : worker' = [worker EXCEPT ![w] = Waiting(worker[w].event, worker[w].attempt, i)]
      BY <2>4
    <3>2. PICK X : X = Waiting(worker[w].event, worker[w].attempt, i)
      OBVIOUS
    <3>. QED
      BY <1>2, <1>4, <3>1, <3>2
  <2>. QED
    BY <1>9, <2>2, <2>3, <2>4 DEF LockActive
<1>10. ASSUME NEW w \in Workers, LockGranted(w) PROVE WantsSound'
  <2>1. /\ worker[w].pc = "waiting" /\ UNCHANGED row /\ worker[w].active \in Ids
    BY <1>10 DEF LockGranted, tables, IInv, WorkersSound, Sound
  <2>2. \E i \in Ids \cup {None} : /\ i # None => IsActive(i)
                                   /\ worker' = [worker EXCEPT ![w] = Decided(w, i)]
    BY <1>10, <2>1 DEF LockGranted
  <2>. QED
    BY <1>8, <2>1, <2>2
<1>11. ASSUME NEW w \in Workers, NEW k \in Ids, Commit(w, k) PROVE WantsSound'
  <2>1. PICK X : worker' = [worker EXCEPT ![w] = X] /\ X.pc = "publish"
    <3>1. PICK change :
            worker' = [worker EXCEPT ![w] =
              [Working("publish", worker[w].event, worker[w].attempt) EXCEPT
                 !.id = k, !.change = change]]
      BY <1>11 DEF Commit
    <3>2. [Working("publish", worker[w].event, worker[w].attempt) EXCEPT
                 !.id = k, !.change = change].pc = "publish"
      BY DEF Working
    <3>. QED
      BY <3>1, <3>2
  <2>. QED
    BY <1>2, <2>1
<1>12. ASSUME NEW w \in Workers, LostRace(w) PROVE WantsSound'
  <2>1. PICK X : X = IF worker[w].attempt < MaxAttempts
                       THEN Working("begin", worker[w].event, worker[w].attempt + 1)
                       ELSE IdleWorker
    OBVIOUS
  <2>2. X.pc # "commit"
    BY <1>3, <1>5, <2>1
  <2>. QED
    BY <1>2, <1>12, <2>1, <2>2 DEF LostRace
<1>13. ASSUME NEW w \in Workers, worker' = [worker EXCEPT ![w] = IdleWorker] PROVE WantsSound'
  BY <1>2, <1>5, <1>13
<1>14. CASE UNCHANGED worker
  BY <1>0, <1>14, WantsKept DEF WantsSound
<1>15. ASSUME NEW w \in Workers, WorkerStep(w) \/ Crash(w) PROVE WantsSound'
  BY <1>7, <1>9, <1>10, <1>11, <1>12, <1>13, <1>15
  DEF WorkerStep, Crash, DeadlockDetected, Publish
<1>. QED
  BY <1>6, <1>14, <1>15 DEF Next, ClientStep, OperatorRequest, LoadIncident, ApplyTransition,
     TransitionRefused, vars

\* A link that follows the topology still does when its incidents have grown.
LEMMA LinkKept ==
  ASSUME RowsGrow, LinksFollowTopology, NEW i \in Ids, NEW j \in Ids, <<i, j>> \in links
  PROVE  row'[i] # NoRow /\ row'[j] # NoRow /\ Related(row'[i], row'[j])
<1>1. row[i] # NoRow /\ row[j] # NoRow /\ Related(row[i], row[j])
  BY DEF LinksFollowTopology, Related
<1>. QED
  BY <1>1, RelatedGrows DEF RowsGrow

\* Every step keeps the links sound.
LEMMA NextLinks == IInv /\ LinksSound /\ [Next]_vars => LinksFollowTopology'
<1>. SUFFICES ASSUME IInv, LinksSound, [Next]_vars, NEW i \in Ids, NEW j \in Ids,
                     <<i, j>> \in links'
              PROVE  row'[i] # NoRow /\ row'[j] # NoRow /\ Related(row'[i], row'[j])
  BY DEF LinksFollowTopology, Related
<1>0. RowsGrow
  BY NextRowsGrow
<1>1. CASE <<i, j>> \in links
  BY <1>0, <1>1, LinkKept DEF LinksSound
<1>2. ASSUME NEW w \in Workers, NEW k \in Ids, Commit(w, k), <<i, j>> \notin links
      PROVE  row'[i] # NoRow /\ row'[j] # NoRow /\ Related(row'[i], row'[j])
  <2>1. PICK q : q = worker[w]
    OBVIOUS
  <2>2. /\ q.pc = "commit" /\ row'[k] = Written(q) /\ Written(q) \in Rows
        /\ SignalOf(w) = Signal[q.event]
        /\ q.action = "APPEND" => k = q.active
        /\ q.action # "APPEND" => row[k] = NoRow
    BY <1>2, <2>1, CommitFacts
  <2>3. links' = links \cup {Edge(Written(q), k, n) : n \in q.want}
    BY <1>2, <2>1, <2>2 DEF Commit, Written
  <2>4. PICK n \in q.want : <<i, j>> = Edge(Written(q), k, n)
    BY <1>2, <2>3
  <2>5. /\ n \in Ids /\ row[n] # NoRow /\ n # q.active
        /\ Related(Written(q), row[n]) \/ Related(row[n], Written(q))
    BY <2>1, <2>2 DEF LinksSound, WantsSound, Wants, IInv, TypeOK, WorkerStates
  <2>6. /\ row'[k] # NoRow /\ row'[n] # NoRow
        /\ Grown(row[n], row'[n]) /\ Grown(Written(q), row'[k])
    BY <1>0, <2>2, <2>5, NoRowFacts, GrownRefl DEF RowsGrow
  <2>7. CASE row[n].service \in Dependencies(Written(q).service)
    <3>1. i = k /\ j = n
      BY <2>4, <2>7 DEF Edge
    <3>2. Related(Written(q), row[n])
      BY <2>5, <2>7 DEF Related, Overlap
    <3>. QED
      BY <2>6, <3>1, <3>2, RelatedGrows
  <2>8. CASE row[n].service \notin Dependencies(Written(q).service)
    <3>1. i = n /\ j = k
      BY <2>4, <2>8 DEF Edge
    <3>2. Related(row[n], Written(q))
      BY <2>5, <2>8 DEF Related
    <3>. QED
      BY <2>6, <3>1, <3>2, RelatedGrows
  <2>. QED
    BY <2>7, <2>8
<1>3. (\E c \in Clients : ApplyTransition(c)) \/ UNCHANGED tables => links' = links
  BY DEF ApplyTransition, tables
<1>. QED
  BY <1>1, <1>2, <1>3, TablesChange

\* Links run along the topology between incidents that were on fire together,
\* although a neighbour may have changed since it was read without a lock.
THEOREM TruthfulLinks == Spec => []LinksFollowTopology
<1>1. Init => LinksSound
  BY DEF Init, LinksSound, LinksFollowTopology, WantsSound, Wants, IdleWorker, Working
<1>2. IInv /\ LinksSound /\ [Next]_vars => LinksSound'
  BY NextLinks, NextWants DEF LinksSound
<1>3. LinksSound => LinksFollowTopology
  BY DEF LinksSound
<1>. QED
  BY <1>1, <1>2, <1>3, Inductive, PTL DEF Spec
=============================================================================
