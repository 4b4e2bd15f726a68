---------------------------- MODULE RecoveryProofs ----------------------------
(***************************************************************************)
(* What the recovery verifier promises, proved for any services, any       *)
(* verification settings (whatever the timeout and the interval), any      *)
(* recovery delays and any number of executions.                           *)
(*                                                                         *)
(* A verdict is about the simulated state it was given on, so the only     *)
(* invariant needed is that of the simulated services (SimSound): they     *)
(* run, have a replica, and no recovery began in the future.  The rest is  *)
(* about the operators: the probe tells a well service from a sick one     *)
(* (ProbeIsHonest), and the polls fill the window exactly (PollsFitWindow).*)
(***************************************************************************)
EXTENDS Recovery, WellFoundedInduction, TLAPS

-----------------------------------------------------------------------------
(* Arithmetic.                                                             *)

\* A set of natural numbers with a member has a least one.
LEMMA LeastMember ==
  ASSUME NEW T \in SUBSET Nat, T # {}
  PROVE  \E x \in T : \A y \in T : x <= y
<1>. DEFINE R == {ss \in Nat \X Nat : ss[1] < ss[2]}
<1>1. OpToRel(<, Nat) = R
  BY DEF OpToRel
<1>2. IsWellFoundedOn(R, Nat)
  BY <1>1, NatLessThanWellFounded
<1>3. \A x, y \in Nat : <<y, x>> \in R <=> y < x
  OBVIOUS
<1>. HIDE DEF R
<1>4. PICK x \in T : \A y \in T : ~ (<<y, x>> \in R)
  BY <1>2, WFMin
<1>5. \A y \in T : ~ (y < x)
  BY <1>3, <1>4
<1>. QED
  BY <1>5

\* Min picks the least member.
LEMMA MinFacts ==
  ASSUME NEW T \in SUBSET Nat, T # {}
  PROVE  Min(T) \in T /\ \A y \in T : Min(T) <= y
  BY LeastMember DEF Min

\* The number of polls: as many as intervals fit into the timeout, and one at
\* the start, so that the last one is within the window and the next one is not.
LEMMA PollsFitWindow ==
  ASSUME NEW config \in Configs
  PROVE  /\ MaxAttempts(config) \in Nat \ {0}
         /\ (MaxAttempts(config) - 1) * config.interval <= config.timeout
         /\ MaxAttempts(config) * config.interval > config.timeout
<1>. DEFINE t == config.timeout
            i == config.interval
            n == t \div i
<1>1. t \in Nat \ {0} /\ i \in Nat \ {0}
  BY RecoveryAssumption
<1>2. n \in Nat
  BY <1>1
<1>3. n * i <= t /\ t < (n + 1) * i
  BY <1>1
<1>4. MaxAttempts(config) = n + 1
  <2>. HIDE DEF n
  <2>1. Max({1, n + 1}) = n + 1
    BY <1>2 DEF Max
  <2>. QED
    BY <2>1 DEF MaxAttempts, n
<1>. QED
  BY <1>2, <1>3, <1>4

\* An earlier poll is at an earlier time.
LEMMA PollsInOrder ==
  ASSUME NEW i \in Nat, NEW a \in Nat, NEW b \in Nat, a <= b
  PROVE  a * i <= b * i
  OBVIOUS

-----------------------------------------------------------------------------
(* The simulated services.                                                 *)

\* What the probe relies on in a service's state.
States == [running : BOOLEAN, replicas : Nat \ {0}, revisions : Nat, restarts : Nat,
           flag : BOOLEAN, faulted : BOOLEAN, chronic : BOOLEAN,
           started : Nat \cup {Never}, delay : Nat]

StateSound(state) ==
    /\ state \in States
    /\ state.running
    /\ state.started # Never => state.started <= now

SimSound ==
    /\ now \in Nat
    /\ DOMAIN sim = Services
    /\ \A s \in Services : StateSound(sim[s])

\* Every action of the catalogue, and every fault, leaves the services so.
LEMMA NextSim == SimSound /\ [Next]_vars => SimSound'
<1>. SUFFICES ASSUME SimSound, [Next]_vars PROVE SimSound'
  OBVIOUS
<1>0. ASSUME NEW s \in Services, NEW state, StateSound(state),
             sim' = [sim EXCEPT ![s] = state], now' = now
      PROVE  SimSound'
  BY <1>0 DEF SimSound, StateSound
<1>1. CASE Tick
  BY <1>1 DEF Tick, SimSound, StateSound, States
<1>2. CASE Restart
  <2>1. StateSound(FreshService)
    BY DEF FreshService, StateSound, States
  <2>. QED
    BY <1>2, <2>1 DEF Restart, SimSound, StateSound
<1>3. ASSUME NEW s \in Services, NEW delay \in Delays \cup {Never}, NEW chronic \in BOOLEAN,
             InjectFault(s, delay, chronic)
      PROVE  SimSound'
  <2>0. StateSound(sim[s])
    BY DEF SimSound
  <2>. DEFINE state == Faulted(sim[s], delay, chronic)
  <2>1. StateSound(state)
    <3>1. sim[s] \in States /\ (IF delay = Never THEN sim[s].delay ELSE delay) \in Nat
      BY <2>0, RecoveryAssumption DEF StateSound, States
    <3>2. state \in States
      BY <3>1 DEF States, Faulted
    <3>3. state.running /\ state.started = Never
      BY <3>1 DEF States, Faulted
    <3>. QED
      BY <3>2, <3>3 DEF StateSound
  <2>2. sim' = [sim EXCEPT ![s] = state] /\ now' = now
    BY <1>3 DEF InjectFault, SimSound
  <2>. HIDE DEF state
  <2>. QED
    BY <1>0, <2>1, <2>2
<1>4. ASSUME NEW s \in Services, NEW action \in Actions, NEW replicas \in ReplicaChoices,
             NEW dry \in BOOLEAN, Execute(s, action, replicas, dry)
      PROVE  SimSound'
  <2>. DEFINE acted == Apply(action, sim[s], replicas)
              state == Remediated(acted)
  <2>0. StateSound(sim[s]) /\ now \in Nat
    BY DEF SimSound
  <2>1. StateSound(acted)
    <3>1. CASE action = "RESTART_SERVICE"
      <4>1. acted = [sim[s] EXCEPT !.restarts = @ + 1, !.running = TRUE]
        BY <3>1 DEF Apply
      <4>. HIDE DEF acted
      <4>2. sim[s] \in States
        BY <2>0 DEF StateSound
      <4>2a. PICK n \in Nat : n = sim[s].restarts + 1
        BY <4>2 DEF States
      <4>2b. acted = [sim[s] EXCEPT !.restarts = n, !.running = TRUE]
        BY <4>1, <4>2a
      <4>3. acted \in States
        BY <4>2, <4>2b DEF States
      <4>4. acted.running
        BY <4>1, <4>2 DEF States
      <4>5. acted.started = sim[s].started
        BY <4>1, <4>2 DEF States
      <4>. QED
        BY <2>0, <4>3, <4>4, <4>5 DEF StateSound
    <3>2. CASE action = "SCALE_SERVICE"
      BY <2>0, <3>2 DEF Apply, StateSound, States, ReplicaChoices
    <3>3. CASE action = "ROLL_BACK_DEPLOYMENT"
      BY <2>0, <3>3 DEF Apply, StateSound, States
    <3>4. CASE action = "DISABLE_FEATURE_FLAG"
      BY <2>0, <3>4 DEF Apply, StateSound, States
    <3>. QED
      BY <3>1, <3>2, <3>3, <3>4 DEF Actions
  <2>. HIDE DEF acted
  <2>2. StateSound(state)
    BY <2>0, <2>1 DEF Remediated, StateSound, States
  <2>3. now' = now /\ (sim' = sim \/ sim' = [sim EXCEPT ![s] = state])
    BY <1>4 DEF Execute, SimSound, acted
  <2>. HIDE DEF state
  <2>. QED
    BY <1>0, <2>2, <2>3 DEF SimSound, StateSound
<1>5. ASSUME NEW s \in Services, NEW config \in Configs, NEW raising, Verify(s, config, raising)
      PROVE  SimSound'
  BY <1>5 DEF Verify, SimSound, StateSound
<1>6. CASE UNCHANGED vars
  BY <1>6 DEF vars, SimSound, StateSound
<1>. QED
  BY <1>1, <1>2, <1>3, <1>4, <1>5, <1>6 DEF Next

-----------------------------------------------------------------------------
(* The probe.                                                              *)

WellAt(state, t) == WellFrom(state) # Never /\ t >= WellFrom(state)

\* A probe that passes every check, readiness included, is of a service that is
\* well, and the probe of a well service passes every check, whatever the
\* converging error rate and latency look like meanwhile.
LEMMA ProbeIsHonest ==
  ASSUME now \in Nat, NEW state, StateSound(state), NEW config \in Configs, NEW t \in Nat, t >= now
  PROVE  /\ config.require_ready /\ Evaluate(Probe(state, t), config) => WellAt(state, t)
         /\ WellAt(state, t) => Evaluate(Probe(state, t), config)
<1>. DEFINE elapsed == IF t > state.started THEN t - state.started ELSE 0
<1>1. /\ state.running /\ state.replicas \in Nat /\ ~ (state.replicas < 1)
      /\ state.chronic \in BOOLEAN /\ state.faulted \in BOOLEAN /\ state.delay \in Nat
      /\ state.started # Never => state.started \in Nat /\ state.started <= now
      /\ Never \notin Int
  BY RecoveryAssumption DEF StateSound, States
<1>5. CASE state.chronic
  BY <1>1, <1>5 DEF Probe, Snap, Evaluate, WellAt, WellFrom
<1>6. CASE ~ state.chronic /\ state.started = Never /\ state.faulted
  BY <1>1, <1>6 DEF Probe, Snap, Evaluate, WellAt, WellFrom
<1>7. CASE ~ state.chronic /\ state.started = Never /\ ~ state.faulted
  BY <1>1, <1>7 DEF Probe, Snap, Evaluate, WellAt, WellFrom, MaxErrorRate, MaxLatency
<1>8. CASE ~ state.chronic /\ state.started # Never
  <2>1. /\ WellFrom(state) = state.started + state.delay
        /\ elapsed \in Nat /\ elapsed = t - state.started
    BY <1>1, <1>8 DEF WellFrom
  <2>2. WellAt(state, t) <=> elapsed >= state.delay
    BY <1>1, <1>8, <2>1 DEF WellAt
  <2>3. CASE elapsed >= state.delay
    BY <1>1, <1>8, <2>2, <2>3 DEF Probe, Snap, Evaluate, MaxErrorRate, MaxLatency
  <2>4. CASE ~ (elapsed >= state.delay)
    BY <1>1, <1>8, <2>2, <2>4 DEF Probe, Snap, Evaluate
  <2>. QED
    BY <2>3, <2>4
<1>. QED
  BY <1>1, <1>5, <1>6, <1>7, <1>8

-----------------------------------------------------------------------------
(* The verdict.                                                            *)

\* A verdict given on the simulated state holds: no false recovery, no missed
\* one, and the window is respected.
LEMMA VerifyVerdict ==
  ASSUME SimSound, NEW s \in Services, NEW config \in Configs, NEW raising,
         Verify(s, config, raising)
  PROVE  RecoveredMeansWell' /\ WindowIsExact'
<1>. DEFINE M == MaxAttempts(config)
            i == config.interval
            passed == {k \in 1 .. M : Passes(s, config, raising, k)}
            last == IF passed = {} THEN M ELSE Min(passed)
            O == [status    |-> IF passed = {} THEN "RECOVERY_FAILED" ELSE "RECOVERED",
                  attempts  |-> last,
                  started   |-> now,
                  completed |-> PollAt(config, last),
                  config    |-> config,
                  raising   |-> raising,
                  about     |-> sim[s]]
<1>1. outcome' = O
  BY DEF Verify
<1>2. /\ O.attempts = last /\ O.started = now /\ O.completed = PollAt(config, last)
      /\ O.config = config /\ O.raising = raising /\ O.about = sim[s]
      /\ O.status = IF passed = {} THEN "RECOVERY_FAILED" ELSE "RECOVERED"
  <2>. HIDE DEF last, passed
  <2>. QED
    OBVIOUS
<1>. HIDE DEF O
<1>3. /\ M \in Nat \ {0} /\ i \in Nat \ {0} /\ config.timeout \in Nat
      /\ (M - 1) * i <= config.timeout /\ M * i > config.timeout
      /\ now \in Nat /\ StateSound(sim[s])
  BY PollsFitWindow, RecoveryAssumption DEF SimSound
<1>. HIDE DEF M
<1>4. last \in 1 .. M /\ (passed # {} => last \in passed /\ \A k \in passed : last <= k)
  <2>1. CASE passed = {}
    BY <1>3, <2>1
  <2>2. CASE passed # {}
    <3>1. passed \in SUBSET Nat /\ passed \in SUBSET (1 .. M)
      BY <1>3
    <3>2. Min(passed) \in passed /\ \A k \in passed : Min(passed) <= k
      <4>. HIDE DEF passed
      <4>. QED
        BY <2>2, <3>1, MinFacts
    <3>. QED
      BY <2>2, <3>1, <3>2
  <2>. QED
    BY <2>1, <2>2
<1>. HIDE DEF last
<1>5. ASSUME NEW k \in 1 .. M
      PROVE  /\ PollAt(config, k) = now + (k - 1) * i
             /\ PollAt(config, k) \in Nat /\ PollAt(config, k) >= now
             /\ (k - 1) * i \in Nat /\ (k - 1) * i <= (M - 1) * i
  <2>1. k - 1 \in Nat /\ M - 1 \in Nat /\ k - 1 <= M - 1
    BY <1>3, <1>5
  <2>2. (k - 1) * i \in Nat /\ (k - 1) * i <= (M - 1) * i
    BY <1>3, <2>1, PollsInOrder
  <2>. QED
    BY <1>3, <2>2 DEF PollAt
<1>6. ASSUME NEW k \in 1 .. M
      PROVE  /\ k \in passed /\ config.require_ready => WellAt(sim[s], PollAt(config, k))
             /\ WellAt(sim[s], PollAt(config, k)) /\ k \notin passed => k \in raising
  <2>1. /\ PollAt(config, k) \in Nat /\ PollAt(config, k) >= now
    BY <1>5
  <2>2. /\ config.require_ready /\ Evaluate(Probe(sim[s], PollAt(config, k)), config)
             => WellAt(sim[s], PollAt(config, k))
        /\ WellAt(sim[s], PollAt(config, k)) => Evaluate(Probe(sim[s], PollAt(config, k)), config)
    BY <1>3, <2>1, ProbeIsHonest
  <2>. QED
    BY <2>2 DEF Passes
<1>7. RecoveredMeansWell'
  <2>. SUFFICES ASSUME O.status = "RECOVERED", config.require_ready
                PROVE  WellAt(sim[s], PollAt(config, last))
    BY <1>1, <1>2 DEF RecoveredMeansWell, WellAt, WellFrom
  <2>1. passed # {}
    BY <1>2
  <2>. HIDE DEF passed
  <2>. QED
    BY <1>4, <1>6, <2>1
<1>8. WindowIsExact'
  <2>1. PollAt(config, last) = now + (last - 1) * i /\ PollAt(config, last) <= now + config.timeout
    BY <1>3, <1>4, <1>5
  <2>2. ASSUME NEW k \in 1 .. last - 1, WellAt(sim[s], now + (k - 1) * i)
        PROVE  k \in raising
    <3>1. k \in 1 .. M /\ k < last
      BY <1>3, <1>4
    <3>2. k \notin passed
      <4>. HIDE DEF passed
      <4>. QED
        BY <1>4, <3>1
    <3>3. PollAt(config, k) = now + (k - 1) * i
      BY <1>5, <3>1
    <3>4. WellAt(sim[s], PollAt(config, k))
      BY <2>2, <3>3
    <3>. HIDE DEF passed
    <3>. QED
      BY <1>6, <3>1, <3>2, <3>4
  <2>3. ASSUME O.status = "RECOVERY_FAILED"
        PROVE  /\ PollAt(config, last) + i > now + config.timeout
               /\ WellAt(sim[s], PollAt(config, last)) => last \in raising
    <3>1. passed = {} /\ last = M
      BY <1>2, <2>3 DEF last
    <3>2. (M - 1) * i + i = M * i
      BY <1>3
    <3>3. (M - 1) * i \in Nat /\ M * i \in Nat
      BY <1>3, <1>4, <1>5, <3>1
    <3>4. PollAt(config, last) + i > now + config.timeout
      BY <1>3, <2>1, <3>1, <3>2, <3>3
    <3>5. last \notin passed
      BY <3>1
    <3>. HIDE DEF passed
    <3>. QED
      BY <1>4, <1>6, <3>4, <3>5
  <2>. QED
    BY <1>1, <1>2, <2>1, <2>2, <2>3 DEF WindowIsExact, WellAt, WellFrom
<1>. QED
  BY <1>7, <1>8

\* Every other step takes the verdict back.
LEMMA NextVerdict ==
  SimSound /\ RecoveredMeansWell /\ WindowIsExact /\ [Next]_vars
    => RecoveredMeansWell' /\ WindowIsExact'
<1>. SUFFICES ASSUME SimSound, RecoveredMeansWell, WindowIsExact, [Next]_vars
              PROVE  RecoveredMeansWell' /\ WindowIsExact'
  OBVIOUS
<1>1. CASE outcome' = NoOutcome
  BY <1>1 DEF NoOutcome, RecoveredMeansWell, WindowIsExact
<1>2. CASE UNCHANGED vars
  BY <1>2 DEF vars, RecoveredMeansWell, WindowIsExact, WellFrom
<1>3. ASSUME NEW s \in Services, NEW config \in Configs, NEW raising, Verify(s, config, raising)
      PROVE  RecoveredMeansWell' /\ WindowIsExact'
  BY <1>3, VerifyVerdict
<1>. QED
  BY <1>1, <1>2, <1>3 DEF Next, Tick, Restart, InjectFault, Execute

\* The invariant holds in every reachable state.
LEMMA Inductive == Spec => [](SimSound /\ RecoveredMeansWell /\ WindowIsExact)
<1>1. Init => SimSound /\ RecoveredMeansWell /\ WindowIsExact
  <2>. SUFFICES ASSUME Init PROVE SimSound /\ RecoveredMeansWell /\ WindowIsExact
    OBVIOUS
  <2>1. StateSound(FreshService)
    BY DEF FreshService, StateSound, States
  <2>. QED
    BY <2>1 DEF Init, SimSound, NoOutcome, RecoveredMeansWell, WindowIsExact
<1>. QED
  BY <1>1, NextSim, NextVerdict, PTL DEF Spec

\* No false recovery (verifier.py): a service declared RECOVERED is well at the
\* moment the verdict names.
THEOREM NoFalseRecovery == Spec => []RecoveredMeansWell
  BY Inductive, PTL

\* The verifier polls exactly its window, and a verdict against the service means
\* that no poll that worked saw it well.
THEOREM ExactWindow == Spec => []WindowIsExact
  BY Inductive, PTL

-----------------------------------------------------------------------------
(* Types.                                                                  *)

\* A simulated service after at most n executions.
TypedStates(n) ==
    [running : {TRUE}, replicas : ReplicaChoices \cup {3}, revisions : 0 .. n, restarts : 0 .. n,
     flag : BOOLEAN, faulted : BOOLEAN, chronic : BOOLEAN,
     started : (0 .. MaxNow) \cup {Never}, delay : Delays \cup {0}]

TypeInv ==
    /\ now \in 0 .. MaxNow /\ executions \in 0 .. MaxExecutions
    /\ sim \in [Services -> TypedStates(executions)]
    /\ execution \in [service : Services \cup {Never}, dry : BOOLEAN]
    /\ outcome # NoOutcome => outcome.status \in {"RECOVERED", "RECOVERY_FAILED"}

\* More executions do not hurt.
LEMMA TypedStatesGrow ==
  ASSUME NEW n \in Nat, NEW state \in TypedStates(n)
  PROVE  state \in TypedStates(n + 1)
<1>1. \A k \in 0 .. n : k \in 0 .. n + 1
  OBVIOUS
<1>. QED
  BY <1>1 DEF TypedStates

\* What an action of the catalogue makes of a service.
LEMMA ApplyTyped ==
  ASSUME NEW n \in Nat, NEW state \in TypedStates(n), NEW action \in Actions,
         NEW replicas \in ReplicaChoices
  PROVE  Apply(action, state, replicas) \in TypedStates(n + 1)
<1>1. state \in TypedStates(n + 1)
  BY TypedStatesGrow
<1>2. PICK r \in 0 .. n + 1, v \in 0 .. n + 1 : r = state.restarts + 1 /\ v = state.revisions + 1
  <2>1. state.restarts \in 0 .. n /\ state.revisions \in 0 .. n
    BY DEF TypedStates
  <2>. QED
    BY <2>1
<1>3. CASE action = "RESTART_SERVICE"
  <2>1. Apply(action, state, replicas) = [state EXCEPT !.restarts = r, !.running = TRUE]
    BY <1>2, <1>3 DEF Apply
  <2>. QED
    BY <1>1, <2>1 DEF TypedStates
<1>4. CASE action = "SCALE_SERVICE"
  BY <1>1, <1>4 DEF Apply, TypedStates
<1>5. CASE action = "ROLL_BACK_DEPLOYMENT"
  <2>1. Apply(action, state, replicas) = [state EXCEPT !.revisions = v]
    BY <1>2, <1>5 DEF Apply
  <2>. QED
    BY <1>1, <2>1 DEF TypedStates
<1>6. CASE action = "DISABLE_FEATURE_FLAG"
  BY <1>1, <1>6 DEF Apply, TypedStates
<1>. QED
  BY <1>3, <1>4, <1>5, <1>6 DEF Actions

\* Every step keeps the types.
LEMMA TypesStep == TypeInv /\ [Next]_vars => TypeInv'
<1>. SUFFICES ASSUME TypeInv, [Next]_vars PROVE TypeInv'
  OBVIOUS
<1>1. CASE Tick
  <2>1. now' \in 0 .. MaxNow
    BY <1>1, RecoveryAssumption DEF Tick, TypeInv
  <2>. QED
    BY <1>1, <2>1 DEF Tick, TypeInv
<1>2. CASE Restart
  <2>1. FreshService \in TypedStates(executions)
    BY DEF FreshService, TypedStates, TypeInv
  <2>. QED
    BY <1>2, <2>1 DEF Restart, TypeInv
<1>3. ASSUME NEW s \in Services, NEW delay \in Delays \cup {Never}, NEW chronic \in BOOLEAN,
             InjectFault(s, delay, chronic)
      PROVE  TypeInv'
  <2>1. sim[s] \in TypedStates(executions)
    BY DEF TypeInv
  <2>2. (IF delay = Never THEN sim[s].delay ELSE delay) \in Delays \cup {0}
    BY <2>1 DEF TypedStates
  <2>3. Faulted(sim[s], delay, chronic) \in TypedStates(executions)
    BY <2>1, <2>2 DEF TypedStates, Faulted
  <2>4. sim' = [sim EXCEPT ![s] = Faulted(sim[s], delay, chronic)]
    BY <1>3 DEF InjectFault, TypeInv
  <2>5. sim' \in [Services -> TypedStates(executions)]
    BY <2>3, <2>4 DEF TypeInv
  <2>. QED
    BY <1>3, <2>5 DEF InjectFault, TypeInv
<1>4. ASSUME NEW s \in Services, NEW action \in Actions, NEW replicas \in ReplicaChoices,
             NEW dry \in BOOLEAN, Execute(s, action, replicas, dry)
      PROVE  TypeInv'
  <2>1. PICK n \in Nat : n = executions /\ n + 1 \in 0 .. MaxExecutions
    BY <1>4, RecoveryAssumption DEF Execute, TypeInv
  <2>2. sim \in [Services -> TypedStates(n)]
    BY <2>1 DEF TypeInv
  <2>3. sim \in [Services -> TypedStates(n + 1)]
    BY <2>2, TypedStatesGrow
  <2>4. PICK acted \in TypedStates(n + 1) : acted = Apply(action, sim[s], replicas)
    BY <2>2, ApplyTyped
  <2>5. Remediated(acted) \in TypedStates(n + 1)
    BY <2>4 DEF Remediated, TypedStates, TypeInv
  <2>6. sim' = sim \/ sim' = [sim EXCEPT ![s] = Remediated(acted)]
    BY <1>4, <2>2, <2>4 DEF Execute
  <2>7. sim' \in [Services -> TypedStates(n + 1)]
    BY <2>3, <2>5, <2>6
  <2>8. executions' = n + 1
    BY <1>4, <2>1 DEF Execute
  <2>9. execution' \in [service : Services \cup {Never}, dry : BOOLEAN]
    BY <1>4 DEF Execute
  <2>. QED
    BY <1>4, <2>1, <2>7, <2>8, <2>9 DEF Execute, TypeInv
<1>5. ASSUME NEW s \in Services, NEW config \in Configs, NEW raising, Verify(s, config, raising)
      PROVE  TypeInv'
  <2>1. outcome'.status \in {"RECOVERED", "RECOVERY_FAILED"}
    BY <1>5 DEF Verify
  <2>. QED
    BY <1>5, <2>1 DEF Verify, TypeInv
<1>6. CASE UNCHANGED vars
  BY <1>6 DEF vars, TypeInv
<1>. QED
  BY <1>1, <1>2, <1>3, <1>4, <1>5, <1>6 DEF Next

\* The simulated services keep their types, however often they are faulted,
\* remediated and restarted (executor/simulation.py): they run with one of the
\* replica counts that can be asked for, and a recovery has one of the delays a
\* scenario gave.
THEOREM TypeCorrectness == Spec => []TypeOK
<1>1. Init => TypeInv
  <2>1. FreshService \in TypedStates(0)
    BY DEF FreshService, TypedStates
  <2>. QED
    BY <2>1, RecoveryAssumption DEF Init, TypeInv, NoExecution
<1>2. TypeInv => TypeOK
  <2>. SUFFICES ASSUME TypeInv PROVE TypeOK
    OBVIOUS
  <2>1. TypedStates(executions) \subseteq TypedStates(MaxExecutions)
    <3>1. 0 .. executions \subseteq 0 .. MaxExecutions
      BY RecoveryAssumption DEF TypeInv
    <3>. QED
      BY <3>1 DEF TypedStates
  <2>2. sim \in [Services -> TypedStates(MaxExecutions)]
    BY <2>1 DEF TypeInv
  <2>. QED
    BY <2>2 DEF TypeInv, TypeOK, TypedStates
<1>. QED
  BY <1>1, <1>2, TypesStep, PTL DEF Spec
=============================================================================
