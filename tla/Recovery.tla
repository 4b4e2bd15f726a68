------------------------------- MODULE Recovery -------------------------------
(***************************************************************************)
(* What happens below the remediation workflow: the local simulation       *)
(* executor changes the simulated services, and the recovery verifier      *)
(* polls their health and gives a verdict.                                 *)
(*                                                                         *)
(* The verifier polls on a clock of its own: its sleeper does not sleep,   *)
(* so a verification is one step that looks ahead in time.  Error rates    *)
(* are in 1/10000, latencies in ms, times in seconds.                      *)
(***************************************************************************)
EXTENDS Integers, FiniteSetsExt

CONSTANTS
    Services,
    Configs,          \* verification settings: timeout, interval, require_ready
    Delays,           \* recover_after values a scenario injects
    MaxNow,           \* bounds the clock
    MaxExecutions,    \* bounds the executions
    Never             \* a time that has not come

ASSUME RecoveryAssumption ==
    /\ Configs \subseteq [timeout : Nat \ {0}, interval : Nat \ {0}, require_ready : BOOLEAN]
    /\ Delays \subseteq Nat
    /\ MaxNow \in Nat /\ MaxExecutions \in Nat
    /\ Never \notin Int

VARIABLES
    now,
    sim,              \* SimulationState: service -> ServiceSimState
    executions,       \* how many execute calls were made
    execution,        \* the last ExecutionResult
    outcome           \* the RecoveryOutcome of the step just made, with what it was about

vars == <<now, sim, executions, execution, outcome>>

Actions == {"RESTART_SERVICE", "SCALE_SERVICE", "ROLL_BACK_DEPLOYMENT", "DISABLE_FEATURE_FLAG"}
ReplicaChoices == {1, 5}

\* running is never cleared: no action of the catalogue stops a service.
FreshService ==
    [running |-> TRUE, replicas |-> 3, revisions |-> 0, restarts |-> 0, flag |-> TRUE,
     faulted |-> FALSE, chronic |-> FALSE, started |-> Never, delay |-> 0]

NoExecution == [service |-> Never, dry |-> FALSE]
NoOutcome == [status |-> "NONE"]

Init ==
    /\ now = 0
    /\ sim = [s \in Services |-> FreshService]
    /\ executions = 0
    /\ execution = NoExecution
    /\ outcome = NoOutcome

-----------------------------------------------------------------------------
(* The executor.                                                           *)

\* _apply: the effect of each action of the catalogue.
Apply(action, state, replicas) ==
    CASE action = "RESTART_SERVICE" ->
           [state EXCEPT !.restarts = @ + 1, !.running = TRUE]
      [] action = "SCALE_SERVICE" -> [state EXCEPT !.replicas = replicas]
      [] action = "ROLL_BACK_DEPLOYMENT" -> [state EXCEPT !.revisions = @ + 1]
      [] action = "DISABLE_FEATURE_FLAG" -> [state EXCEPT !.flag = FALSE]

\* mark_remediated: the simulated recovery begins.
Remediated(state) == [state EXCEPT !.started = now]

\* execute: a dry run works on a copy of the whole state and drops it.
Execute(s, action, replicas, dry) ==
    /\ executions < MaxExecutions
    /\ executions' = executions + 1
    /\ sim' = IF dry THEN sim
              ELSE [sim EXCEPT ![s] = Remediated(Apply(action, @, replicas))]
    /\ execution' = [service |-> s, dry |-> dry]
    /\ outcome' = NoOutcome
    /\ UNCHANGED now

\* inject_fault, the hook of scenarios and tests; without recover_after the
\* delay of an earlier fault stays.
Faulted(state, delay, chronic) ==
    [state EXCEPT !.faulted = TRUE, !.running = TRUE, !.chronic = chronic, !.started = Never,
                  !.delay = IF delay = Never THEN @ ELSE delay]

InjectFault(s, delay, chronic) ==
    /\ sim' = [sim EXCEPT ![s] = Faulted(@, delay, chronic)]
    /\ outcome' = NoOutcome
    /\ UNCHANGED <<now, executions, execution>>

-----------------------------------------------------------------------------
(* The health probe.                                                       *)

Snap(running, ready, error_rate, latency) ==
    [running |-> running, ready |-> ready, error_rate |-> error_rate, latency |-> latency]

\* probe: not running, chronic, untreated, nominal, recovered, or converging in
\* proportion to the time since the remediation.
Probe(state, at) ==
    LET elapsed == IF at > state.started THEN at - state.started ELSE 0
        missing == state.delay - elapsed
    IN  IF ~ state.running \/ state.replicas < 1 THEN Snap(state.running, FALSE, 10000, 8000)
        ELSE IF state.chronic THEN Snap(TRUE, FALSE, 3700, 2100)
        ELSE IF state.started = Never THEN
               IF state.faulted THEN Snap(TRUE, FALSE, 4200, 2600) ELSE Snap(TRUE, TRUE, 20, 110)
        ELSE IF elapsed >= state.delay THEN Snap(TRUE, TRUE, 30, 135)
        ELSE Snap(TRUE, FALSE, (3000 * missing) \div state.delay + 100,
                               (1600 * missing) \div state.delay + 150)

-----------------------------------------------------------------------------
(* The verifier.                                                           *)

MaxErrorRate == 500
MaxLatency == 750

\* Mutant of MaxAttempts: the poll at the start is not counted.
MutantMaxAttemptsNoFirst(config) == Max({1, config.timeout \div config.interval})

MaxAttempts(config) == Max({1, config.timeout \div config.interval + 1})

\* Mutant of Evaluate: readiness is not asked for.
MutantEvaluateNotReady(snapshot, config) ==
    snapshot.running /\ snapshot.error_rate <= MaxErrorRate /\ snapshot.latency <= MaxLatency

\* _evaluate: the verifier's own thresholds.
Evaluate(snapshot, config) ==
    /\ snapshot.running
    /\ snapshot.error_rate <= MaxErrorRate
    /\ snapshot.latency <= MaxLatency
    /\ config.require_ready => snapshot.ready

PollAt(config, k) == now + (k - 1) * config.interval

\* _observe: a probe that raises is a failed poll.
Passes(s, config, raising, k) ==
    k \notin raising /\ Evaluate(Probe(sim[s], PollAt(config, k)), config)

\* verify: the first poll at which every check passes, or the last one.
Verify(s, config, raising) ==
    LET polls  == 1 .. MaxAttempts(config)
        passed == {k \in polls : Passes(s, config, raising, k)}
        last   == IF passed = {} THEN MaxAttempts(config) ELSE Min(passed)
    IN  /\ execution.service = s /\ ~ execution.dry
        /\ outcome' = [status    |-> IF passed = {} THEN "RECOVERY_FAILED" ELSE "RECOVERED",
                       attempts  |-> last,
                       started   |-> now,
                       completed |-> PollAt(config, last),
                       config    |-> config,
                       raising   |-> raising,
                       about     |-> sim[s]]
        /\ UNCHANGED <<now, sim, executions, execution>>

Tick ==
    /\ now < MaxNow
    /\ now' = now + 1
    /\ outcome' = NoOutcome
    /\ UNCHANGED <<sim, executions, execution>>

\* The process restarts: the simulated services are as new.
Restart ==
    /\ sim' = [s \in Services |-> FreshService]
    /\ outcome' = NoOutcome
    /\ UNCHANGED <<now, executions, execution>>

Next ==
    \/ Tick \/ Restart
    \/ \E s \in Services, delay \in Delays \cup {Never}, chronic \in BOOLEAN :
         InjectFault(s, delay, chronic)
    \/ \E s \in Services, action \in Actions, replicas \in ReplicaChoices, dry \in BOOLEAN :
         Execute(s, action, replicas, dry)
    \/ \E s \in Services, config \in Configs :
         \E raising \in {{}, {1}, 1 .. MaxAttempts(config)} : Verify(s, config, raising)

Spec == Init /\ [][Next]_vars

-----------------------------------------------------------------------------
(* Properties.                                                             *)

Times == Int \cup {Never}

\* The simulated services, the clock and the verdict.
TypeOK ==
    /\ now \in 0 .. MaxNow /\ executions \in 0 .. MaxExecutions
    /\ sim \in [Services -> [running : {TRUE}, replicas : ReplicaChoices \cup {3},
                             revisions : 0 .. MaxExecutions, restarts : 0 .. MaxExecutions,
                             flag : BOOLEAN, faulted : BOOLEAN, chronic : BOOLEAN,
                             started : (0 .. MaxNow) \cup {Never}, delay : Delays \cup {0}]]
    /\ execution \in [service : Services \cup {Never}, dry : BOOLEAN]
    /\ outcome # NoOutcome => outcome.status \in {"RECOVERED", "RECOVERY_FAILED"}

\* When the service really is well again, if no fault comes in between.
WellFrom(state) ==
    IF state.chronic \/ (state.faulted /\ state.started = Never) THEN Never
    ELSE IF state.started = Never THEN 0 ELSE state.started + state.delay

\* No false recovery (verifier.py): a service declared RECOVERED is well at the
\* moment the verdict names, although error rate and latency pass their
\* thresholds before the service is ready again.
RecoveredMeansWell ==
    outcome.status = "RECOVERED" /\ outcome.config.require_ready =>
        /\ WellFrom(outcome.about) # Never
        /\ outcome.completed >= WellFrom(outcome.about)

\* No recovery is missed and the window is respected, also when the interval
\* does not divide the timeout or exceeds it: a verdict against the service
\* means that no poll that worked saw it well up to the end of the window, and
\* a verdict for it is given at the first such poll.
WindowIsExact ==
    outcome # NoOutcome =>
        LET c == outcome.config
            well(t) == WellFrom(outcome.about) # Never /\ t >= WellFrom(outcome.about)
            poll(k) == outcome.started + (k - 1) * c.interval
        IN  /\ outcome.completed = poll(outcome.attempts)
            /\ outcome.completed <= outcome.started + c.timeout
            /\ \A k \in 1 .. outcome.attempts - 1 : well(poll(k)) => k \in outcome.raising
            /\ outcome.status = "RECOVERY_FAILED" =>
                 /\ outcome.completed + c.interval > outcome.started + c.timeout
                 /\ well(outcome.completed) => outcome.attempts \in outcome.raising

=============================================================================
