---------------------------- MODULE ModelRegistry ----------------------------
(***************************************************************************)
(* The life of detector models: retraining jobs, the promotion command and *)
(* the drift script work on one MLflow registry, from which the detector   *)
(* loads its model.                                                        *)
(*                                                                         *)
(* Every call to the registry is a step of its own; between two calls      *)
(* other jobs run, and a job may die.  The registry keeps model versions,  *)
(* each with the metrics and the drift baseline of its run, and aliases.   *)
(***************************************************************************)
EXTENDS Training

CONSTANTS
    Jobs,             \* the slots in which jobs run
    Catalogue,        \* the processed datasets jobs train on
    Studied,          \* more datasets, for a single job without a registry
    MaxVersions,      \* bounds the registered versions
    MaxStarts,        \* bounds the jobs
    Required          \* MLFLOW_REQUIRED

ASSUME RegistryAssumption ==
    /\ MaxVersions \in Nat /\ MaxStarts \in Nat \ {0}
    /\ Required \in BOOLEAN
    /\ Catalogue \cup Studied \subseteq Seq([score : Int, y : BOOLEAN])

VARIABLES
    datasets,         \* the processed datasets there are
    reachable,        \* whether the MLflow store can be used at all
    versions,         \* the model versions, in order of registration
    aliases,          \* champion, candidate and previous: a version or None
    champions,        \* the versions that have been champion
    job,              \* the jobs
    starts,
    det               \* the detector's model

vars == <<datasets, reachable, versions, aliases, champions, job, starts, det>>

AliasNames == {"champion", "candidate", "previous"}

\* A job: what it trained, the version it works on, the champion it saw, and
\* what follows a bootstrap.
Idle == [pc |-> "idle", promote |-> FALSE, then |-> None, data |-> None, threshold |-> None,
         metrics |-> None, baseline |-> None, version |-> None, old |-> None]

NoModel == [pc |-> "down", bundle |-> None, source |-> None]

\* Without a reachable store one job is enough: it can only train.
Init ==
    /\ \/ /\ datasets = Catalogue /\ reachable = TRUE
          /\ starts = 0
       \/ /\ \E rows \in Studied : datasets = {rows}
          /\ reachable = FALSE
          /\ starts = MaxStarts - 1
    /\ versions = <<>>
    /\ aliases = [a \in AliasNames |-> None]
    /\ champions = {}
    /\ job = [j \in Jobs |-> Idle]
    /\ det = NoModel

World == <<datasets, reachable>>
Registry == <<World, versions, aliases, champions>>

Continue(j, record) == job' = [job EXCEPT ![j] = record]
Ended(j) == Continue(j, Idle)

-----------------------------------------------------------------------------
(* Jobs.                                                                   *)

\* A command is given: retrain, with or without promotion, or promote a
\* registered version, or the drift script.
Start(j) ==
    /\ job[j].pc = "idle" /\ starts < MaxStarts
    /\ starts' = starts + 1
    /\ \/ \E promote \in BOOLEAN : Continue(j, [Idle EXCEPT !.pc = "load", !.promote = promote])
       \/ \E v \in DOMAIN versions :
             Continue(j, [Idle EXCEPT !.pc = "gate", !.promote = TRUE, !.version = v,
                                      !.metrics = versions[v].metrics])
       \/ Continue(j, [Idle EXCEPT !.pc = "drift"])
    /\ UNCHANGED <<Registry, det>>

\* A call to the registry raises, or the process is killed.
Dies(j) ==
    /\ job[j].pc # "idle"
    /\ Ended(j)
    /\ UNCHANGED <<Registry, starts, det>>

\* retrain_pipeline up to its first call to the registry: load_dataset,
\* train_model, calibrate_threshold, evaluate_model, freeze_baseline.
Train(j) ==
    /\ job[j].pc = "load"
    /\ \E rows \in datasets :
          LET split == Split(rows)
          IN  IF split = None THEN Ended(j)
              ELSE LET threshold == CalibrateThreshold(split.val)
                   IN  Continue(j, [job[j] EXCEPT !.pc = "trained", !.data = rows,
                                       !.threshold = threshold,
                                       !.metrics = PointwiseMetrics(split.test, threshold),
                                       !.baseline = FreezeBaseline(split.train)])
    /\ UNCHANGED <<Registry, starts, det>>

\* log_run: what the run of a training keeps, and with it every version made from it.
LoggedRun(j) == [metrics |-> job[j].metrics, baseline |-> job[j].baseline]

\* get_model_baseline.
ModelBaseline(v) == versions[v].baseline

\* log_run, then register_model, without which there is no result.
Register(j) ==
    /\ job[j].pc = "trained" /\ reachable /\ Len(versions) < MaxVersions
    /\ versions' = Append(versions, LoggedRun(j))
    /\ Continue(j, [job[j] EXCEPT !.pc = "gate", !.version = Len(versions) + 1,
                                  !.data = None, !.threshold = None, !.baseline = None])
    /\ UNCHANGED <<World, aliases, champions, starts, det>>

\* What a finished retraining leaves to its script.
AfterRetraining(j) == IF job[j].then = None THEN Idle ELSE [job[j] EXCEPT !.pc = job[j].then]

\* get_champion_metrics: None without a champion, and when a call fails.
ChampionMetrics ==
    {None} \cup IF aliases["champion"] = None THEN {} ELSE {versions[aliases["champion"]].metrics}

\* The gate, on the champion of this moment; a pass goes on to promote_model if
\* the command says so.
Gate(j) ==
    /\ job[j].pc = "gate"
    /\ \E champion \in ChampionMetrics :
          IF EvaluateCandidate(job[j].metrics, champion) /\ job[j].promote
          THEN Continue(j, [job[j] EXCEPT !.pc = "readold"])
          ELSE Continue(j, AfterRetraining(j))
    /\ UNCHANGED <<Registry, starts, det>>

\* promote_model reads the champion it will replace; an error counts as none.
ReadOld(j) ==
    /\ job[j].pc = "readold"
    /\ \E old \in {None, aliases["champion"]} :
          Continue(j, [job[j] EXCEPT !.old = old,
                          !.pc = IF old \in {None, job[j].version} THEN "setcandidate"
                                 ELSE "setprevious"])
    /\ UNCHANGED <<Registry, starts, det>>

\* Mutant of SetPrevious: it keeps the last candidate instead of the champion.
MutantSetPreviousCandidate(j) ==
    /\ job[j].pc = "setprevious"
    /\ aliases' = [aliases EXCEPT !["previous"] = aliases["candidate"]]
    /\ Continue(j, [job[j] EXCEPT !.pc = "setcandidate"])
    /\ UNCHANGED <<World, versions, champions, starts, det>>

SetPrevious(j) ==
    /\ job[j].pc = "setprevious"
    /\ aliases' = [aliases EXCEPT !["previous"] = job[j].old]
    /\ Continue(j, [job[j] EXCEPT !.pc = "setcandidate"])
    /\ UNCHANGED <<World, versions, champions, starts, det>>

SetCandidate(j) ==
    /\ job[j].pc = "setcandidate"
    /\ aliases' = [aliases EXCEPT !["candidate"] = job[j].version]
    /\ Continue(j, [job[j] EXCEPT !.pc = "setchampion"])
    /\ UNCHANGED <<World, versions, champions, starts, det>>

\* The promotion takes effect; the tags and the baseline that follow are for
\* the record, and the baseline is the one the version has.
SetChampion(j) ==
    /\ job[j].pc = "setchampion"
    /\ aliases' = [aliases EXCEPT !["champion"] = job[j].version]
    /\ champions' = champions \cup {job[j].version}
    /\ Continue(j, AfterRetraining(j))
    /\ UNCHANGED <<World, versions, starts, det>>

\* The drift script reads the champion and its baseline; without them it
\* bootstraps one: a retraining with promotion.
CheckBaseline(j) ==
    /\ job[j].pc = "drift"
    /\ \/ /\ aliases["champion"] # None
          /\ Continue(j, [job[j] EXCEPT !.pc = "detect", !.version = aliases["champion"]])
       \/ Continue(j, [job[j] EXCEPT !.pc = "load", !.promote = TRUE, !.then = "detect"])
    /\ UNCHANGED <<Registry, starts, det>>

\* detect_drift on new data; significant drift starts a retraining whose model
\* is left to a human to promote.  After a bootstrap the version is the new
\* one, promoted or not.
Detect(j) ==
    /\ job[j].pc = "detect"
    /\ \E rows \in datasets :
          \E decision \in DriftDecisions(rows, ModelBaseline(job[j].version)) :
             IF decision = "significant_drift"
             THEN Continue(j, [Idle EXCEPT !.pc = "load"])
             ELSE Ended(j)
    /\ UNCHANGED <<Registry, starts, det>>

-----------------------------------------------------------------------------
(* The detector.                                                           *)

\* ensure_detector on start: resolve_alias ...
ResolveModel ==
    /\ det.pc = "down"
    /\ aliases["champion"] # None
    /\ det' = [NoModel EXCEPT !.pc = "resolved"]
    /\ UNCHANGED <<Registry, job, starts>>

\* ... then the bundle, by alias once more: another champion may be there, and
\* the version number the detector reports, which is not modelled, is the first one's.
DownloadModel ==
    /\ det.pc = "resolved"
    /\ det' = [det EXCEPT !.pc = "serving", !.bundle = aliases["champion"], !.source = "registry"]
    /\ UNCHANGED <<Registry, job, starts>>

\* The registry cannot be used: the local bundle, or no start at all.
LoadFails ==
    /\ det.pc \in {"down", "resolved"}
    /\ det' = IF Required THEN NoModel
              ELSE [NoModel EXCEPT !.pc = "serving", !.source = "local-fallback"]
    /\ UNCHANGED <<Registry, job, starts>>

DetectorExits ==
    /\ det.pc = "serving"
    /\ det' = NoModel
    /\ UNCHANGED <<Registry, job, starts>>

-----------------------------------------------------------------------------
Retraining(j) == Train(j) \/ Register(j) \/ Gate(j)
Promotion(j) == ReadOld(j) \/ SetPrevious(j) \/ SetCandidate(j) \/ SetChampion(j)
DriftScript(j) == CheckBaseline(j) \/ Detect(j)

Next ==
    \/ \E j \in Jobs : Start(j) \/ Dies(j) \/ Retraining(j) \/ Promotion(j) \/ DriftScript(j)
    \/ ResolveModel \/ DownloadModel \/ LoadFails \/ DetectorExits

Spec == Init /\ [][Next]_vars

-----------------------------------------------------------------------------
(* Properties.                                                             *)

Versions == DOMAIN versions

JobPCs == {"idle", "load", "trained", "gate", "readold", "setprevious", "setcandidate",
           "setchampion", "drift", "detect"}

\* Every part of the state has its type; in particular no alias, job or detector
\* names a version that is not registered.
TypeOK ==
    /\ Len(versions) <= MaxVersions
    /\ \A a \in AliasNames : aliases[a] \in Versions \cup {None}
    /\ champions \subseteq Versions
    /\ \A j \in Jobs : /\ job[j].pc \in JobPCs
                       /\ job[j].version \in Versions \cup {None}
                       /\ job[j].old \in Versions \cup {None}
                       /\ job[j].pc \in {"gate", "detect"} => job[j].version \in Versions
    /\ det.bundle \in Versions \cup {None}
    /\ det.source \in {None, "registry", "local-fallback"}

\* A model that fulfils the promotion policy on its own.
AboveFloors(metrics) ==
    /\ None \notin {metrics[k] : k \in {"f1", "recall", "pr_auc"}}
    /\ metrics.f1 >= MinF1 /\ metrics.recall >= MinRecall /\ metrics.pr_auc >= MinPrAuc

\* Whatever jobs race, fail or die: a version that any alias makes reachable for
\* serving or rollback, or that the detector took from the registry, is above
\* the quality floors.
OnlyGatedModelsServe ==
    \A v \in champions \cup {aliases[a] : a \in AliasNames} \cup {det.bundle} :
        v # None => AboveFloors(versions[v].metrics)

\* Rolling back is always to a model that was champion, also after a promotion
\* that died half way or raced another.
PreviousWasChampion == aliases["previous"] # None => aliases["previous"] \in champions

InTraining == {j \in Jobs : job[j].pc = "trained"}

\* No threshold at all, on or off the grid, separates the validation rows better
\* than the calibrated one, and the split neither loses nor mixes rows.
ThresholdOptimal ==
    \A j \in InTraining :
        LET split == Split(job[j].data)
            best == Confusion(split.val, job[j].threshold)
        IN  /\ split.train \o split.val \o split.test = job[j].data
            /\ \A t \in -1 .. 2 * Max(Scores(split.val)) + 2 :
                  ~ BetterKey(Confusion(split.val, t), best)

==============================================================================
