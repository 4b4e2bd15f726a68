------------------------- MODULE ModelRegistryProofs -------------------------
(***************************************************************************)
(* What ModelRegistry promises about the models that serve, proved for any *)
(* set of jobs and datasets, any policy and any number of versions: every  *)
(* version that an alias or the detector names has passed the gate, a      *)
(* rollback leads to a former champion, and the threshold a model serves   *)
(* with is the best one there is for its validation rows.                  *)
(***************************************************************************)
EXTENDS ModelRegistry, DataLemmas, FiniteSetTheorems

-----------------------------------------------------------------------------
(* The inductive invariant.                                                *)

Fields == {"pc", "promote", "then", "data", "threshold", "metrics", "baseline", "version", "old"}

\* A version that exists and is above the floors.
Gated(v) == v \in DOMAIN versions /\ AboveFloors(versions[v].metrics)

Promoting == {"readold", "setprevious", "setcandidate", "setchampion"}

\* What a job knows at its program counter: at the gate its metrics are those
\* of its version, past the gate its version has passed, and the champion it
\* is about to keep has been one.
JobSound(r) ==
    /\ DOMAIN r = Fields
    /\ r.then \in {None, "detect"}
    /\ r.pc = "gate" => r.version \in DOMAIN versions /\ r.metrics = versions[r.version].metrics
    /\ r.pc \in Promoting => Gated(r.version)
    /\ r.pc = "setprevious" => r.old \in champions

\* The registry: aliases name versions that were gated, champion and previous
\* versions that were champion.
RegistrySound ==
    /\ versions \in Seq({versions[i] : i \in DOMAIN versions})
    /\ DOMAIN aliases = AliasNames
    /\ \A v \in champions : Gated(v)
    /\ aliases["champion"] \in champions \cup {None}
    /\ aliases["previous"] \in champions \cup {None}
    /\ aliases["candidate"] # None => Gated(aliases["candidate"])

DetectorSound ==
    /\ DOMAIN det = {"pc", "bundle", "source"}
    /\ det.bundle # None => Gated(det.bundle)

IInv ==
    /\ RegistrySound
    /\ DetectorSound
    /\ DOMAIN job = Jobs
    /\ \A j \in Jobs : JobSound(job[j])

-----------------------------------------------------------------------------
(* Lemmas.                                                                 *)

\* In the initial states the registry is empty and every job idle.
LEMMA InitEstablishes == Init => IInv
BY DEF Init, IInv, RegistrySound, DetectorSound, JobSound, Idle, NoModel, Fields,
       AliasNames, Promoting, Gated

\* A new version leaves the old ones as they are.
LEMMA AppendKeeps ==
    ASSUME versions \in Seq({versions[i] : i \in DOMAIN versions}),
           NEW record, versions' = Append(versions, record)
    PROVE  /\ versions' \in Seq({versions'[i] : i \in DOMAIN versions'})
           /\ DOMAIN versions' = DOMAIN versions \cup {Len(versions) + 1}
           /\ versions'[Len(versions) + 1] = record
           /\ \A i \in DOMAIN versions : versions'[i] = versions[i]
<1>1. DOMAIN versions = 1 .. Len(versions) /\ Len(versions) \in Nat
  OBVIOUS
<1>2. DOMAIN versions' = 1 .. Len(versions) + 1
  OBVIOUS
<1>3. /\ versions'[Len(versions) + 1] = record
      /\ \A i \in DOMAIN versions : versions'[i] = versions[i]
  OBVIOUS
<1>4. DOMAIN versions' = DOMAIN versions \cup {Len(versions) + 1}
  BY <1>1, <1>2
<1>5. versions' \in Seq({versions'[i] : i \in DOMAIN versions'})
  <2> DEFINE S == {versions[i] : i \in DOMAIN versions} \cup {record}
  <2>1. versions' \in Seq(S)
    OBVIOUS
  <2>2. S = {versions'[i] : i \in DOMAIN versions'}
    BY <1>3, <1>4
  <2> QED
    BY <2>1, <2>2
<1> QED
  BY <1>3, <1>4, <1>5

\* Steps that leave the registry and the detector alone: the job that moves is
\* sound again.
LEMMA JobMoves ==
    ASSUME IInv, UNCHANGED <<versions, aliases, champions, det>>,
           NEW j \in Jobs, NEW record, JobSound(record), Continue(j, record)
    PROVE  IInv'
BY DEF IInv, RegistrySound, DetectorSound, JobSound, Gated, AboveFloors, Continue

\* An idle job is sound.
LEMMA IdleSound == JobSound(Idle)
BY DEF JobSound, Idle, Fields, Promoting

\* What follows a retraining is an idle job or the drift script's last step.
LEMMA AfterRetrainingSound ==
    ASSUME NEW j \in Jobs, JobSound(job[j])
    PROVE  JobSound(AfterRetraining(j))
BY IdleSound DEF JobSound, AfterRetraining, Fields, Promoting

-----------------------------------------------------------------------------
(* One lemma per kind of step.                                             *)

\* Starting, training and dying leave nothing behind in the registry.
LEMMA TrainingSteps ==
    ASSUME IInv, NEW j \in Jobs, Start(j) \/ Dies(j) \/ Train(j)
    PROVE  IInv'
<1>1. JobSound(job[j])
  BY DEF IInv
<1>2. CASE Start(j)
  <2>1. ASSUME NEW promote \in BOOLEAN
        PROVE  JobSound([Idle EXCEPT !.pc = "load", !.promote = promote])
    BY DEF JobSound, Idle, Fields, Promoting
  <2>2. ASSUME NEW v \in DOMAIN versions
        PROVE  JobSound([Idle EXCEPT !.pc = "gate", !.promote = TRUE, !.version = v,
                                     !.metrics = versions[v].metrics])
    BY DEF JobSound, Idle, Fields, Promoting
  <2>3. JobSound([Idle EXCEPT !.pc = "drift"])
    BY DEF JobSound, Idle, Fields, Promoting
  <2> QED
    BY <1>2, <2>1, <2>2, <2>3, JobMoves DEF Start, Registry, World
<1>3. CASE Dies(j)
  BY <1>3, IdleSound, JobMoves DEF Dies, Ended, Registry, World
<1>4. CASE Train(j)
  <2>1. PICK rows \in datasets :
          LET split == Split(rows)
          IN  IF split = None THEN Ended(j)
              ELSE LET threshold == CalibrateThreshold(split.val)
                   IN  Continue(j, [job[j] EXCEPT !.pc = "trained", !.data = rows,
                                       !.threshold = threshold,
                                       !.metrics = PointwiseMetrics(split.test, threshold),
                                       !.baseline = FreezeBaseline(split.train)])
    BY <1>4 DEF Train
  <2>2. UNCHANGED <<versions, aliases, champions, det>>
    BY <1>4 DEF Train, Registry, World
  <2>3. ASSUME NEW threshold, NEW metrics, NEW baseline
        PROVE  JobSound([job[j] EXCEPT !.pc = "trained", !.data = rows,
                            !.threshold = threshold, !.metrics = metrics,
                            !.baseline = baseline])
    BY <1>1 DEF JobSound, Fields, Promoting
  <2> QED
    BY <2>1, <2>2, <2>3, IdleSound, JobMoves DEF Ended
<1> QED
  BY <1>2, <1>3, <1>4

\* A registered version carries the metrics its job goes to the gate with.
LEMMA RegisterStep ==
    ASSUME IInv, NEW j \in Jobs, Register(j)
    PROVE  IInv'
<1> DEFINE v == Len(versions) + 1
           moved == [job[j] EXCEPT !.pc = "gate", !.version = v, !.data = None,
                                   !.threshold = None, !.baseline = None]
<1>1. /\ versions' = Append(versions, LoggedRun(j))
      /\ job' = [job EXCEPT ![j] = moved]
      /\ UNCHANGED <<aliases, champions, det>>
  BY DEF Register, Continue
<1>2. /\ versions' \in Seq({versions'[i] : i \in DOMAIN versions'})
      /\ DOMAIN versions' = DOMAIN versions \cup {v}
      /\ versions'[v] = LoggedRun(j)
      /\ \A i \in DOMAIN versions : versions'[i] = versions[i]
  BY <1>1, AppendKeeps DEF IInv, RegistrySound
<1>3. \A u : Gated(u) => Gated(u)'
  BY <1>2 DEF Gated, AboveFloors
<1>4. RegistrySound' /\ DetectorSound'
  BY <1>1, <1>2, <1>3 DEF IInv, RegistrySound, DetectorSound
<1>5. JobSound(job[j])'
  <2>1. job'[j] = moved
    BY <1>1 DEF IInv
  <2>2. DOMAIN job[j] = Fields /\ job[j].then \in {None, "detect"}
    BY DEF IInv, JobSound
  <2>3. /\ DOMAIN moved = Fields /\ moved.then = job[j].then /\ moved.pc = "gate"
        /\ moved.version = v /\ moved.metrics = job[j].metrics
    BY <2>2 DEF Fields
  <2> HIDE DEF moved, v
  <2> QED
    BY <1>2, <2>1, <2>2, <2>3 DEF JobSound, Promoting, LoggedRun
<1>6. ASSUME NEW k \in Jobs, k # j
      PROVE  JobSound(job[k])'
  BY <1>1, <1>2, <1>3, <1>6 DEF IInv, JobSound
<1>7. DOMAIN job' = Jobs
  BY <1>1 DEF IInv
<1> QED
  BY <1>4, <1>5, <1>6, <1>7 DEF IInv

\* Only a version above the floors passes the gate.
LEMMA GateStep ==
    ASSUME IInv, NEW j \in Jobs, Gate(j)
    PROVE  IInv'
<1>1. JobSound(job[j]) /\ job[j].pc = "gate"
  BY DEF IInv, Gate
<1>2. ASSUME NEW champion, EvaluateCandidate(job[j].metrics, champion)
      PROVE  JobSound([job[j] EXCEPT !.pc = "readold"])
  <2>1. AboveFloors(job[j].metrics)
    BY <1>2 DEF EvaluateCandidate, AboveFloors
  <2> QED
    BY <1>1, <2>1 DEF JobSound, Fields, Promoting, Gated
<1> QED
  BY <1>1, <1>2, AfterRetrainingSound, JobMoves DEF Gate, Registry, World

\* The four calls of a promotion.
LEMMA PromotionSteps ==
    ASSUME IInv, NEW j \in Jobs, Promotion(j)
    PROVE  IInv'
<1>1. JobSound(job[j]) /\ DOMAIN job = Jobs
  BY DEF IInv
<1>2. CASE ReadOld(j)
  <2>1. PICK old \in {None, aliases["champion"]} :
          Continue(j, [job[j] EXCEPT !.old = old,
                          !.pc = IF old \in {None, job[j].version} THEN "setcandidate"
                                 ELSE "setprevious"])
    BY <1>2 DEF ReadOld
  <2>2. JobSound([job[j] EXCEPT !.old = old,
                     !.pc = IF old \in {None, job[j].version} THEN "setcandidate"
                            ELSE "setprevious"])
    BY <1>1, <1>2 DEF ReadOld, IInv, RegistrySound, JobSound, Fields, Promoting
  <2> QED
    BY <1>2, <2>1, <2>2, JobMoves DEF ReadOld, Registry, World
<1>3. CASE SetPrevious(j) \/ SetCandidate(j) \/ SetChampion(j)
  <2>1. \/ Continue(j, [job[j] EXCEPT !.pc = "setcandidate"])
        \/ Continue(j, [job[j] EXCEPT !.pc = "setchampion"])
        \/ Continue(j, AfterRetraining(j))
    BY <1>3 DEF SetPrevious, SetCandidate, SetChampion
  <2>2. /\ Gated(job[j].version)
        /\ UNCHANGED <<versions, det>>
        /\ champions \subseteq champions' /\ \A v \in champions' : Gated(v)
    BY <1>1, <1>3 DEF SetPrevious, SetCandidate, SetChampion, JobSound, Promoting, World,
                      IInv, RegistrySound
  <2>3. /\ JobSound([job[j] EXCEPT !.pc = "setcandidate"])
        /\ JobSound([job[j] EXCEPT !.pc = "setchampion"])
        /\ JobSound(AfterRetraining(j))
    BY <1>1, <2>2, AfterRetrainingSound DEF JobSound, Fields, Promoting
  <2>4. RegistrySound'
    BY <1>1, <1>3, <2>2 DEF SetPrevious, SetCandidate, SetChampion, IInv, RegistrySound,
                            JobSound, Gated, AboveFloors, AliasNames
  <2>5. \A r : JobSound(r) => JobSound(r)'
    BY <2>2 DEF JobSound, Gated, AboveFloors
  <2>6. DetectorSound'
    BY <2>2 DEF IInv, DetectorSound, Gated, AboveFloors
  <2> QED
    BY <1>1, <2>1, <2>3, <2>4, <2>5, <2>6 DEF IInv, Continue
<1> QED
  BY <1>2, <1>3 DEF Promotion

\* The drift script reads, and leaves promotion to a retraining or to a human.
LEMMA DriftSteps ==
    ASSUME IInv, NEW j \in Jobs, DriftScript(j)
    PROVE  IInv'
<1>1. JobSound(job[j])
  BY DEF IInv
<1>2. ASSUME NEW v
      PROVE  /\ JobSound([job[j] EXCEPT !.pc = "detect", !.version = v])
             /\ JobSound([job[j] EXCEPT !.pc = "load", !.promote = TRUE, !.then = "detect"])
             /\ JobSound([Idle EXCEPT !.pc = "load"])
  BY <1>1 DEF JobSound, Idle, Fields, Promoting
<1>3. UNCHANGED <<versions, aliases, champions, det>>
  BY DEF DriftScript, CheckBaseline, Detect, Registry, World
<1>4. CASE CheckBaseline(j)
  BY <1>2, <1>3, <1>4, JobMoves DEF CheckBaseline
<1>5. CASE Detect(j)
  <2>1. Continue(j, [Idle EXCEPT !.pc = "load"]) \/ Continue(j, Idle)
    BY <1>5 DEF Detect, Ended
  <2> QED
    BY <1>2, <1>3, <2>1, IdleSound, JobMoves
<1> QED
  BY <1>4, <1>5 DEF DriftScript

\* The detector takes whatever is champion when it asks the second time.
LEMMA DetectorSteps ==
    ASSUME IInv, ResolveModel \/ DownloadModel \/ LoadFails \/ DetectorExits
    PROVE  IInv'
<1>1. UNCHANGED <<versions, aliases, champions, job>>
  BY DEF ResolveModel, DownloadModel, LoadFails, DetectorExits, Registry, World
<1>2. DetectorSound'
  <2>1. aliases["champion"] # None => Gated(aliases["champion"])
    BY DEF IInv, RegistrySound
  <2>2. /\ DOMAIN det' = {"pc", "bundle", "source"}
        /\ det'.bundle \in {None, det.bundle, aliases["champion"]}
    <3>1. DOMAIN det = {"pc", "bundle", "source"}
      BY DEF IInv, DetectorSound
    <3>2. CASE ResolveModel
      BY <3>2 DEF ResolveModel, NoModel
    <3>3. CASE DownloadModel
      BY <3>1, <3>3 DEF DownloadModel
    <3>4. CASE LoadFails
      BY <3>4 DEF LoadFails, NoModel
    <3>5. CASE DetectorExits
      BY <3>5 DEF DetectorExits, NoModel
    <3> QED
      BY <3>2, <3>3, <3>4, <3>5
  <2>3. \A u : Gated(u) => Gated(u)'
    BY <1>1 DEF Gated, AboveFloors
  <2> QED
    BY <2>1, <2>2, <2>3 DEF IInv, DetectorSound
<1> QED
  BY <1>1, <1>2 DEF IInv, RegistrySound, JobSound, Gated, AboveFloors

-----------------------------------------------------------------------------
(* The theorems.                                                           *)

\* The invariant holds in every reachable state of the registry: whatever jobs
\* race, fail and die (promote_model, retrain_pipeline, ensure_detector).
THEOREM Inductive == Spec => []IInv
<1>1. IInv /\ [Next]_vars => IInv'
  <2> SUFFICES ASSUME IInv, [Next]_vars PROVE IInv'
    OBVIOUS
  <2>1. CASE UNCHANGED vars
    BY <2>1 DEF vars, IInv, RegistrySound, DetectorSound, JobSound, Gated, AboveFloors
  <2>2. ASSUME NEW j \in Jobs,
               Start(j) \/ Dies(j) \/ Retraining(j) \/ Promotion(j) \/ DriftScript(j)
        PROVE  IInv'
    BY <2>2, TrainingSteps, RegisterStep, GateStep, PromotionSteps, DriftSteps DEF Retraining
  <2> QED
    BY <2>1, <2>2, DetectorSteps DEF Next
<1> QED
  BY <1>1, InitEstablishes, PTL DEF Spec

\* Every version an alias or the detector names, and every champion there ever
\* was, is above the floors of the policy (evaluate_candidate, promote_model).
THEOREM QualityFloor == Spec => []OnlyGatedModelsServe
<1>1. IInv => OnlyGatedModelsServe
  BY DEF IInv, RegistrySound, DetectorSound, OnlyGatedModelsServe, Gated, AliasNames
<1> QED
  BY <1>1, Inductive, PTL

\* A rollback leads to a version that was champion, although promote_model moves
\* its aliases one by one and may die or race in between.
THEOREM SafeRollback == Spec => []PreviousWasChampion
<1>1. IInv => PreviousWasChampion
  BY DEF IInv, RegistrySound, PreviousWasChampion
<1> QED
  BY <1>1, Inductive, PTL

-----------------------------------------------------------------------------
(* What calibrate_threshold computes: the key orders thresholds, every     *)
(* threshold flags the same rows as one of the grid, and a finite grid has *)
(* a best one.                                                             *)

\* Products of naturals, and that they keep the order.
LEMMA Products ==
  ASSUME NEW a \in Nat, NEW b \in Nat, NEW k \in Nat
  PROVE  /\ a * b \in Nat /\ a * b = b * a
         /\ a >= b => a * k >= b * k
         /\ a > b /\ k > 0 => a * k > b * k
<1>1. a * b \in Nat /\ a * b = b * a
  OBVIOUS
<1>2. a >= b => a * k >= b * k
  OBVIOUS
<1>3. a > b /\ k > 0 => a * k > b * k
  OBVIOUS
<1> QED
  BY <1>1, <1>2, <1>3

\* The factors of a product may change places.
LEMMA Assoc ==
  ASSUME NEW a \in Nat, NEW b \in Nat, NEW c \in Nat
  PROVE  (a * b) * c = (a * c) * b
  OBVIOUS

\* a / x >= b / y >= c / z.
LEMMA RatiosTransitive ==
  ASSUME NEW a \in Nat, NEW b \in Nat, NEW c \in Nat,
         NEW x \in Nat \ {0}, NEW y \in Nat \ {0}, NEW z \in Nat \ {0},
         a * y >= b * x, b * z >= c * y
  PROVE  /\ a * z >= c * x
         /\ a * y > b * x \/ b * z > c * y => a * z > c * x
<1>1. PICK p \in Nat, q \in Nat, r \in Nat, s \in Nat, u \in Nat, v \in Nat :
        p = a * y /\ q = b * x /\ r = b * z /\ s = c * y /\ u = a * z /\ v = c * x
  BY Products
<1>2. p * z = u * y /\ q * z = r * x /\ s * x = v * y
  BY <1>1, Assoc
<1>3. p >= q /\ r >= s
  BY <1>1
<1>4. p * z >= q * z /\ r * x >= s * x
  BY <1>3, Products
<1>5. p * z \in Nat /\ q * z \in Nat /\ r * x \in Nat /\ s * x \in Nat /\ u * y \in Nat /\ v * y \in Nat
  BY Products
<1>6. u * y >= v * y
  BY <1>2, <1>4, <1>5
<1>7. u >= v
  <2> SUFFICES ASSUME v > u PROVE FALSE
    OBVIOUS
  <2>1. v * y > u * y
    BY Products
  <2> QED
    BY <1>5, <1>6, <2>1
<1>8. ASSUME p > q \/ r > s PROVE u > v
  <2>1. p * z > q * z \/ r * x > s * x
    BY <1>8, Products
  <2>2. u * y > v * y
    BY <1>2, <1>4, <1>5, <2>1
  <2>3. u # v
    BY <1>5, <2>2
  <2> QED
    BY <1>7, <2>3
<1> QED
  BY <1>1, <1>7, <1>8

\* A confusion of rows of which n are anomalies.
IsConfusion(c, n) == c.tp \in Nat /\ c.fp \in Nat /\ c.fn \in Nat /\ c.tp + c.fn = n

\* BetterKey orders confusions of the same rows.
LEMMA BetterTransitive ==
  ASSUME NEW n \in Nat, NEW c, NEW d, NEW e,
         IsConfusion(c, n), IsConfusion(d, n), IsConfusion(e, n), BetterKey(c, d), BetterKey(d, e)
  PROVE  BetterKey(c, e)
<1>1. PICK x \in Nat, y \in Nat, z \in Nat :
        x = 2 * c.tp + c.fp + c.fn /\ y = 2 * d.tp + d.fp + d.fn /\ z = 2 * e.tp + e.fp + e.fn
  BY DEF IsConfusion
<1>2. c.tp \in Nat /\ d.tp \in Nat /\ e.tp \in Nat /\ c.fp \in Nat /\ d.fp \in Nat /\ e.fp \in Nat
  BY DEF IsConfusion
<1>3. c.tp * y > d.tp * x \/ (c.tp * y = d.tp * x /\ c.fp < d.fp)
  BY <1>1 DEF BetterKey
<1>4. d.tp * z > e.tp * y \/ (d.tp * z = e.tp * y /\ d.fp < e.fp)
  BY <1>1 DEF BetterKey
<1> SUFFICES c.tp * z > e.tp * x \/ (c.tp * z = e.tp * x /\ c.fp < e.fp)
  BY <1>1 DEF BetterKey
<1>5. /\ c.tp * y \in Nat /\ d.tp * x \in Nat /\ d.tp * z \in Nat /\ e.tp * y \in Nat
      /\ c.tp * z \in Nat /\ e.tp * x \in Nat
  BY <1>2, Products
<1>6. CASE n = 0
  <2>1. c.tp = 0 /\ d.tp = 0 /\ e.tp = 0
    BY <1>6 DEF IsConfusion
  <2>2. c.tp * y = 0 /\ d.tp * x = 0 /\ d.tp * z = 0 /\ e.tp * y = 0 /\ c.tp * z = 0 /\ e.tp * x = 0
    BY <2>1
  <2>3. c.fp < d.fp /\ d.fp < e.fp
    BY <1>3, <1>4, <2>2
  <2> QED
    BY <1>2, <2>2, <2>3
<1>7. CASE n # 0
  <2>1. x # 0 /\ y # 0 /\ z # 0
    BY <1>1, <1>7 DEF IsConfusion
  <2>2. c.tp * y >= d.tp * x /\ d.tp * z >= e.tp * y
    BY <1>3, <1>4, <1>5
  <2>3. /\ c.tp * z >= e.tp * x
        /\ c.tp * y > d.tp * x \/ d.tp * z > e.tp * y => c.tp * z > e.tp * x
    BY <1>2, <2>1, <2>2, RatiosTransitive
  <2>4. CASE c.tp * y > d.tp * x \/ d.tp * z > e.tp * y
    BY <2>3, <2>4
  <2>5. CASE c.fp < d.fp /\ d.fp < e.fp
    BY <1>2, <1>5, <2>3, <2>5
  <2> QED
    BY <1>3, <1>4, <2>4, <2>5
<1> QED
  BY <1>6, <1>7

\* A finite set of integers with a member has a least and a greatest one.
LEMMA FiniteExtremes ==
  ASSUME NEW S \in SUBSET Int, S # {}, IsFiniteSet(S)
  PROVE  /\ \E x \in S : \A y \in S : x <= y
         /\ \E x \in S : \A y \in S : x >= y
<1>1. PICK n \in Nat : ExistsSurjection(1 .. n, S)
  BY FS_NatSurjection
<1>2. PICK f \in [1 .. n -> S] : \A y \in S : \E i \in 1 .. n : f[i] = y
  BY <1>1 DEF ExistsSurjection, Surjection
<1>3. n # 0
  <2>1. PICK y \in S : TRUE
    OBVIOUS
  <2>2. PICK i \in 1 .. n : f[i] = y
    BY <1>2
  <2> QED
    BY <2>2
<1> DEFINE Low(k) == \E i \in 1 .. k : \A j \in 1 .. k : f[i] <= f[j]
            High(k) == \E i \in 1 .. k : \A j \in 1 .. k : f[i] >= f[j]
            T == {k \in Nat : k \in 1 .. n => Low(k) /\ High(k)}
<1>4. \A i \in 1 .. n : f[i] \in Int
  BY <1>2
<1>5. 0 \in T
  OBVIOUS
<1>6. ASSUME NEW k \in Nat, k \in T PROVE k + 1 \in T
  <2> SUFFICES ASSUME k + 1 \in 1 .. n PROVE Low(k + 1) /\ High(k + 1)
    OBVIOUS
  <2>1. \A j \in 1 .. k + 1 : j \in 1 .. n /\ (j = k + 1 \/ j \in 1 .. k)
    OBVIOUS
  <2>2. k + 1 \in 1 .. k + 1 /\ \A j \in 1 .. k : j \in 1 .. k + 1
    OBVIOUS
  <2>3. CASE k = 0
    <3>1. \A j \in 1 .. k + 1 : j = k + 1
      BY <2>3
    <3>2. f[k + 1] <= f[k + 1] /\ f[k + 1] >= f[k + 1]
      BY <1>4, <2>1, <2>2
    <3> QED
      BY <2>2, <3>1, <3>2
  <2>4. CASE k # 0
    <3>1. k \in 1 .. n
      BY <2>4
    <3>2. PICK a \in 1 .. k : \A j \in 1 .. k : f[a] <= f[j]
      BY <1>6, <3>1
    <3>3. PICK b \in 1 .. k : \A j \in 1 .. k : f[b] >= f[j]
      BY <1>6, <3>1
    <3>4. PICK l \in 1 .. k + 1 : f[l] <= f[k + 1] /\ f[l] <= f[a]
      <4>1. f[a] \in Int /\ f[k + 1] \in Int
        BY <1>4, <2>1, <2>2
      <4>2. CASE f[a] <= f[k + 1]
        BY <2>2, <4>1, <4>2
      <4>3. CASE f[k + 1] <= f[a]
        BY <2>2, <4>1, <4>3
      <4> QED
        BY <4>1, <4>2, <4>3
    <3>5. PICK h \in 1 .. k + 1 : f[h] >= f[k + 1] /\ f[h] >= f[b]
      <4>1. f[b] \in Int /\ f[k + 1] \in Int
        BY <1>4, <2>1, <2>2
      <4>2. CASE f[b] >= f[k + 1]
        BY <2>2, <4>1, <4>2
      <4>3. CASE f[k + 1] >= f[b]
        BY <2>2, <4>1, <4>3
      <4> QED
        BY <4>1, <4>2, <4>3
    <3>6. \A j \in 1 .. k + 1 : f[l] <= f[j] /\ f[h] >= f[j]
      <4> SUFFICES ASSUME NEW j \in 1 .. k + 1 PROVE f[l] <= f[j] /\ f[h] >= f[j]
        OBVIOUS
      <4>1. f[l] \in Int /\ f[h] \in Int /\ f[j] \in Int /\ f[a] \in Int /\ f[b] \in Int
        BY <1>4, <2>1, <2>2
      <4>2. CASE j = k + 1
        BY <3>4, <3>5, <4>2
      <4>3. CASE j \in 1 .. k
        <5>1. f[a] <= f[j] /\ f[b] >= f[j]
          BY <3>2, <3>3, <4>3
        <5> QED
          BY <3>4, <3>5, <4>1, <5>1
      <4> QED
        BY <2>1, <4>2, <4>3
    <3> QED
      BY <3>6
  <2> QED
    BY <2>3, <2>4
<1> HIDE DEF T
<1>7. n \in T
  BY <1>5, <1>6, NatSetInduction
<1>8. n \in 1 .. n
  BY <1>3
<1>9. Low(n) /\ High(n)
  BY <1>7, <1>8 DEF T
<1>10. PICK a \in 1 .. n : \A j \in 1 .. n : f[a] <= f[j]
  BY <1>9
<1>11. PICK b \in 1 .. n : \A j \in 1 .. n : f[b] >= f[j]
  BY <1>9
<1>12. f[a] \in S /\ \A y \in S : f[a] <= y
  BY <1>2, <1>10
<1>13. f[b] \in S /\ \A y \in S : f[b] >= y
  BY <1>2, <1>11
<1> QED
  BY <1>12, <1>13

\* Min and Max of such a set.
LEMMA MinMax ==
  ASSUME NEW S \in SUBSET Int, S # {}, IsFiniteSet(S)
  PROVE  /\ Min(S) \in S /\ \A y \in S : Min(S) <= y
         /\ Max(S) \in S /\ \A y \in S : Max(S) >= y
  BY FiniteExtremes DEF Min, Max

ScoredRows == [score : Int, y : BOOLEAN]

\* What _confusion counts, at a threshold.
LEMMA ConfusionIs ==
  ASSUME NEW rows \in Seq(ScoredRows), NEW t \in Int
  PROVE  IsConfusion(Confusion(rows, t), Cardinality({i \in DOMAIN rows : rows[i].y}))
<1>1. IsFiniteSet(DOMAIN rows)
  BY LenProperties, FS_Interval
<1>2. PICK A, B, C, D : /\ A = {i \in DOMAIN rows : Flagged(rows[i], t) /\ rows[i].y}
                        /\ B = {i \in DOMAIN rows : Flagged(rows[i], t) /\ ~ rows[i].y}
                        /\ C = {i \in DOMAIN rows : ~ Flagged(rows[i], t) /\ rows[i].y}
                        /\ D = {i \in DOMAIN rows : ~ Flagged(rows[i], t) /\ ~ rows[i].y}
  OBVIOUS
<1>3. Confusion(rows, t) = [tp |-> Cardinality(A), fp |-> Cardinality(B), fn |-> Cardinality(C),
                            tn |-> Cardinality(D)]
  BY <1>2 DEF Confusion, CountRows
<1>4. A \in SUBSET DOMAIN rows /\ B \in SUBSET DOMAIN rows /\ C \in SUBSET DOMAIN rows
  BY <1>2
<1>5. IsFiniteSet(A) /\ IsFiniteSet(B) /\ IsFiniteSet(C)
  BY <1>1, <1>4, FS_Subset
<1>6. Cardinality(A) \in Nat /\ Cardinality(B) \in Nat /\ Cardinality(C) \in Nat
  BY <1>5, FS_CardinalityType
<1>7. A \cap C = {} /\ A \cup C = {i \in DOMAIN rows : rows[i].y}
  BY <1>2
<1>8. Cardinality(A \cup C) = Cardinality(A) + Cardinality(C) - Cardinality(A \cap C)
  BY <1>5, FS_Union
<1>9. Cardinality(A) + Cardinality(C) = Cardinality({i \in DOMAIN rows : rows[i].y})
  <2>1. Cardinality(A \cap C) = 0
    BY <1>7, FS_EmptySet
  <2>2. Cardinality(A \cup C) = Cardinality(A) + Cardinality(C)
    BY <1>6, <1>8, <2>1
  <2>3. Cardinality(A \cup C) = Cardinality({i \in DOMAIN rows : rows[i].y})
    BY <1>7
  <2> QED
    BY <2>2, <2>3
<1> QED
  BY <1>3, <1>6, <1>9 DEF IsConfusion

\* It depends on the rows that are flagged only.
LEMMA SameConfusion ==
  ASSUME NEW rows, NEW t, NEW u,
         \A i \in DOMAIN rows : Flagged(rows[i], t) <=> Flagged(rows[i], u)
  PROVE  Confusion(rows, t) = Confusion(rows, u)
<1>1. {i \in DOMAIN rows : Flagged(rows[i], t) /\ rows[i].y}
      = {i \in DOMAIN rows : Flagged(rows[i], u) /\ rows[i].y}
  OBVIOUS
<1>2. {i \in DOMAIN rows : Flagged(rows[i], t) /\ ~ rows[i].y}
      = {i \in DOMAIN rows : Flagged(rows[i], u) /\ ~ rows[i].y}
  OBVIOUS
<1>3. {i \in DOMAIN rows : ~ Flagged(rows[i], t) /\ rows[i].y}
      = {i \in DOMAIN rows : ~ Flagged(rows[i], u) /\ rows[i].y}
  OBVIOUS
<1>4. {i \in DOMAIN rows : ~ Flagged(rows[i], t) /\ ~ rows[i].y}
      = {i \in DOMAIN rows : ~ Flagged(rows[i], u) /\ ~ rows[i].y}
  OBVIOUS
<1> QED
  BY <1>1, <1>2, <1>3, <1>4 DEF Confusion, CountRows

\* The scores of some rows.
LEMMA ScoresAre ==
  ASSUME NEW rows \in Seq(ScoredRows), Len(rows) # 0
  PROVE  /\ Scores(rows) \in SUBSET Int /\ Scores(rows) # {} /\ IsFiniteSet(Scores(rows))
         /\ \A i \in DOMAIN rows : rows[i].score \in Scores(rows)
<1>1. PICK n \in Nat : n = Len(rows)
  BY LenProperties
<1>2. DOMAIN rows = 1 .. n /\ n # 0 /\ \A i \in 1 .. n : rows[i] \in ScoredRows
  BY <1>1, LenProperties, ElementOfSeq
<1>3. \A i \in 1 .. n : rows[i].score \in Int
  BY <1>2 DEF ScoredRows
<1>4. Scores(rows) \in SUBSET Int /\ Scores(rows) # {}
      /\ \A i \in DOMAIN rows : rows[i].score \in Scores(rows)
  <2>1. 1 \in 1 .. n
    BY <1>2
  <2> QED
    BY <1>2, <1>3, <2>1 DEF Scores
<1>5. PICK f : f = [i \in 1 .. n |-> rows[i].score]
  OBVIOUS
<1>6. f \in Surjection(1 .. n, Scores(rows))
  BY <1>2, <1>5 DEF Surjection, Scores
<1>7. IsFiniteSet(1 .. n)
  BY FS_Interval
<1>8. IsFiniteSet(Scores(rows))
  BY <1>6, <1>7, FS_Surjection
<1> QED
  BY <1>4, <1>8

NextScore(scores, s) == Min({u \in scores : u > s})
Midpoints(scores) == {s + NextScore(scores, s) : s \in scores \ {Max(scores)}}
TheScores(scores) == {2 * s : s \in scores}

\* The next score above one that is not the highest.
LEMMA NextScoreIs ==
  ASSUME NEW scores \in SUBSET Int, IsFiniteSet(scores), NEW s \in scores,
         NEW v \in scores, v > s
  PROVE  /\ NextScore(scores, s) \in scores /\ NextScore(scores, s) > s
         /\ \A u \in scores : u > s => NextScore(scores, s) <= u
<1>1. PICK T : T = {u \in scores : u > s}
  OBVIOUS
<1>2. T \in SUBSET scores /\ T # {}
  BY <1>1
<1>3. IsFiniteSet(T) /\ T \in SUBSET Int
  BY <1>2, FS_Subset
<1>4. Min(T) \in T /\ \A u \in T : Min(T) <= u
  BY <1>2, <1>3, MinMax
<1> QED
  BY <1>1, <1>4 DEF NextScore

\* The grid, as the union of its parts.
LEMMA GridIs ==
  ASSUME NEW rows \in Seq(ScoredRows), Len(rows) # 0, NEW scores, scores = Scores(rows)
  PROVE  /\ Grid(rows) = {2 * Min(scores) - 1}
                         \cup (IF Cardinality(scores) > 1 THEN Midpoints(scores) ELSE TheScores(scores))
                         \cup {2 * Max(scores) + 1}
         /\ Grid(rows) \in SUBSET Int /\ IsFiniteSet(Grid(rows))
<1>1. Grid(rows) = {2 * Min(scores) - 1}
                   \cup (IF Cardinality(scores) > 1 THEN Midpoints(scores) ELSE TheScores(scores))
                   \cup {2 * Max(scores) + 1}
  BY DEF Grid, Midpoints, TheScores, NextScore
<1>2. scores \in SUBSET Int /\ scores # {} /\ IsFiniteSet(scores)
  BY ScoresAre
<1>3. /\ Min(scores) \in scores /\ Max(scores) \in scores /\ \A y \in scores : Max(scores) >= y
  BY <1>2, MinMax
<1>4. Min(scores) \in Int /\ Max(scores) \in Int
  BY <1>2, <1>3
<1>5. PICK top \in Int : top = Max(scores)
  BY <1>4
<1>6. \A s \in scores \ {top} : s \in Int /\ NextScore(scores, s) \in Int
  <2> SUFFICES ASSUME NEW s \in scores \ {top} PROVE s \in Int /\ NextScore(scores, s) \in Int
    OBVIOUS
  <2>1. s \in scores /\ s \in Int /\ top \in scores /\ top > s
    BY <1>2, <1>3, <1>5
  <2>2. NextScore(scores, s) \in scores
    BY <1>2, <2>1, NextScoreIs
  <2> QED
    BY <1>2, <2>1, <2>2
<1>7. Midpoints(scores) \in SUBSET Int /\ IsFiniteSet(Midpoints(scores))
  <2>1. PICK R : R = scores \ {top}
    OBVIOUS
  <2>2. R \in SUBSET scores /\ IsFiniteSet(R)
    BY <1>2, <2>1, FS_Subset
  <2>3. Midpoints(scores) = {s + NextScore(scores, s) : s \in R}
    BY <1>5, <2>1 DEF Midpoints
  <2>4. PICK f : f = [s \in R |-> s + NextScore(scores, s)]
    OBVIOUS
  <2>5. f \in Surjection(R, Midpoints(scores))
    BY <2>3, <2>4 DEF Surjection
  <2>6. IsFiniteSet(Midpoints(scores))
    BY <2>2, <2>5, FS_Surjection
  <2>7. Midpoints(scores) \in SUBSET Int
    BY <1>6, <2>1, <2>3
  <2> QED
    BY <2>6, <2>7
<1>8. TheScores(scores) \in SUBSET Int /\ IsFiniteSet(TheScores(scores))
  <2>1. PICK f : f = [s \in scores |-> 2 * s]
    OBVIOUS
  <2>2. f \in Surjection(scores, TheScores(scores))
    BY <2>1 DEF Surjection, TheScores
  <2>3. IsFiniteSet(TheScores(scores))
    BY <1>2, <2>2, FS_Surjection
  <2> QED
    BY <1>2, <2>3 DEF TheScores
<1>9. PICK M : M = IF Cardinality(scores) > 1 THEN Midpoints(scores) ELSE TheScores(scores)
  OBVIOUS
<1>10. M \in SUBSET Int /\ IsFiniteSet(M)
  BY <1>7, <1>8, <1>9
<1>11. PICK lo \in Int, hi \in Int : lo = 2 * Min(scores) - 1 /\ hi = 2 * Max(scores) + 1
  BY <1>4
<1>12. Grid(rows) = ({lo} \cup M) \cup {hi}
  BY <1>1, <1>9, <1>11
<1>13. IsFiniteSet(M \cup {lo}) /\ IsFiniteSet((M \cup {lo}) \cup {hi})
  BY <1>10, FS_AddElement
<1>14. Grid(rows) = (M \cup {lo}) \cup {hi}
  BY <1>12
<1> QED
  BY <1>1, <1>10, <1>13, <1>14

\* Every threshold, on or off the grid, flags the same rows as one of the grid.
LEMMA GridCovers ==
  ASSUME NEW rows \in Seq(ScoredRows), Len(rows) # 0, NEW t \in Int
  PROVE  \E u \in Grid(rows) : \A i \in DOMAIN rows : Flagged(rows[i], t) <=> Flagged(rows[i], u)
<1>1. PICK scores : scores = Scores(rows)
  OBVIOUS
<1>2. /\ scores \in SUBSET Int /\ scores # {} /\ IsFiniteSet(scores)
      /\ \A i \in DOMAIN rows : rows[i].score \in scores
  BY <1>1, ScoresAre
<1>3. PICK lo \in scores, hi \in scores : /\ lo = Min(scores) /\ \A y \in scores : lo <= y
                                          /\ hi = Max(scores) /\ \A y \in scores : hi >= y
  BY <1>2, MinMax
<1> SUFFICES \E u \in Grid(rows) : \A s \in scores : 2 * s > t <=> 2 * s > u
  BY <1>2 DEF Flagged
<1>4. CASE t < 2 * lo
  <2>1. PICK u \in Grid(rows) : u = 2 * lo - 1
    BY <1>1, <1>3, GridIs
  <2>2. \A s \in scores : s \in Int /\ lo <= s /\ lo \in Int
    BY <1>2, <1>3
  <2>3. \A s \in scores : 2 * s > t /\ 2 * s > u
    BY <1>4, <2>1, <2>2
  <2> QED
    BY <2>3
<1>5. CASE t >= 2 * hi
  <2>1. PICK u \in Grid(rows) : u = 2 * hi + 1
    BY <1>1, <1>3, GridIs
  <2>2. \A s \in scores : s \in Int /\ hi >= s /\ hi \in Int
    BY <1>2, <1>3
  <2>3. \A s \in scores : ~ (2 * s > t) /\ ~ (2 * s > u)
    BY <1>5, <2>1, <2>2
  <2> QED
    BY <2>3
<1>6. CASE 2 * lo <= t /\ t < 2 * hi
  <2>1. lo \in Int /\ hi \in Int /\ lo # hi
    BY <1>2, <1>6
  <2>2. PICK B : B = {s \in scores : 2 * s <= t}
    OBVIOUS
  <2>3. B \in SUBSET scores /\ lo \in B /\ hi \notin B
    BY <1>6, <2>1, <2>2
  <2>4. PICK s \in B : \A y \in B : s >= y
    <3>1. IsFiniteSet(B) /\ B \in SUBSET Int
      BY <1>2, <2>3, FS_Subset
    <3> QED
      BY <2>3, <3>1, FiniteExtremes
  <2>5. s \in scores /\ s \in Int /\ 2 * s <= t /\ hi > s /\ s # hi
    BY <1>2, <1>6, <2>1, <2>2, <2>3, <2>4
  <2>6. PICK n \in scores : /\ n = NextScore(scores, s) /\ n > s
                            /\ \A u \in scores : u > s => n <= u
    BY <1>2, <2>5, NextScoreIs
  <2>7. n \in Int /\ 2 * n > t
    <3>1. n \in Int
      BY <1>2
    <3>2. n \notin B
      BY <1>2, <2>4, <2>5, <2>6, <3>1
    <3> QED
      BY <2>2, <3>1, <3>2
  <2>8. Cardinality(scores) > 1
    <3>1. Cardinality(scores) \in Nat
      BY <1>2, FS_CardinalityType
    <3>2. Cardinality(scores) # 0
      BY <1>2, FS_EmptySet
    <3>3. Cardinality(scores) # 1
      <4> SUFFICES ASSUME Cardinality(scores) = 1 PROVE FALSE
        OBVIOUS
      <4>1. \E x : scores = {x}
        BY <1>2, FS_Singleton
      <4> QED
        BY <2>1, <4>1
    <3> QED
      BY <3>1, <3>2, <3>3
  <2>9. PICK u : u = s + n
    OBVIOUS
  <2>10. u \in Grid(rows)
    <3>1. u \in Midpoints(scores)
      BY <1>3, <2>5, <2>6, <2>9 DEF Midpoints
    <3> QED
      BY <1>1, <2>8, <3>1, GridIs
  <2>11. ASSUME NEW v \in scores PROVE 2 * v > t <=> 2 * v > u
    <3>1. v \in Int
      BY <1>2
    <3>2. CASE v > s
      <4>1. n <= v
        BY <2>6, <3>2
      <4> QED
        BY <2>5, <2>6, <2>7, <2>9, <3>1, <4>1
    <3>3. CASE v <= s
      BY <2>5, <2>6, <2>7, <2>9, <3>1, <3>3
    <3> QED
      BY <2>5, <3>1, <3>2, <3>3
  <2> QED
    BY <2>10, <2>11
<1>7. lo \in Int /\ hi \in Int
  BY <1>2
<1> QED
  BY <1>4, <1>5, <1>6, <1>7

\* Some threshold of the grid is not beaten: take one that beats as many as any.
LEMMA SomeUnbeaten ==
  ASSUME NEW rows \in Seq(ScoredRows), NEW G \in SUBSET Int, G # {}, IsFiniteSet(G)
  PROVE  \E t \in G : \A u \in G : ~ BetterKey(Confusion(rows, u), Confusion(rows, t))
<1> DEFINE Beats(t, u) == BetterKey(Confusion(rows, t), Confusion(rows, u))
            Beaten(t) == {u \in G : Beats(t, u)}
<1>1. PICK n \in Nat : n = Cardinality({i \in DOMAIN rows : rows[i].y})
  <2>1. IsFiniteSet(DOMAIN rows)
    BY LenProperties, FS_Interval
  <2>2. {i \in DOMAIN rows : rows[i].y} \in SUBSET DOMAIN rows
    OBVIOUS
  <2>3. IsFiniteSet({i \in DOMAIN rows : rows[i].y})
    BY <2>1, <2>2, FS_Subset
  <2> QED
    BY <2>3, FS_CardinalityType
<1>2. \A t \in G : IsConfusion(Confusion(rows, t), n)
  BY <1>1, ConfusionIs
<1>3. ASSUME NEW t \in G, NEW u \in G, NEW v \in G, Beats(t, u), Beats(u, v) PROVE Beats(t, v)
  BY <1>2, <1>3, BetterTransitive
<1>4. \A t \in G : ~ Beats(t, t)
  <2> SUFFICES ASSUME NEW t \in G PROVE ~ Beats(t, t)
    OBVIOUS
  <2>1. PICK c : c = Confusion(rows, t)
    OBVIOUS
  <2>2. c.tp \in Nat /\ c.fp \in Nat /\ c.fn \in Nat
    BY <1>2, <2>1 DEF IsConfusion
  <2>3. ~ BetterKey(c, c)
    <3>1. PICK p \in Nat : p = c.tp * (2 * c.tp + c.fp + c.fn)
      <4>1. 2 * c.tp + c.fp + c.fn \in Nat
        BY <2>2
      <4> QED
        BY <2>2, <4>1, Products
    <3> QED
      BY <2>2, <3>1 DEF BetterKey
  <2> QED
    BY <2>1, <2>3
<1> HIDE DEF Beats
<1>5. \A t \in G : Beaten(t) \in SUBSET G /\ IsFiniteSet(Beaten(t)) /\ Cardinality(Beaten(t)) \in Nat
                   /\ Cardinality(Beaten(t)) <= Cardinality(G)
  <2> SUFFICES ASSUME NEW t \in G
                PROVE  /\ Beaten(t) \in SUBSET G /\ IsFiniteSet(Beaten(t))
                       /\ Cardinality(Beaten(t)) \in Nat
                       /\ Cardinality(Beaten(t)) <= Cardinality(G)
    OBVIOUS
  <2>1. Beaten(t) \in SUBSET G
    OBVIOUS
  <2>2. IsFiniteSet(Beaten(t)) /\ Cardinality(Beaten(t)) <= Cardinality(G)
    BY <2>1, FS_Subset
  <2> QED
    BY <2>1, <2>2, FS_CardinalityType
<1>6. PICK S : S = {Cardinality(Beaten(t)) : t \in G}
  OBVIOUS
<1>7. S \in SUBSET Nat /\ S # {} /\ Cardinality(G) \in Nat /\ \A x \in S : x <= Cardinality(G)
  BY <1>5, <1>6, FS_CardinalityType
<1>8. PICK x \in S : \A y \in S : y <= x
  BY <1>7, GreatestMember
<1>9. PICK t \in G : x = Cardinality(Beaten(t))
  BY <1>6
<1>10. ASSUME NEW u \in G, Beats(u, t) PROVE FALSE
  <2>1. Beaten(t) \in SUBSET Beaten(u)
    BY <1>3, <1>10
  <2>2. t \in Beaten(u) /\ t \notin Beaten(t)
    BY <1>4, <1>10
  <2>3. PICK A, B : A = Beaten(t) /\ B = Beaten(u)
    OBVIOUS
  <2>4. IsFiniteSet(B) /\ A \in SUBSET B /\ A # B /\ Cardinality(A) \in Nat /\ Cardinality(B) \in Nat
    BY <1>5, <2>1, <2>2, <2>3
  <2>5. Cardinality(A) <= Cardinality(B) /\ Cardinality(B) # Cardinality(A)
    BY <2>4, FS_Subset
  <2>6. Cardinality(B) \in S /\ x = Cardinality(A)
    BY <1>6, <1>9, <2>3
  <2>7. Cardinality(B) <= Cardinality(A)
    BY <1>8, <2>6
  <2> QED
    BY <2>4, <2>5, <2>7
<1>11. \A u \in G : ~ Beats(u, t)
  BY <1>10
<1> QED
  BY <1>11 DEF Beats

\* calibrate_threshold finds the best of all thresholds, not of its grid only.
LEMMA CalibrationOptimal ==
  ASSUME NEW rows \in Seq(ScoredRows), Len(rows) # 0, NEW t \in Int
  PROVE  ~ BetterKey(Confusion(rows, t), Confusion(rows, CalibrateThreshold(rows)))
<1>1. PICK G : G = Grid(rows)
  OBVIOUS
<1>2. G \in SUBSET Int /\ IsFiniteSet(G)
  BY <1>1, GridIs
<1>3. PICK u \in G : \A i \in DOMAIN rows : Flagged(rows[i], t) <=> Flagged(rows[i], u)
  BY <1>1, GridCovers
<1>4. Confusion(rows, t) = Confusion(rows, u)
  BY <1>3, SameConfusion
<1>5. PICK B : B = {v \in G : \A w \in G : ~ BetterKey(Confusion(rows, w), Confusion(rows, v))}
  OBVIOUS
<1>6. B # {} /\ B \in SUBSET G
  BY <1>2, <1>3, <1>5, SomeUnbeaten
<1>7. IsFiniteSet(B) /\ B \in SUBSET Int
  BY <1>2, <1>6, FS_Subset
<1>8. Min(B) \in B
  BY <1>6, <1>7, MinMax
<1>9. CalibrateThreshold(rows) = Min(B)
  BY <1>1, <1>5 DEF CalibrateThreshold
<1> QED
  BY <1>3, <1>4, <1>5, <1>8, <1>9

\* A share is at least one row.
LEMMA ShareIs ==
  ASSUME NEW n \in Nat, NEW percent \in Nat
  PROVE  Share(n, percent) \in Nat /\ Share(n, percent) >= 1
<1>1. (n * percent + 50) \div 100 \in Int
  <2>1. n * percent \in Nat
    BY Products
  <2>2. PICK k \in Nat : k = n * percent
    BY <2>1
  <2>3. (k + 50) \div 100 \in Int
    OBVIOUS
  <2> QED
    BY <2>2, <2>3
<1>2. PICK x \in Int : x = (n * percent + 50) \div 100
  BY <1>1
<1>3. IsFiniteSet({1}) /\ IsFiniteSet({1} \cup {x})
  BY FS_Singleton, FS_AddElement
<1>4. {1, x} = {1} \cup {x} /\ {1, x} \in SUBSET Int /\ {1, x} # {} /\ 1 \in {1, x}
  OBVIOUS
<1>5. IsFiniteSet({1, x})
  BY <1>3, <1>4
<1>6. Max({1, x}) \in {1, x} /\ Max({1, x}) >= 1
  BY <1>4, <1>5, MinMax
<1> QED
  BY <1>2, <1>4, <1>6 DEF Share

\* chronological_split cuts the rows in three, of which the middle one has a row.
LEMMA SplitIs ==
  ASSUME NEW rows \in Seq(ScoredRows), Split(rows) # None
  PROVE  /\ Split(rows).val \in Seq(ScoredRows) /\ Len(Split(rows).val) # 0
         /\ Split(rows).train \o Split(rows).val \o Split(rows).test = rows
<1>1. PICK n \in Nat : n = Len(rows)
  BY LenProperties
<1>2. PICK v \in Nat, u \in Nat :
        v = Share(n, ValPercent) /\ u = Share(n, TestPercent) /\ v >= 1 /\ u >= 1
  BY ShareIs DEF ValPercent, TestPercent
<1>3. PICK m \in Int : m = n - v - u
  OBVIOUS
<1>4. /\ m > 0
      /\ Split(rows) = [train |-> SubSeq(rows, 1, m), val |-> SubSeq(rows, m + 1, m + v),
                        test |-> SubSeq(rows, m + v + 1, n)]
  BY <1>1, <1>2, <1>3 DEF Split
<1>5. m \in Nat /\ n = m + v + u
  BY <1>3, <1>4
<1>6. PICK a, b, c : /\ a = SubSeq(rows, 1, m) /\ b = SubSeq(rows, m + 1, m + v)
                     /\ c = SubSeq(rows, m + v + 1, m + v + u)
  OBVIOUS
<1>7. Split(rows).train = a /\ Split(rows).val = b /\ Split(rows).test = c
  BY <1>4, <1>5, <1>6
<1>8. Len(rows) = m + v + u
  BY <1>1, <1>5
<1>9. b \in Seq(ScoredRows) /\ Len(b) = v /\ a \o b \o c = rows
  <2>1. \A i \in 1 .. m + v + u : rows[i] \in ScoredRows
    BY <1>8, ElementOfSeq
  <2>2. a \in Seq(ScoredRows) /\ Len(a) = m /\ \A i \in 1 .. m : a[i] = rows[i]
    <3>1. \A i \in 1 .. m : rows[i] \in ScoredRows
      BY <1>5, <2>1
    <3>2. \A i \in 1 .. m - 1 + 1 : a[i] = rows[1 + i - 1]
      BY <1>6, <3>1, SubSeqProperties
    <3>3. a \in Seq(ScoredRows) /\ Len(a) = IF 1 <= m THEN m - 1 + 1 ELSE 0
      BY <1>6, <3>1, SubSeqProperties
    <3> QED
      BY <1>5, <3>2, <3>3
  <2>3. b \in Seq(ScoredRows) /\ Len(b) = v /\ \A i \in 1 .. v : b[i] = rows[m + i]
    <3>1. \A i \in m + 1 .. m + v : rows[i] \in ScoredRows
      BY <1>5, <2>1
    <3>2. \A i \in 1 .. m + v - (m + 1) + 1 : b[i] = rows[m + 1 + i - 1]
      BY <1>6, <3>1, SubSeqProperties
    <3>3. b \in Seq(ScoredRows) /\ Len(b) = IF m + 1 <= m + v THEN m + v - (m + 1) + 1 ELSE 0
      BY <1>6, <3>1, SubSeqProperties
    <3> QED
      BY <1>5, <3>2, <3>3
  <2>4. c \in Seq(ScoredRows) /\ Len(c) = u /\ \A i \in 1 .. u : c[i] = rows[m + v + i]
    <3>1. \A i \in m + v + 1 .. m + v + u : rows[i] \in ScoredRows
      BY <1>5, <2>1
    <3>2. \A i \in 1 .. m + v + u - (m + v + 1) + 1 : c[i] = rows[m + v + 1 + i - 1]
      BY <1>6, <3>1, SubSeqProperties
    <3>3. c \in Seq(ScoredRows)
          /\ Len(c) = IF m + v + 1 <= m + v + u THEN m + v + u - (m + v + 1) + 1 ELSE 0
      BY <1>6, <3>1, SubSeqProperties
    <3> QED
      BY <1>5, <3>2, <3>3
  <2>5. PICK ab : ab = a \o b
    OBVIOUS
  <2>6. /\ ab \in Seq(ScoredRows) /\ Len(ab) = m + v
        /\ \A i \in 1 .. m + v : ab[i] = IF i <= m THEN a[i] ELSE b[i - m]
    <3>1. a \in Seq(ScoredRows) /\ b \in Seq(ScoredRows)
      BY <2>2, <2>3
    <3>2. /\ ab \in Seq(ScoredRows) /\ Len(ab) = Len(a) + Len(b)
          /\ \A i \in 1 .. Len(a) + Len(b) : ab[i] = IF i <= Len(a) THEN a[i] ELSE b[i - Len(a)]
      BY <2>5, <3>1, ConcatProperties, Zenon
    <3> QED
      BY <2>2, <2>3, <3>2
  <2>7. \A i \in 1 .. m + v : ab[i] = rows[i]
    <3> SUFFICES ASSUME NEW i \in 1 .. m + v PROVE ab[i] = rows[i]
      OBVIOUS
    <3>1. CASE i <= m
      BY <2>2, <2>6, <3>1
    <3>2. CASE i > m
      <4>1. i - m \in 1 .. v /\ m + (i - m) = i
        BY <3>2
      <4>2. ab[i] = b[i - m]
        BY <2>6, <3>2
      <4> QED
        BY <2>3, <4>1, <4>2
    <3> QED
      BY <3>1, <3>2
  <2>8. PICK abc : abc = ab \o c
    OBVIOUS
  <2>9. /\ abc \in Seq(ScoredRows) /\ Len(abc) = m + v + u
        /\ \A i \in 1 .. m + v + u : abc[i] = IF i <= m + v THEN ab[i] ELSE c[i - (m + v)]
    <3>1. ab \in Seq(ScoredRows) /\ c \in Seq(ScoredRows)
      BY <2>4, <2>6
    <3>2. /\ abc \in Seq(ScoredRows) /\ Len(abc) = Len(ab) + Len(c)
          /\ \A i \in 1 .. Len(ab) + Len(c) : abc[i] = IF i <= Len(ab) THEN ab[i] ELSE c[i - Len(ab)]
      BY <2>8, <3>1, ConcatProperties, Zenon
    <3> QED
      BY <2>4, <2>6, <3>2
  <2>10. \A i \in 1 .. m + v + u : abc[i] = rows[i]
    <3> SUFFICES ASSUME NEW i \in 1 .. m + v + u PROVE abc[i] = rows[i]
      OBVIOUS
    <3>1. CASE i <= m + v
      BY <2>7, <2>9, <3>1
    <3>2. CASE i > m + v
      <4>1. i - (m + v) \in 1 .. u /\ (m + v) + (i - (m + v)) = i
        BY <3>2
      <4>2. abc[i] = c[i - (m + v)]
        BY <2>9, <3>2
      <4> QED
        BY <2>4, <4>1, <4>2
    <3> QED
      BY <3>1, <3>2
  <2>11. abc = rows
    BY <1>8, <2>9, <2>10, SeqEqual
  <2> QED
    BY <2>3, <2>5, <2>8, <2>11
<1>10. Len(b) # 0
  BY <1>2, <1>9
<1> QED
  BY <1>7, <1>9, <1>10, Zenon

-----------------------------------------------------------------------------
(* The threshold of a trained model.                                       *)

\* The datasets stay the ones of the start, and a job that has trained keeps the
\* threshold calibrated on the validation part of its data.
DataSound == datasets \subseteq Seq(ScoredRows)

TrainedSound(r) ==
    r.pc = "trained" =>
        /\ r.data \in Seq(ScoredRows) /\ Split(r.data) # None
        /\ r.threshold = CalibrateThreshold(Split(r.data).val)

TInv == DataSound /\ \A j \in Jobs : TrainedSound(job[j])

\* A job that is at any other place has nothing to show.
LEMMA OtherPCs ==
    ASSUME NEW r, r.pc # "trained"
    PROVE  TrainedSound(r)
BY DEF TrainedSound

\* One job moves, to a record that is sound.
LEMMA OneMoves ==
    ASSUME IInv, TInv, UNCHANGED datasets, NEW j \in Jobs, NEW r, Continue(j, r), TrainedSound(r)
    PROVE  TInv'
<1>1. job'[j] = r /\ \A k \in Jobs : k # j => job'[k] = job[k]
  BY DEF IInv, Continue
<1>2. \A k \in Jobs : TrainedSound(job'[k])
  BY <1>1 DEF TInv
<1> QED
  BY <1>2 DEF TInv, DataSound, TrainedSound

\* Every step of a job but its training leaves it at another place.
LEMMA OtherSteps ==
    ASSUME IInv, TInv, NEW j \in Jobs,
           \/ Start(j) \/ Dies(j) \/ Register(j) \/ Gate(j)
           \/ Promotion(j) \/ DriftScript(j)
    PROVE  TInv'
<1>1. DOMAIN job[j] = Fields /\ job[j].then \in {None, "detect"}
  BY DEF IInv, JobSound
<1>2. TrainedSound(Idle) /\ TrainedSound(AfterRetraining(j))
  <2>1. Idle.pc # "trained"
    BY DEF Idle
  <2>2. AfterRetraining(j).pc # "trained"
    BY <1>1, <2>1 DEF AfterRetraining, Fields
  <2> QED
    BY <2>1, <2>2, OtherPCs
<1>3. UNCHANGED datasets
  BY DEF Start, Dies, Register, Gate, Promotion, ReadOld, SetPrevious, SetCandidate,
         SetChampion, DriftScript, CheckBaseline, Detect, Registry, World
<1>4. CASE Start(j)
  <2>1. PICK r : Continue(j, r) /\ r.pc \in {"load", "gate", "drift"}
    <3>1. \A promote : [Idle EXCEPT !.pc = "load", !.promote = promote].pc = "load"
      BY DEF Idle
    <3>2. \A v, m : [Idle EXCEPT !.pc = "gate", !.promote = TRUE, !.version = v,
                                 !.metrics = m].pc = "gate"
      BY DEF Idle
    <3>3. [Idle EXCEPT !.pc = "drift"].pc = "drift"
      BY DEF Idle
    <3>4. \/ \E promote \in BOOLEAN : Continue(j, [Idle EXCEPT !.pc = "load", !.promote = promote])
          \/ \E v \in DOMAIN versions :
                Continue(j, [Idle EXCEPT !.pc = "gate", !.promote = TRUE, !.version = v,
                                         !.metrics = versions[v].metrics])
          \/ Continue(j, [Idle EXCEPT !.pc = "drift"])
      BY <1>4 DEF Start
    <3>5. CASE \E promote \in BOOLEAN :
                 Continue(j, [Idle EXCEPT !.pc = "load", !.promote = promote])
      BY <3>1, <3>5
    <3>6. CASE \E v \in DOMAIN versions :
                 Continue(j, [Idle EXCEPT !.pc = "gate", !.promote = TRUE, !.version = v,
                                          !.metrics = versions[v].metrics])
      BY <3>2, <3>6
    <3>7. CASE Continue(j, [Idle EXCEPT !.pc = "drift"])
      BY <3>3, <3>7
    <3> QED
      BY <3>4, <3>5, <3>6, <3>7
  <2> QED
    BY <1>3, <2>1, OtherPCs, OneMoves
<1>5. CASE Dies(j)
  BY <1>2, <1>3, <1>5, OneMoves DEF Dies, Ended
<1>6. CASE Register(j)
  <2>1. \A v : [job[j] EXCEPT !.pc = "gate", !.version = v, !.data = None, !.threshold = None,
                              !.baseline = None].pc = "gate"
    BY <1>1 DEF Fields
  <2>2. PICK v : Continue(j, [job[j] EXCEPT !.pc = "gate", !.version = v, !.data = None,
                                            !.threshold = None, !.baseline = None])
    BY <1>6 DEF Register
  <2>3. "gate" # "trained"
    OBVIOUS
  <2> QED
    BY <1>3, <2>1, <2>2, <2>3, OtherPCs, OneMoves
<1>7. CASE Gate(j)
  <2>1. [job[j] EXCEPT !.pc = "readold"].pc = "readold"
    BY <1>1 DEF Fields
  <2>2. TrainedSound([job[j] EXCEPT !.pc = "readold"])
    BY <2>1, OtherPCs
  <2>3. Continue(j, [job[j] EXCEPT !.pc = "readold"]) \/ Continue(j, AfterRetraining(j))
    BY <1>7 DEF Gate
  <2> QED
    BY <1>2, <1>3, <2>2, <2>3, OneMoves
<1>8. CASE Promotion(j)
  <2>1. ASSUME NEW old, NEW pc \in Promoting
        PROVE  /\ TrainedSound([job[j] EXCEPT !.old = old, !.pc = pc])
               /\ TrainedSound([job[j] EXCEPT !.pc = pc])
    <3>1. /\ [job[j] EXCEPT !.old = old, !.pc = pc].pc = pc
          /\ [job[j] EXCEPT !.pc = pc].pc = pc
      BY <1>1 DEF Fields
    <3>2. pc # "trained"
      BY DEF Promoting
    <3> QED
      BY <3>1, <3>2, OtherPCs
  <2>2. \/ \E old : \E pc \in Promoting : Continue(j, [job[j] EXCEPT !.old = old, !.pc = pc])
        \/ \E pc \in Promoting : Continue(j, [job[j] EXCEPT !.pc = pc])
        \/ Continue(j, AfterRetraining(j))
    <3>1. CASE ReadOld(j)
      <4>1. PICK old : Continue(j, [job[j] EXCEPT !.old = old,
                          !.pc = IF old \in {None, job[j].version} THEN "setcandidate"
                                 ELSE "setprevious"])
        BY <3>1 DEF ReadOld
      <4>2. PICK pc \in Promoting :
              pc = IF old \in {None, job[j].version} THEN "setcandidate" ELSE "setprevious"
        BY DEF Promoting
      <4> QED
        BY <4>1, <4>2
    <3>2. CASE SetPrevious(j) \/ SetCandidate(j)
      <4>1. PICK pc \in Promoting : Continue(j, [job[j] EXCEPT !.pc = pc])
        BY <3>2 DEF SetPrevious, SetCandidate, Promoting
      <4> QED
        BY <4>1
    <3>3. CASE SetChampion(j)
      BY <3>3 DEF SetChampion
    <3> QED
      BY <1>8, <3>1, <3>2, <3>3 DEF Promotion
  <2> QED
    BY <1>2, <1>3, <2>1, <2>2, OneMoves
<1>9. CASE DriftScript(j)
  <2>1. \A v : [job[j] EXCEPT !.pc = "detect", !.version = v].pc = "detect"
    BY <1>1 DEF Fields
  <2>2. [job[j] EXCEPT !.pc = "load", !.promote = TRUE, !.then = "detect"].pc = "load"
    BY <1>1 DEF Fields
  <2>3. [Idle EXCEPT !.pc = "load"].pc = "load"
    BY DEF Idle
  <2>4. /\ \A v : TrainedSound([job[j] EXCEPT !.pc = "detect", !.version = v])
        /\ TrainedSound([job[j] EXCEPT !.pc = "load", !.promote = TRUE, !.then = "detect"])
        /\ TrainedSound([Idle EXCEPT !.pc = "load"])
    BY <2>1, <2>2, <2>3, OtherPCs
  <2>5. CASE CheckBaseline(j)
    BY <1>3, <2>4, <2>5, OneMoves DEF CheckBaseline
  <2>6. CASE Detect(j)
    <3>1. Continue(j, [Idle EXCEPT !.pc = "load"]) \/ Continue(j, Idle)
      BY <2>6 DEF Detect, Ended
    <3> QED
      BY <1>2, <1>3, <2>4, <3>1, OneMoves
  <2> QED
    BY <1>9, <2>5, <2>6 DEF DriftScript
<1> QED
  BY <1>4, <1>5, <1>6, <1>7, <1>8, <1>9

\* Training keeps the calibrated threshold, or ends the job when the split fails.
LEMMA TrainCalibrates ==
    ASSUME IInv, TInv, NEW j \in Jobs, Train(j)
    PROVE  TInv'
<1>1. DOMAIN job[j] = Fields
  BY DEF IInv, JobSound
<1>2. UNCHANGED datasets
  BY DEF Train, Registry, World
<1>3. PICK rows \in datasets :
        LET split == Split(rows)
        IN  IF split = None THEN Ended(j)
            ELSE LET threshold == CalibrateThreshold(split.val)
                 IN  Continue(j, [job[j] EXCEPT !.pc = "trained", !.data = rows,
                                     !.threshold = threshold,
                                     !.metrics = PointwiseMetrics(split.test, threshold),
                                     !.baseline = FreezeBaseline(split.train)])
  BY DEF Train
<1>4. rows \in Seq(ScoredRows)
  BY DEF TInv, DataSound
<1>5. CASE Split(rows) = None
  <2>1. TrainedSound(Idle)
    BY OtherPCs DEF Idle
  <2> QED
    BY <1>2, <1>3, <1>5, <2>1, OneMoves DEF Ended
<1>6. CASE Split(rows) # None
  <2>1. PICK threshold, metrics, baseline :
          /\ threshold = CalibrateThreshold(Split(rows).val)
          /\ Continue(j, [job[j] EXCEPT !.pc = "trained", !.data = rows,
                             !.threshold = threshold, !.metrics = metrics,
                             !.baseline = baseline])
    BY <1>3, <1>6
  <2>2. PICK r : r = [job[j] EXCEPT !.pc = "trained", !.data = rows,
                             !.threshold = threshold, !.metrics = metrics,
                             !.baseline = baseline]
    OBVIOUS
  <2>3. r.data = rows /\ r.threshold = threshold
    BY <1>1, <2>2 DEF Fields
  <2>4. TrainedSound(r)
    BY <1>4, <1>6, <2>1, <2>3 DEF TrainedSound
  <2> QED
    BY <1>2, <2>1, <2>2, <2>4, OneMoves
<1> QED
  BY <1>5, <1>6

\* No threshold at all separates the validation rows of a trained model better
\* than the one calibrate_threshold picked from its grid, and the chronological
\* split neither loses nor mixes rows: for datasets of any length and any scores.
THEOREM BestThreshold == Spec => []ThresholdOptimal
<1>1. Init => TInv
  BY RegistryAssumption DEF Init, TInv, DataSound, TrainedSound, ScoredRows, Idle
<1>2. IInv /\ TInv /\ [Next]_vars => TInv'
  <2> SUFFICES ASSUME IInv, TInv, [Next]_vars PROVE TInv'
    OBVIOUS
  <2>1. CASE UNCHANGED <<datasets, job>>
    BY <2>1 DEF TInv, DataSound, TrainedSound
  <2>2. ResolveModel \/ DownloadModel \/ LoadFails \/ DetectorExits => UNCHANGED <<datasets, job>>
    BY DEF ResolveModel, DownloadModel, LoadFails, DetectorExits, Registry, World
  <2>3. ASSUME NEW j \in Jobs,
               Start(j) \/ Dies(j) \/ Retraining(j) \/ Promotion(j) \/ DriftScript(j)
        PROVE  TInv'
    BY <2>3, TrainCalibrates, OtherSteps DEF Retraining
  <2> QED
    BY <2>1, <2>2, <2>3 DEF Next, vars
<1>3. TInv => ThresholdOptimal
  <2> SUFFICES ASSUME TInv, NEW j \in InTraining
               PROVE  LET split == Split(job[j].data)
                          best == Confusion(split.val, job[j].threshold)
                      IN  /\ split.train \o split.val \o split.test = job[j].data
                          /\ \A t \in -1 .. 2 * Max(Scores(split.val)) + 2 :
                                ~ BetterKey(Confusion(split.val, t), best)
    BY DEF ThresholdOptimal
  <2>1. PICK rows : rows = job[j].data
    OBVIOUS
  <2>2. /\ rows \in Seq(ScoredRows) /\ Split(rows) # None
        /\ job[j].threshold = CalibrateThreshold(Split(rows).val)
    BY <2>1 DEF TInv, TrainedSound, InTraining
  <2>3. /\ Split(rows).val \in Seq(ScoredRows) /\ Len(Split(rows).val) # 0
        /\ Split(rows).train \o Split(rows).val \o Split(rows).test = rows
    BY <2>2, SplitIs
  <2>4. \A t \in Int : ~ BetterKey(Confusion(Split(rows).val, t),
                                   Confusion(Split(rows).val, CalibrateThreshold(Split(rows).val)))
    BY <2>3, CalibrationOptimal
  <2>5. \A t \in -1 .. 2 * Max(Scores(Split(rows).val)) + 2 : t \in Int
    OBVIOUS
  <2> QED
    BY <2>1, <2>2, <2>3, <2>4, <2>5
<1> QED
  BY <1>1, <1>2, <1>3, Inductive, PTL DEF Spec

-----------------------------------------------------------------------------
(* Types.                                                                  *)

\* A job's program counter and the versions it names, which must exist.
JobTyped(r, known) ==
    /\ r.pc \in JobPCs
    /\ r.version \in known \cup {None} /\ r.old \in known \cup {None}
    /\ r.pc \in {"gate", "detect"} => r.version \in known

TypeInv ==
    /\ Len(versions) <= MaxVersions
    /\ \A j \in Jobs : JobTyped(job[j], Versions)
    /\ det.source \in {None, "registry", "local-fallback"}

\* Versions are never taken away.
LEMMA VersionsGrow ==
    ASSUME IInv, [Next]_vars
    PROVE  Versions \subseteq Versions'
<1>1. CASE \E j \in Jobs : Register(j)
  <2>1. PICK record : versions' = Append(versions, record)
    BY <1>1 DEF Register
  <2> QED
    BY <2>1, AppendKeeps DEF IInv, RegistrySound, Versions
<1>2. CASE ~ \E j \in Jobs : Register(j)
  <2>1. versions' = versions
    BY <1>2 DEF Next, Start, Dies, Retraining, Train, Gate, Promotion, ReadOld, SetPrevious,
                SetCandidate, SetChampion, DriftScript, CheckBaseline, Detect, ResolveModel,
                DownloadModel, LoadFails, DetectorExits, Registry, World, vars
  <2> QED
    BY <2>1 DEF Versions
<1> QED
  BY <1>1, <1>2

\* One job moves, to a record that is typed.
LEMMA OneTyped ==
    ASSUME IInv, TypeInv, Versions \subseteq Versions', NEW j \in Jobs, NEW r, Continue(j, r),
           JobTyped(r, Versions')
    PROVE  \A k \in Jobs : JobTyped(job'[k], Versions')
<1>1. job'[j] = r /\ \A k \in Jobs : k # j => job'[k] = job[k]
  BY DEF IInv, Continue
<1>2. ASSUME NEW k \in Jobs, k # j PROVE JobTyped(job'[k], Versions')
  <2>1. JobTyped(job[k], Versions)
    BY DEF TypeInv
  <2> QED
    BY <1>1, <1>2, <2>1 DEF JobTyped
<1> QED
  BY <1>1, <1>2 DEF JobTyped

\* A step of a job leaves it typed.
LEMMA JobTypedStep ==
    ASSUME IInv, TypeInv, Versions \subseteq Versions', NEW j \in Jobs,
           Start(j) \/ Dies(j) \/ Retraining(j) \/ Promotion(j) \/ DriftScript(j)
    PROVE  \E r : Continue(j, r) /\ JobTyped(r, Versions')
<1>1. PICK s : s = job[j]
  OBVIOUS
<1>2. /\ DOMAIN s = Fields /\ s.then \in {None, "detect"}
      /\ s.pc \in {"gate"} \cup Promoting => s.version \in Versions
      /\ s.pc = "setprevious" => s.old \in Versions
      /\ JobTyped(s, Versions)
  BY <1>1 DEF IInv, JobSound, TypeInv, RegistrySound, Gated, Versions
<1>3. JobTyped(s, Versions')
  BY <1>2 DEF JobTyped
<1>4. JobTyped(Idle, Versions')
  BY DEF JobTyped, Idle, JobPCs
<1>5. aliases["champion"] \in Versions' \cup {None}
  BY DEF IInv, RegistrySound, Gated, Versions
<1>6. JobTyped(AfterRetraining(j), Versions') \/ s.pc \notin {"gate", "setchampion"}
  <2>. SUFFICES ASSUME s.pc \in {"gate", "setchampion"}, s.then = "detect"
                PROVE  JobTyped([s EXCEPT !.pc = s.then], Versions')
    BY <1>1, <1>2, <1>4 DEF AfterRetraining
  <2>1. s.version \in Versions'
    BY <1>2 DEF Promoting
  <2> QED
    BY <1>2, <1>3, <2>1 DEF JobTyped, Fields, JobPCs
<1>7. CASE Start(j)
  <2>1. ASSUME NEW promote PROVE JobTyped([Idle EXCEPT !.pc = "load", !.promote = promote], Versions')
    BY DEF JobTyped, Idle, JobPCs
  <2>2. ASSUME NEW v \in DOMAIN versions, NEW m
        PROVE  JobTyped([Idle EXCEPT !.pc = "gate", !.promote = TRUE, !.version = v, !.metrics = m], Versions')
    BY DEF JobTyped, Idle, JobPCs, Versions
  <2>3. JobTyped([Idle EXCEPT !.pc = "drift"], Versions')
    BY DEF JobTyped, Idle, JobPCs
  <2> QED
    BY <1>7, <2>1, <2>2, <2>3, Zenon DEF Start
<1>8. CASE Dies(j)
  BY <1>4, <1>8 DEF Dies, Ended
<1>9. CASE Train(j)
  <2>1. ASSUME NEW d, NEW t, NEW m, NEW b
        PROVE  JobTyped([s EXCEPT !.pc = "trained", !.data = d, !.threshold = t, !.metrics = m,
                                  !.baseline = b], Versions')
    BY <1>2, <1>3 DEF JobTyped, Fields, JobPCs
  <2>2. PICK rows \in datasets :
          LET split == Split(rows)
          IN  IF split = None THEN Ended(j)
              ELSE LET threshold == CalibrateThreshold(split.val)
                   IN  Continue(j, [job[j] EXCEPT !.pc = "trained", !.data = rows,
                                       !.threshold = threshold,
                                       !.metrics = PointwiseMetrics(split.test, threshold),
                                       !.baseline = FreezeBaseline(split.train)])
    BY <1>9 DEF Train
  <2>3. PICK t, m, b : \/ Ended(j)
                       \/ Continue(j, [job[j] EXCEPT !.pc = "trained", !.data = rows, !.threshold = t,
                                                     !.metrics = m, !.baseline = b])
    BY <2>2
  <2> QED
    BY <1>1, <1>4, <2>1, <2>3 DEF Ended
<1>10. CASE Register(j)
  <2>1. PICK r : r = [s EXCEPT !.pc = "gate", !.version = Len(versions) + 1,
                               !.data = None, !.threshold = None, !.baseline = None]
    OBVIOUS
  <2>2. Continue(j, r) /\ versions' = Append(versions, LoggedRun(j))
    BY <1>1, <1>10, <2>1 DEF Register
  <2>3. Len(versions) + 1 \in Versions'
    BY <2>2, AppendKeeps DEF IInv, RegistrySound, Versions
  <2>4. r.pc = "gate" /\ r.version = Len(versions) + 1 /\ r.old = s.old
    BY <1>2, <2>1 DEF Fields
  <2> QED
    BY <1>3, <2>2, <2>3, <2>4 DEF JobTyped, JobPCs
<1>11. CASE Gate(j)
  <2>1. s.pc = "gate"
    BY <1>1, <1>11 DEF Gate
  <2>2. JobTyped([s EXCEPT !.pc = "readold"], Versions')
    BY <1>2, <1>3 DEF JobTyped, Fields, JobPCs
  <2>3. Continue(j, [s EXCEPT !.pc = "readold"]) \/ Continue(j, AfterRetraining(j))
    BY <1>1, <1>11 DEF Gate
  <2> QED
    BY <1>6, <2>1, <2>2, <2>3
<1>12. CASE ReadOld(j)
  <2>1. PICK old \in {None, aliases["champion"]}, pc \in {"setcandidate", "setprevious"} :
           Continue(j, [s EXCEPT !.old = old, !.pc = pc])
    BY <1>1, <1>12 DEF ReadOld
  <2>2. JobTyped([s EXCEPT !.old = old, !.pc = pc], Versions')
    BY <1>2, <1>3, <1>5, <2>1 DEF JobTyped, Fields, JobPCs
  <2> QED
    BY <2>1, <2>2
<1>13. CASE SetPrevious(j) \/ SetCandidate(j)
  <2>1. PICK pc \in {"setcandidate", "setchampion"} : Continue(j, [s EXCEPT !.pc = pc])
    BY <1>1, <1>13 DEF SetPrevious, SetCandidate
  <2>2. JobTyped([s EXCEPT !.pc = pc], Versions')
    BY <1>2, <1>3 DEF JobTyped, Fields, JobPCs
  <2> QED
    BY <2>1, <2>2
<1>14. CASE SetChampion(j)
  BY <1>1, <1>6, <1>14 DEF SetChampion
<1>15. CASE CheckBaseline(j)
  <2>1. ASSUME aliases["champion"] # None
        PROVE  JobTyped([s EXCEPT !.pc = "detect", !.version = aliases["champion"]], Versions')
    BY <1>2, <1>3, <1>5, <2>1 DEF JobTyped, Fields, JobPCs
  <2>2. JobTyped([s EXCEPT !.pc = "load", !.promote = TRUE, !.then = "detect"], Versions')
    BY <1>2, <1>3 DEF JobTyped, Fields, JobPCs
  <2> QED
    BY <1>1, <1>15, <2>1, <2>2 DEF CheckBaseline
<1>16. CASE Detect(j)
  <2>1. JobTyped([Idle EXCEPT !.pc = "load"], Versions')
    BY DEF JobTyped, Idle, JobPCs
  <2> QED
    BY <1>4, <1>16, <2>1 DEF Detect, Ended
<1> QED
  BY <1>7, <1>8, <1>9, <1>10, <1>11, <1>12, <1>13, <1>14, <1>15, <1>16
     DEF Retraining, Promotion, DriftScript

\* Every step keeps the types.
LEMMA TypesStep == IInv /\ TypeInv /\ [Next]_vars => TypeInv'
<1> SUFFICES ASSUME IInv, TypeInv, [Next]_vars PROVE TypeInv'
  OBVIOUS
<1>1. Versions \subseteq Versions'
  BY VersionsGrow
<1>2. CASE UNCHANGED vars
  BY <1>2 DEF vars, TypeInv, JobTyped, Versions
<1>3. ASSUME NEW j \in Jobs,
             Start(j) \/ Dies(j) \/ Retraining(j) \/ Promotion(j) \/ DriftScript(j)
      PROVE  TypeInv'
  <2>1. \A k \in Jobs : JobTyped(job'[k], Versions')
    BY <1>1, <1>3, JobTypedStep, OneTyped
  <2>2. det' = det
    BY <1>3 DEF Start, Dies, Retraining, Train, Register, Gate, Promotion, ReadOld, SetPrevious,
                SetCandidate, SetChampion, DriftScript, CheckBaseline, Detect
  <2>3. Len(versions') <= MaxVersions
    <3>1. CASE Register(j)
      <4>1. Len(versions) < MaxVersions /\ versions' = Append(versions, LoggedRun(j))
        BY <3>1 DEF Register
      <4>2. Len(versions') = Len(versions) + 1 /\ Len(versions) \in Nat
        BY <4>1 DEF IInv, RegistrySound
      <4> QED
        BY <4>1, <4>2, RegistryAssumption
    <3>2. CASE ~ Register(j)
      <4>1. versions' = versions
        BY <1>3, <3>2 DEF Start, Dies, Retraining, Train, Gate, Promotion, ReadOld, SetPrevious,
                SetCandidate, SetChampion, DriftScript, CheckBaseline, Detect, Registry, World
      <4> QED
        BY <4>1 DEF TypeInv
    <3> QED
      BY <3>1, <3>2
  <2> QED
    BY <2>1, <2>2, <2>3 DEF TypeInv
<1>4. CASE ResolveModel \/ DownloadModel \/ LoadFails \/ DetectorExits
  <2>1. UNCHANGED <<versions, job>>
    BY <1>4 DEF ResolveModel, DownloadModel, LoadFails, DetectorExits, Registry, World
  <2>2. det'.source \in {None, "registry", "local-fallback"}
    <3>1. NoModel.source = None
      BY DEF NoModel
    <3>2. CASE ResolveModel
      <4>1. [NoModel EXCEPT !.pc = "resolved"].source = None
        BY DEF NoModel
      <4> QED
        BY <3>2, <4>1 DEF ResolveModel
    <3>3. CASE DownloadModel
      <4>1. DOMAIN det = {"pc", "bundle", "source"}
        BY DEF IInv, DetectorSound
      <4> QED
        BY <3>3, <4>1 DEF DownloadModel
    <3>4. CASE LoadFails
      <4>1. [NoModel EXCEPT !.pc = "serving", !.source = "local-fallback"].source = "local-fallback"
        BY DEF NoModel
      <4> QED
        BY <3>1, <3>4, <4>1 DEF LoadFails
    <3>5. CASE DetectorExits
      BY <3>1, <3>5 DEF DetectorExits
    <3> QED
      BY <1>4, <3>2, <3>3, <3>4, <3>5
  <2> QED
    BY <2>1, <2>2 DEF TypeInv, JobTyped, Versions
<1> QED
  BY <1>2, <1>3, <1>4 DEF Next

\* Every part of the registry's state has its type: no alias, job or detector
\* names a version that is not registered, and the drift script has a version
\* when it asks for its baseline, also after a bootstrap (drift_triggered_retraining.py).
THEOREM TypeCorrectness == Spec => []TypeOK
<1>1. Init => TypeInv
  BY RegistryAssumption DEF Init, TypeInv, JobTyped, Idle, JobPCs, NoModel
<1>2. IInv /\ TypeInv => TypeOK
  BY DEF IInv, TypeInv, TypeOK, JobTyped, RegistrySound, DetectorSound, Gated, Versions, AliasNames
<1> QED
  BY <1>1, <1>2, TypesStep, Inductive, PTL DEF Spec
=============================================================================
