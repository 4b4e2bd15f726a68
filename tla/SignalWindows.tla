---------------------------- MODULE SignalWindows ----------------------------
(***************************************************************************)
(* The data path from cumulative metrics to model features, shared by the  *)
(* offline pipeline and the live detector: windows between two scrapes,    *)
(* quantiles of a histogram, rolling features.                             *)
(*                                                                         *)
(* The code computes with floats.  Here a rate, ratio or latency is an     *)
(* integer in units of 1/Scale, as fine as the user of this module needs   *)
(* for its divisions to be exact.                                          *)
(***************************************************************************)
EXTENDS Integers, Sequences, SequencesExt, FiniteSetsExt

CONSTANTS
    Scale,            \* how many units a rate, ratio or latency of one has
    RollingWindow,    \* FeatureConfig.rolling_window
    None

\* The upper bounds of the latency histogram; a last bucket holds the rest.
Bounds == <<1, 3>>
Buckets == 1 .. Len(Bounds) + 1

\* MetricSnapshot: what one scrape of /metrics says, all of it cumulative.  ok,
\* refused and err are the POST /orders answered 2xx, 4xx and 5xx; the publishes
\* timed (publish_latency_count) are pubok and pubfail together.
Cumulative ==
    {"post", "ok", "refused", "err", "latency", "created", "pubok", "pubfail", "publat"}
EmptySnapshot ==
    [post |-> 0, ok |-> 0, refused |-> 0, err |-> 0, latency |-> 0, created |-> 0, pubok |-> 0,
     pubfail |-> 0, publat |-> 0, buckets |-> [b \in Buckets |-> 0]]
Snapshots ==
    [post : Nat, ok : Nat, refused : Nat, err : Nat, latency : Nat, created : Nat, pubok : Nat,
     pubfail : Nat, publat : Nat, buckets : [Buckets -> Nat]]

ASSUME SignalAssumption ==
    Scale \in Nat \ {0} /\ RollingWindow \in Nat \ {0, 1} /\ None \notin Snapshots

\* Every request is in all the buckets whose bound it does not exceed.
Observe(buckets, latency) ==
    [b \in Buckets |-> IF b > Len(Bounds) \/ latency <= Bounds[Min({b, Len(Bounds)})]
                       THEN buckets[b] + 1 ELSE buckets[b]]

-----------------------------------------------------------------------------
(* One window.                                                             *)

\* estimate_quantile_from_bucket_deltas, for a quantile of pct/100: linear in
\* the first bucket that reaches the target; the last bucket has no bound, so
\* the one before it answers; no requests, no quantile (then 0: _safe_q).
Quantile(deltas, pct) ==
    LET total == deltas[Len(Bounds) + 1]
        hit == Min({b \in Buckets : 100 * deltas[b] >= pct * total})
        prev_le == IF hit = 1 THEN 0 ELSE Bounds[hit - 1]
        prev_count == IF hit = 1 THEN 0 ELSE deltas[hit - 1]
        span == deltas[hit] - prev_count
    IN  IF total = 0 THEN 0
        ELSE IF hit > Len(Bounds) THEN Scale * prev_le
        ELSE IF span <= 0 THEN Scale * Bounds[hit]
        ELSE Scale * prev_le
               + (Scale * (Bounds[hit] - prev_le) * (pct * total - 100 * prev_count))
                     \div (100 * span)

Quantiles == {50, 90, 95}

\* The denominator of a ratio: an empty window counts as one.
OrOne(n) == IF n > 0 THEN n ELSE 1

\* Mutant of Deltas: the buckets since the service started, not since the last scrape.
MutantDeltasSinceStart(prev, cur) == cur.buckets

Deltas(prev, cur) == [b \in Buckets |-> Max({cur.buckets[b] - prev.buckets[b], 0})]

\* window_signals: no window when no time has passed or a counter went back.  A
\* refused request is in the denominators and in neither of the two ratios.
WindowSignals(prev, cur, dt) ==
    LET d(f) == cur[f] - prev[f]
        attempts == d("pubok") + d("pubfail")
    IN  IF dt <= 0 \/ \E f \in Cumulative : d(f) < 0 THEN None
        ELSE [request_rate |-> (Scale * d("post")) \div dt,
              error_rate |-> (Scale * d("err")) \div OrOne(d("post")),
              success_rate |-> (Scale * d("ok")) \div OrOne(d("post")),
              latency_mean |-> (Scale * d("latency")) \div OrOne(d("post")),
              latency_quantile |-> [q \in Quantiles |-> Quantile(Deltas(prev, cur), q)],
              publish_rate |-> (Scale * attempts) \div dt,
              publish_error_rate |-> (Scale * d("pubfail")) \div OrOne(attempts),
              publish_latency_mean |-> (Scale * d("publat")) \div OrOne(attempts),
              created_rate |-> (Scale * d("created")) \div dt]

\* prepare_run, one pair of consecutive rows: at most one window, labelled with
\* the scenario of the second; none across two scenarios.
WindowBetween(prev, cur) ==
    LET signals == WindowSignals(prev.snapshot, cur.snapshot, cur.at - prev.at)
    IN  IF prev.scenario = cur.scenario /\ signals # None
        THEN <<[signals |-> signals, label |-> cur.scenario, first |-> prev, last |-> cur]>>
        ELSE <<>>

\* prepare_run: the windows of a collected run, in order.
PrepareRun(rows) ==
    FlattenSeq([i \in 1 .. Len(rows) - 1 |-> WindowBetween(rows[i], rows[i + 1])])

-----------------------------------------------------------------------------
(* Features.                                                               *)

\* The last n elements, or all of them.
Trailing(s, n) == SubSeq(s, Max({1, Len(s) - n + 1}), Len(s))

Total(values) == FoldLeft(LAMBDA sum, v : sum + v, 0, values)

\* roll_mean, and n(n-1) times the square of roll_std: fillna makes a lone row 0.
RollMean(values) == Total(values) \div Len(values)
RollDeviation(values) ==
    Len(values) * Total([i \in DOMAIN values |-> values[i] * values[i]]) - Total(values) * Total(values)

\* diff and shift(1) on the last row; the first row of a frame has nothing before it.
Before(values) == IF Len(values) = 1 THEN values[1] ELSE values[Len(values) - 1]
Delta(values) == Last(values) - Before(values)
GrowthRate(values) == (Scale * Delta(values)) \div Max({Before(values), Scale})

\* _engineer_group, the row of the last window of a frame.
EngineeredRow(frame) ==
    LET column(c) == [i \in DOMAIN frame |-> frame[i][c]]
        rolling(c) == Trailing(column(c), RollingWindow)
        p95 == [i \in DOMAIN frame |-> frame[i].latency_quantile[95]]
    IN  [mean |-> [c \in {"request_rate", "error_rate", "latency_mean", "publish_error_rate",
                          "publish_latency_mean"} |-> RollMean(rolling(c))],
         p95_mean |-> RollMean(Trailing(p95, RollingWindow)),
         deviation |-> [c \in {"request_rate", "latency_mean"} |-> RollDeviation(rolling(c))],
         delta |-> [c \in {"request_rate", "error_rate", "latency_mean"} |-> Delta(column(c))],
         traffic_growth_rate |-> GrowthRate(column("request_rate"))]

\* build_features, its last row: training calls it on the whole run, the live
\* path on its buffer.  The rows are in order of window_start already.
BuildFeatures(frame) == [signals |-> Last(frame), engineered |-> EngineeredRow(frame)]

\* Mutant of Push: room for one window less.
MutantPushShort(buffer, signals) == Trailing(Append(buffer, signals), RollingWindow - 1)

\* StreamFeaturizer.push: a deque of rolling_window rows.
Push(buffer, signals) == Trailing(Append(buffer, signals), RollingWindow)

==============================================================================
