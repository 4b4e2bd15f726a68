------------------------------- MODULE Training -------------------------------
(***************************************************************************)
(* The numerical part of a retraining: chronological split, threshold      *)
(* calibration, evaluation, promotion gate, drift baseline.                *)
(*                                                                         *)
(* A dataset is a sequence of rows in order of time, [score, y]: what the  *)
(* fitted model gives the window and whether the window is anomalous.      *)
(* The estimators are external; their score is an integer.  Thresholds and *)
(* bin edges are doubled, so that midpoints stay integers; ratios are      *)
(* percentages.                                                            *)
(***************************************************************************)
EXTENDS Integers, Sequences, SequencesExt, FiniteSetsExt

CONSTANTS
    MinF1, MinRecall, MinPrAuc,   \* PromotionPolicy
    F1Tolerance,
    None

ASSUME PolicyAssumption ==
    {MinF1, MinRecall, MinPrAuc, F1Tolerance} \subseteq 0 .. 100

TestPercent == 33
ValPercent == 17

\* round(n * fraction), but at least one row.
Share(n, percent) == Max({1, (n * percent + 50) \div 100})

\* chronological_split: None stands for the ValueError when too few rows are left.
Split(rows) ==
    LET n == Len(rows)
        n_test == Share(n, TestPercent)
        n_val == Share(n, ValPercent)
        n_train == n - n_val - n_test
    IN  IF n_train <= 0 THEN None
        ELSE [train |-> SubSeq(rows, 1, n_train),
              val |-> SubSeq(rows, n_train + 1, n_train + n_val),
              test |-> SubSeq(rows, n_train + n_val + 1, n)]

-----------------------------------------------------------------------------
(* Threshold and metrics.                                                  *)

\* predict: strictly above the threshold.
Flagged(row, threshold) == 2 * row.score > threshold

CountRows(rows, Test(_)) == Cardinality({i \in DOMAIN rows : Test(rows[i])})

\* _confusion.
Confusion(rows, threshold) ==
    [tp |-> CountRows(rows, LAMBDA r : Flagged(r, threshold) /\ r.y),
     fp |-> CountRows(rows, LAMBDA r : Flagged(r, threshold) /\ ~ r.y),
     fn |-> CountRows(rows, LAMBDA r : ~ Flagged(r, threshold) /\ r.y),
     tn |-> CountRows(rows, LAMBDA r : ~ Flagged(r, threshold) /\ ~ r.y)]

\* The key (f1, -fpr) of the calibration, compared without dividing: the
\* number of negatives is the same for all thresholds.
BetterKey(c, d) ==
    LET left == c.tp * (2 * d.tp + d.fp + d.fn)
        right == d.tp * (2 * c.tp + c.fp + c.fn)
    IN  left > right \/ (left = right /\ c.fp < d.fp)

Scores(rows) == {rows[i].score : i \in DOMAIN rows}

\* Mutant of Grid: no threshold below the lowest score.
MutantGridClosed(rows) ==
    LET scores == Scores(rows)
        next(s) == Min({u \in scores : u > s})
    IN  {s + next(s) : s \in scores \ {Max(scores)}} \cup {2 * Max(scores) + 1}

\* The thresholds tried: a bit below the lowest score, between neighbours (the
\* score itself if there is only one), and a bit above the highest.
Grid(rows) ==
    LET scores == Scores(rows)
        next(s) == Min({u \in scores : u > s})
        mids == IF Cardinality(scores) > 1
                THEN {s + next(s) : s \in scores \ {Max(scores)}}
                ELSE {2 * s : s \in scores}
    IN  {2 * Min(scores) - 1} \cup mids \cup {2 * Max(scores) + 1}

\* calibrate_threshold with objective f1: the lowest of the best thresholds.
CalibrateThreshold(rows) ==
    LET key(t) == Confusion(rows, t)
    IN  Min({t \in Grid(rows) : \A u \in Grid(rows) : ~ BetterKey(key(u), key(t))})

Percent(n, d) == IF d = 0 THEN 0 ELSE (100 * n) \div d

\* average_precision_score: the precision at each anomaly's score, averaged.
AveragePrecision(rows) ==
    LET anomalies == {i \in DOMAIN rows : rows[i].y}
        above(i) == {j \in DOMAIN rows : rows[j].score >= rows[i].score}
        precision(i) == Percent(Cardinality(above(i) \cap anomalies), Cardinality(above(i)))
    IN  FoldFunction(+, 0, [i \in anomalies |-> precision(i)]) \div Cardinality(anomalies)

\* pointwise_metrics: PR-AUC only if both classes occur.
PointwiseMetrics(rows, threshold) ==
    LET c == Confusion(rows, threshold)
    IN  [f1 |-> Percent(2 * c.tp, 2 * c.tp + c.fp + c.fn),
         recall |-> Percent(c.tp, c.tp + c.fn),
         pr_auc |-> IF {rows[i].y : i \in DOMAIN rows} = BOOLEAN
                    THEN AveragePrecision(rows) ELSE None]

-----------------------------------------------------------------------------
(* The promotion gate.                                                     *)

\* Mutant of EvaluateCandidate: the floors are for challengers only.
MutantEvaluateCandidateFirstFree(metrics, champion) ==
    /\ None \notin {metrics.f1, metrics.recall, metrics.pr_auc}
    /\ champion # None =>
          /\ metrics.f1 >= MinF1 /\ metrics.recall >= MinRecall /\ metrics.pr_auc >= MinPrAuc
          /\ metrics.f1 - champion.f1 >= - F1Tolerance

\* evaluate_candidate: complete, above the floors, and no regression against the
\* champion's metrics if there are any.
EvaluateCandidate(metrics, champion) ==
    /\ None \notin {metrics.f1, metrics.recall, metrics.pr_auc}
    /\ metrics.f1 >= MinF1 /\ metrics.recall >= MinRecall /\ metrics.pr_auc >= MinPrAuc
    /\ champion # None => metrics.f1 - champion.f1 >= - F1Tolerance

-----------------------------------------------------------------------------
(* The drift baseline, of one feature and two bins.                        *)

Sorted(values) == SortSeq(values, <)

\* _bin_edges: minimum, median and maximum, without duplicates; a constant
\* feature gets a bin around its value.
BinEdges(values) ==
    LET s == Sorted(values)
        n == Len(s)
        edges == {2 * s[1], s[(n + 1) \div 2] + s[n \div 2 + 1], 2 * s[n]}
    IN  IF Cardinality(edges) = 1 THEN {2 * s[1] - 1, 2 * s[1] + 1} ELSE edges

\* np.histogram: bins are half open, the last one is closed.
InBin(v, lo, hi, edges) == v >= lo /\ (v < hi \/ (v = hi /\ hi = Max(edges)))

\* _proportions and _current_proportions: values outside the edges are clipped.
\* The counts; both sides divide by their total, an empty histogram is uniform.
Histogram(values, edges) ==
    LET clipped(i) == Max({Min({2 * values[i], Max(edges)}), Min(edges)})
        next(lo) == Min({e \in edges : e > lo})
        counts == [lo \in edges \ {Max(edges)} |->
                     Cardinality({i \in DOMAIN values : InBin(clipped(i), lo, next(lo), edges)})]
    IN  IF \A lo \in DOMAIN counts : counts[lo] = 0
        THEN [lo \in DOMAIN counts |-> 1] ELSE counts

Feature(rows) == [i \in DOMAIN rows |-> rows[i].score]

\* freeze_baseline, from the training rows alone.
FreezeBaseline(rows) ==
    LET edges == BinEdges(Feature(rows))
    IN  [edges |-> edges, counts |-> Histogram(Feature(rows), edges), n |-> Len(rows)]

\* detect_drift and classify_psi: the PSI is 0 when the proportions agree; how
\* large it is otherwise is left open.
DriftDecisions(rows, baseline) ==
    LET counts == Histogram(Feature(rows), baseline.edges)
        agree == \A lo \in DOMAIN counts :
                    counts[lo] * FoldFunction(+, 0, baseline.counts)
                      = baseline.counts[lo] * FoldFunction(+, 0, counts)
    IN  IF agree THEN {"no_drift"} ELSE {"no_drift", "moderate_drift", "significant_drift"}

==============================================================================
