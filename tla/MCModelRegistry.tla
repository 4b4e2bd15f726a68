--------------------------- MODULE MCModelRegistry ---------------------------
EXTENDS ModelRegistry, TLC

Row(score, y) == [score |-> score, y |-> y]
Normal == Row(1, FALSE)
Anomaly == Row(3, TRUE)

\* A training part, a validation part and a test part, split 7, 3 and 5.
Dataset(train, val, test) == train \o val \o test

MCTrain == <<Normal, Row(2, FALSE), Normal, Row(3, TRUE), Row(2, FALSE), Normal, Row(5, TRUE)>>
MCVal == <<Normal, Anomaly, Normal>>

\* Tests on which the model scores an F1 of 100, 80, 66 and, without an anomaly, no PR-AUC.
MCCatalogue ==
    {Dataset(MCTrain, MCVal, test) :
        test \in {<<Normal, Anomaly, Anomaly, Normal, Anomaly>>,
                  <<Anomaly, Anomaly, Row(3, FALSE), Normal, Normal>>,
                  <<Anomaly, Row(3, FALSE), Normal, Normal, Normal>>,
                  <<Normal, Normal, Normal, Normal, Normal>>}}

Rows(scores) == {Row(s, y) : s \in scores, y \in BOOLEAN}
Several(n, rows) == [1 .. n -> rows]

\* All validation parts of three rows over three scores; and too few rows.
MCStudied ==
    {Dataset(MCTrain, val, <<Anomaly, Anomaly, Row(2, FALSE), Normal, Anomaly>>) :
        val \in Several(3, Rows({1, 2, 3}))}
    \cup {<<Normal, Anomaly>>}

MCSymmetry == Permutations(Jobs)

==============================================================================
