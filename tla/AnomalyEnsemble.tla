--------------------------- MODULE AnomalyEnsemble ---------------------------
(***************************************************************************)
(* The detectors of src/src/anomaly/ensemble.py and the scorer that weighs  *)
(* them, in one process that trains and scores in any order.  A training    *)
(* may raise after each of its assignments and leaves what it has assigned. *)
(* Rows are known by what the fitted models make of them.  Scores are       *)
(* integers in percent, the ensemble's in hundredths of a percent.          *)
(***************************************************************************)
EXTENDS Integers, Sequences

CONSTANTS
    Readings,     \* what the models make of a row: [depth, error, z, feature]
    Weights,      \* ensemble_weights_if, _ae and _zscore of the settings, in percent
    BatchSize,    \* rows of a batch
    MaxTrainings  \* bound on the trainings explored

ASSUME EnsembleAssumption ==
    /\ Readings \subseteq [depth : 0..100, error : 0..100, z : 0..100,
                           feature : {"total_amount", "total_quantity", "tax_amount",
                                      "item_count"}]
    /\ Weights \in [forest : Nat, encoder : Nat, zscore : Nat]
    /\ BatchSize \in Nat \ {0}
    /\ MaxTrainings \in Nat

VARIABLES
    torch,      \* whether PyTorch could be imported
    trainings,  \* trainings begun; each is known by its number
    forest,     \* IsolationForestDetector: scaler, model and version
    encoder,    \* AutoencoderDetector: the same
    zfitted,    \* ZScoreDetector: medians and deviations are set
    outcome,    \* outcome[d]: how the last training of d ended
    results     \* what the last call of score_batch returned

ensembleVars == <<torch, trainings, forest, encoder, zfitted, outcome, results>>

Learned == {"isolation_forest", "autoencoder"}

Part(run, fitted) == [run |-> run, fitted |-> fitted]

Absent == Part(0, FALSE)

Untrained == [scaler |-> Absent, model |-> Absent, version |-> 0]

(* No results: nothing scored since the last training, or scoring raised.   *)
NoResults == [state |-> "none", rows |-> <<>>, forest |-> 0, encoder |-> 0]

Raised == [NoResults EXCEPT !.state = "raised"]

EnsembleInit ==
    /\ torch \in BOOLEAN
    /\ trainings = 0
    /\ forest = Untrained /\ encoder = Untrained
    /\ zfitted = FALSE
    /\ outcome = [d \in Learned |-> "never"]
    /\ results = NoResults
-----------------------------------------------------------------------------
(* Training.                                                                *)

(* Mutant of ForestStages: the scaler is created and never fitted.          *)
ForestStagesUnfitted(old, run) == <<
    old,
    [old EXCEPT !.scaler = Part(run, FALSE)],
    [old EXCEPT !.scaler = Part(run, FALSE), !.model = Part(run, FALSE)],
    [old EXCEPT !.scaler = Part(run, FALSE), !.model = Part(run, TRUE)],
    [scaler |-> Part(run, FALSE), model |-> Part(run, TRUE), version |-> run] >>

(* What IsolationForestDetector.train leaves after each assignment: nothing, *)
(* the scaler, the fitted scaler, the model, the fitted model, the version. *)
ForestStages(old, run) == <<
    old,
    [old EXCEPT !.scaler = Part(run, FALSE)],
    [old EXCEPT !.scaler = Part(run, TRUE)],
    [old EXCEPT !.scaler = Part(run, TRUE), !.model = Part(run, FALSE)],
    [old EXCEPT !.scaler = Part(run, TRUE), !.model = Part(run, TRUE)],
    [scaler |-> Part(run, TRUE), model |-> Part(run, TRUE), version |-> run] >>

(* Mutant of EncoderStages: a scaler that was fitted once is kept.          *)
EncoderStagesKeepScaler(old, run) == <<
    old,
    [old EXCEPT !.scaler = IF @.fitted THEN @ ELSE Part(run, TRUE)],
    [old EXCEPT !.scaler = IF @.fitted THEN @ ELSE Part(run, TRUE), !.model = Part(run, TRUE)],
    [old EXCEPT !.scaler = IF @.fitted THEN @ ELSE Part(run, TRUE), !.model = Part(run, TRUE),
                !.version = run] >>

(* AutoencoderDetector.train assigns the model only when it is trained.     *)
EncoderStages(old, run) == <<
    old,
    [old EXCEPT !.scaler = Part(run, FALSE)],
    [old EXCEPT !.scaler = Part(run, TRUE)],
    [old EXCEPT !.scaler = Part(run, TRUE), !.model = Part(run, TRUE)],
    [scaler |-> Part(run, TRUE), model |-> Part(run, TRUE), version |-> run] >>

(* What a training leaves that ends thus: the last stage, or if it raises   *)
(* any of them; the last one when MLflow cannot be told that the run ended. *)
Leaves(stages, how) ==
    {stages[i] : i \in IF how = "trained" THEN {Len(stages)} ELSE DOMAIN stages}

TrainForest(how) ==
    /\ trainings < MaxTrainings
    /\ trainings' = trainings + 1
    /\ forest' \in Leaves(ForestStages(forest, trainings'), how)
    /\ outcome' = [outcome EXCEPT !["isolation_forest"] = how]
    /\ results' = NoResults
    /\ UNCHANGED <<torch, encoder, zfitted>>

(* Without PyTorch train returns "disabled".                                *)
TrainEncoder(how) ==
    /\ torch
    /\ trainings < MaxTrainings
    /\ trainings' = trainings + 1
    /\ encoder' \in Leaves(EncoderStages(encoder, trainings'), how)
    /\ outcome' = [outcome EXCEPT !["autoencoder"] = how]
    /\ results' = NoResults
    /\ UNCHANGED <<torch, forest, zfitted>>

FitZScore ==
    /\ ~zfitted
    /\ zfitted' = TRUE
    /\ results' = NoResults
    /\ UNCHANGED <<torch, trainings, forest, encoder, outcome>>
-----------------------------------------------------------------------------
(* Scoring.                                                                 *)

Batches == [1..BatchSize -> Readings]

Depths(batch) == {batch[i].depth : i \in 1..BatchSize}

Least(S) == CHOOSE x \in S : \A y \in S : x <= y

Greatest(S) == CHOOSE x \in S : \A y \in S : y <= x

(* How a detector stands when score is called.  An object that is there but *)
(* was never fitted raises.                                                 *)
Standing(d) ==
    IF d.model = Absent \/ d.scaler = Absent THEN "silent"
    ELSE IF d.model.fitted /\ d.scaler.fitted THEN "scores" ELSE "raises"

(* The forest's scores are relative to the batch: the deepest row has 0, the *)
(* row isolated first has 100, and rows that are all alike have 0.          *)
ForestScore(batch, i) ==
    LET low == Least(Depths(batch))
        high == Greatest(Depths(batch))
    IN  IF Standing(forest) = "silent" \/ low = high THEN 0
        ELSE 100 - (100 * (batch[i].depth - low)) \div (high - low)

EncoderScore(batch, i) == IF Standing(encoder) = "silent" THEN 0 ELSE batch[i].error

ZScore(batch, i) == IF zfitted THEN batch[i].z ELSE 0

(* Mutant of EnsembleScore: the weights of two detectors are swapped.       *)
EnsembleScoreSwapped(batch, i) ==
    Weights.forest * ForestScore(batch, i) + Weights.zscore * EncoderScore(batch, i)
    + Weights.encoder * ZScore(batch, i)

EnsembleScore(batch, i) ==
    Weights.forest * ForestScore(batch, i) + Weights.encoder * EncoderScore(batch, i)
    + Weights.zscore * ZScore(batch, i)

ScoreToSeverity(score) ==
    CASE score >= 8500 -> "critical"
      [] score >= 7000 /\ score < 8500 -> "high"
      [] score >= 5000 /\ score < 7000 -> "medium"
      [] score >= 3000 /\ score < 5000 -> "low"
      [] score < 3000 -> "info"

IsAnomaly(score) == score >= 3000

(* Named after the feature with the greatest z-score, however small.        *)
ClassifyType(feature) ==
    CASE feature = "total_amount" -> "statistical_price"
      [] feature = "total_quantity" -> "statistical_quantity"
      [] feature = "tax_amount" -> "statistical_fees"
      [] OTHER -> "statistical"

ResponsibleFeature(row) == IF zfitted /\ row.z > 0 THEN row.feature ELSE ""

RowResult(batch, i) ==
    LET score == EnsembleScore(batch, i)
    IN  [is_anomaly |-> IsAnomaly(score), severity |-> ScoreToSeverity(score),
         if_score |-> ForestScore(batch, i), ae_score |-> EncoderScore(batch, i),
         z_score |-> ZScore(batch, i),
         type |-> ClassifyType(ResponsibleFeature(batch[i]))]

ScoreBatch(batch) ==
    /\ results' = IF "raises" \in {Standing(forest), Standing(encoder)} THEN Raised
                  ELSE [state |-> "scored", rows |-> [i \in 1..BatchSize |-> RowResult(batch, i)],
                        forest |-> forest.version, encoder |-> encoder.version]
    /\ UNCHANGED <<torch, trainings, forest, encoder, zfitted, outcome>>

EnsembleNext ==
    \/ \E how \in {"trained", "failed"} : TrainForest(how) \/ TrainEncoder(how)
    \/ FitZScore
    \/ \E batch \in Batches : ScoreBatch(batch)

EnsembleSpec == EnsembleInit /\ [][EnsembleNext]_ensembleVars
-----------------------------------------------------------------------------
(* Properties.                                                              *)

Detector == [scaler : [run : 0..MaxTrainings, fitted : BOOLEAN],
             model : [run : 0..MaxTrainings, fitted : BOOLEAN],
             version : 0..MaxTrainings]

EnsembleTypeOK ==
    /\ torch \in BOOLEAN
    /\ trainings \in 0..MaxTrainings
    /\ forest \in Detector /\ encoder \in Detector
    /\ ~torch => encoder = Untrained
    /\ zfitted \in BOOLEAN
    /\ outcome \in [Learned -> {"never", "trained", "failed"}]
    /\ results.state \in {"none", "raised", "scored"}

MadeBy(d, run) == d.scaler.run = run /\ d.model.run = run

(* The versions of a result name the training that made the scaler and the  *)
(* model the row was scored with, unless the last training of that detector *)
(* raised: then, and only then, a version may name one model and the score  *)
(* come from another.                                                       *)
ResultsTraceable ==
    results.state = "scored" =>
        /\ outcome["isolation_forest"] # "failed" => MadeBy(forest, results.forest)
        /\ outcome["autoencoder"] # "failed" => MadeBy(encoder, results.encoder)

(* Scoring raises only because a training raised before it and left a part  *)
(* that was never fitted: no order of trainings that end well, of the three *)
(* detectors and of failures made good since, takes the scoring down.       *)
RaisesOnlyAfterFailure ==
    results.state = "raised" => \E d \in Learned : outcome[d] = "failed"

(* The weight of the detectors that find a row odd at all.                  *)
WeightBehind(r) ==
    (IF r.if_score > 0 THEN Weights.forest ELSE 0)
    + (IF r.ae_score > 0 THEN Weights.encoder ELSE 0)
    + (IF r.z_score > 0 THEN Weights.zscore ELSE 0)

(* A row is flagged, or graded "high" or "critical", only if the detectors  *)
(* that find it odd weigh as much as the threshold of the grade, whichever  *)
(* of them are trained and however far out each of them sees the row.       *)
GradesNeedWeight ==
    \A i \in DOMAIN results.rows :
       LET r == results.rows[i]
       IN  /\ r.is_anomaly => WeightBehind(r) >= 30
           /\ r.severity \in {"high", "critical"} => WeightBehind(r) >= 70
           /\ r.severity = "critical" => WeightBehind(r) >= 85

(* What this makes of the Z-score detector, the "statistical fallback": at  *)
(* a weight below 0.30 it flags no row by itself.                           *)
ZScoreAloneIsSilent ==
    \A i \in DOMAIN results.rows :
       LET r == results.rows[i]
       IN  r.if_score = 0 /\ r.ae_score = 0 => ~r.is_anomaly
=============================================================================
