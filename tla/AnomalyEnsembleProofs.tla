------------------------ MODULE AnomalyEnsembleProofs ------------------------
(***************************************************************************)
(* Theorems about AnomalyEnsemble, for every set of readings, all weights,  *)
(* every size of batch and any number of trainings.                         *)
(***************************************************************************)
EXTENDS AnomalyEnsemble, WellFoundedInduction, TLAPS

(* The scores of a batch have a least and a greatest one.                   *)
LEMMA LeastIsLeast ==
    ASSUME NEW S \in SUBSET Nat, S # {}
    PROVE  Least(S) \in S /\ \A y \in S : Least(S) <= y
<1>1. PICK x \in S : \A y \in S : ~(<<y, x>> \in OpToRel(<, Nat))
  BY NatLessThanWellFounded, WFMin
<1>2. ASSUME NEW y \in S PROVE x <= y
  <2>1. x \in Nat /\ y \in Nat
    OBVIOUS
  <2>2. y < x => <<y, x>> \in OpToRel(<, Nat)
    BY <2>1 DEF OpToRel
  <2>3. ~(y < x)
    BY <1>1, <2>2
  <2> QED
    BY <2>1, <2>3
<1> QED
  BY <1>2 DEF Least

LEMMA GreatestIsGreatest ==
    ASSUME NEW S \in SUBSET (0..100), S # {}
    PROVE  Greatest(S) \in S /\ \A y \in S : y <= Greatest(S)
<1> DEFINE T == {100 - y : y \in S}
<1>1. T \in SUBSET Nat /\ T # {}
  <2>1. \A y \in S : 100 - y \in Nat
    OBVIOUS
  <2> QED
    BY <2>1
<1>2. Least(T) \in T /\ \A y \in T : Least(T) <= y
  BY <1>1, LeastIsLeast
<1>3. PICK x \in S : Least(T) = 100 - x
  BY <1>2
<1>4. ASSUME NEW y \in S PROVE y <= x
  <2>1. 100 - y \in T
    OBVIOUS
  <2>2. 100 - x <= 100 - y
    BY <1>2, <1>3, <2>1
  <2> QED
    BY <2>2
<1> QED
  BY <1>4 DEF Greatest

LEMMA QuotientInRange ==
    ASSUME NEW a \in Nat, NEW b \in Nat \ {0}, a <= 100 * b
    PROVE  a \div b \in 0..100
OBVIOUS

LEMMA ForestScoreRange ==
    ASSUME NEW batch \in Batches, NEW i \in 1..BatchSize
    PROVE  ForestScore(batch, i) \in 0..100
<1> DEFINE low == Least(Depths(batch))
           high == Greatest(Depths(batch))
<1>1. \A k \in 1..BatchSize : batch[k].depth \in 0..100
  BY EnsembleAssumption DEF EnsembleAssumption, Batches
<1>2. Depths(batch) \in SUBSET (0..100) /\ batch[i].depth \in Depths(batch)
  BY <1>1 DEF Depths
<1>3. low \in 0..100 /\ low <= batch[i].depth
  BY <1>2, LeastIsLeast
<1>4. high \in 0..100 /\ batch[i].depth <= high
  BY <1>2, GreatestIsGreatest
<1> HIDE DEF low, high
<1>5. CASE low = high
  BY <1>5 DEF ForestScore, low, high
<1>6. CASE low # high
  <2> DEFINE a == 100 * (batch[i].depth - low)
             b == high - low
  <2>1. a \in Nat /\ b \in Nat \ {0} /\ a <= 100 * b
    <3> DEFINE depth == batch[i].depth
    <3>1. depth \in 0..100
      BY <1>1
    <3> HIDE DEF depth
    <3>2. low <= depth /\ depth <= high
      BY <1>3, <1>4 DEF depth
    <3>3. 100 * (depth - low) \in Nat /\ b \in Nat \ {0}
          /\ 100 * (depth - low) <= 100 * b
      BY <1>3, <1>4, <1>6, <3>1, <3>2
    <3> QED
      BY <3>3 DEF depth
  <2>2. ForestScore(batch, i) \in {0, 100 - a \div b}
    BY DEF ForestScore, low, high
  <2> HIDE DEF a, b
  <2>3. a \div b \in 0..100
    BY <2>1, QuotientInRange
  <2> QED
    BY <2>2, <2>3
<1> QED
  BY <1>5, <1>6

(* What a detector adds to the score of a row: nothing if it sees nothing   *)
(* odd, and no more than its weight.                                        *)
LEMMA PartOfScore ==
    ASSUME NEW w \in Nat, NEW s \in 0..100
    PROVE  w * s \in 0 .. 100 * (IF s > 0 THEN w ELSE 0)
<1>1. CASE s = 0
  BY <1>1
<1>2. CASE s > 0
  <2>1. w * (100 - s) >= 0
    OBVIOUS
  <2>2. w * (100 - s) = 100 * w - w * s /\ w * s \in Nat
    OBVIOUS
  <2> QED
    BY <1>2, <2>1, <2>2
<1> QED
  BY <1>1, <1>2

(* What one row of a scored batch shows.                                    *)
RowNeedsWeight(r) ==
    /\ r.is_anomaly => WeightBehind(r) >= 30
    /\ r.severity \in {"high", "critical"} => WeightBehind(r) >= 70
    /\ r.severity = "critical" => WeightBehind(r) >= 85

LEMMA RowResultNeedsWeight ==
    ASSUME NEW batch \in Batches, NEW i \in 1..BatchSize
    PROVE  RowNeedsWeight(RowResult(batch, i))
<1> DEFINE f == ForestScore(batch, i)
           e == EncoderScore(batch, i)
           z == ZScore(batch, i)
           score == EnsembleScore(batch, i)
           row == RowResult(batch, i)
           behind == WeightBehind(row)
           wf == Weights.forest
           we == Weights.encoder
           wz == Weights.zscore
<1>1. batch[i].error \in 0..100 /\ batch[i].z \in 0..100
  BY EnsembleAssumption DEF EnsembleAssumption, Batches
<1>2. f \in 0..100
  BY ForestScoreRange
<1>3. e \in 0..100 /\ z \in 0..100
  BY <1>1 DEF EncoderScore, ZScore
<1>4. wf \in Nat /\ we \in Nat /\ wz \in Nat
  BY EnsembleAssumption DEF EnsembleAssumption
<1>5. score = wf * f + we * e + wz * z
  BY DEF EnsembleScore
<1>6. /\ row.is_anomaly = IsAnomaly(score)
      /\ row.severity = ScoreToSeverity(score)
      /\ row.if_score = f /\ row.ae_score = e /\ row.z_score = z
  BY DEF RowResult
<1>7. behind = (IF f > 0 THEN wf ELSE 0) + (IF e > 0 THEN we ELSE 0)
               + (IF z > 0 THEN wz ELSE 0)
  BY <1>6 DEF WeightBehind
<1> HIDE DEF f, e, z, score, row, behind, wf, we, wz
<1>8. score \in Int /\ behind \in Nat /\ score <= 100 * behind
  <2>1. /\ wf * f \in 0 .. 100 * (IF f > 0 THEN wf ELSE 0)
        /\ we * e \in 0 .. 100 * (IF e > 0 THEN we ELSE 0)
        /\ wz * z \in 0 .. 100 * (IF z > 0 THEN wz ELSE 0)
    BY <1>2, <1>3, <1>4, PartOfScore
  <2> QED
    BY <1>4, <1>5, <1>7, <2>1
<1>9. IsAnomaly(score) => behind >= 30
  BY <1>8 DEF IsAnomaly
<1>10. /\ ScoreToSeverity(score) \in {"high", "critical"} => score >= 7000
       /\ ScoreToSeverity(score) = "critical" => score >= 8500
  <2>1. CASE score < 3000
    BY <1>8, <2>1 DEF ScoreToSeverity
  <2>2. CASE score >= 3000 /\ score < 5000
    BY <1>8, <2>2 DEF ScoreToSeverity
  <2>3. CASE score >= 5000 /\ score < 7000
    BY <1>8, <2>3 DEF ScoreToSeverity
  <2>4. CASE score >= 7000 /\ score < 8500
    BY <1>8, <2>4 DEF ScoreToSeverity
  <2> QED
    BY <1>8, <2>1, <2>2, <2>3, <2>4
<1>11. RowNeedsWeight(row)
  BY <1>6, <1>8, <1>9, <1>10 DEF RowNeedsWeight, behind
<1> QED
  BY <1>11 DEF row

-----------------------------------------------------------------------------
(* Types.                                                                   *)

Parts == [run : 0..MaxTrainings, fitted : BOOLEAN]

(* A detector as a training leaves it that ended well.                      *)
Whole(d, run) ==
    MadeBy(d, run) /\ d.version = run /\ d.scaler.fitted /\ d.model.fitted

LEMMA PartTyped ==
    ASSUME NEW run \in 0..MaxTrainings, NEW fitted \in BOOLEAN
    PROVE  Part(run, fitted) \in Parts
BY DEF Part, Parts

(* A detector whose scaler or model was replaced is a detector.             *)
LEMMA ReplacedTyped ==
    ASSUME NEW old \in Detector, NEW p \in Parts, NEW q \in Parts
    PROVE  /\ [old EXCEPT !.scaler = p] \in Detector
           /\ [old EXCEPT !.scaler = p, !.model = q] \in Detector
BY DEF Detector, Parts

(* A training leaves a detector, and one that ended well the last stage.    *)
LEMMA LeavesStages ==
    ASSUME NEW stages \in Seq(Detector), Len(stages) > 0,
           NEW how \in {"trained", "failed"}, NEW d \in Leaves(stages, how)
    PROVE  /\ d \in Detector
           /\ how = "trained" => d = stages[Len(stages)]
<1>1. PICK k \in 1..Len(stages) : d = stages[k] /\ (how = "trained" => k = Len(stages))
  BY DEF Leaves
<1> QED
  BY <1>1

LEMMA StagesTyped ==
    ASSUME NEW old \in Detector, NEW run \in 1..MaxTrainings
    PROVE  /\ ForestStages(old, run) \in Seq(Detector)
           /\ EncoderStages(old, run) \in Seq(Detector)
           /\ Len(ForestStages(old, run)) = 6
           /\ Len(EncoderStages(old, run)) = 5
           /\ \A d \in {ForestStages(old, run)[6], EncoderStages(old, run)[5]} : Whole(d, run)
<1> DEFINE fresh == Part(run, FALSE)
           done == Part(run, TRUE)
           last == [scaler |-> done, model |-> done, version |-> run]
           d1 == [old EXCEPT !.scaler = fresh]
           d2 == [old EXCEPT !.scaler = done]
           d3 == [old EXCEPT !.scaler = done, !.model = fresh]
           d4 == [old EXCEPT !.scaler = done, !.model = done]
<1>1. fresh \in Parts /\ done \in Parts /\ done.run = run /\ done.fitted
  <2>1. run \in 0..MaxTrainings
    OBVIOUS
  <2>2. fresh \in Parts /\ done \in Parts
    BY <2>1, PartTyped
  <2>3. done.run = run /\ done.fitted
    BY DEF Part
  <2> QED
    BY <2>2, <2>3
<1>2. /\ ForestStages(old, run) = <<old, d1, d2, d3, d4, last>>
      /\ EncoderStages(old, run) = <<old, d1, d2, d4, last>>
  BY DEF ForestStages, EncoderStages
<1> HIDE DEF fresh, done
<1>3. d1 \in Detector /\ d2 \in Detector /\ d3 \in Detector /\ d4 \in Detector
  BY <1>1, ReplacedTyped
<1>4. last \in Detector
  BY <1>1 DEF Detector, Parts
<1>5. Whole(last, run)
  BY <1>1 DEF Whole, MadeBy
<1> HIDE DEF d1, d2, d3, d4, last
<1> QED
  BY <1>2, <1>3, <1>4, <1>5

LEMMA ForestLeaves ==
    ASSUME NEW old \in Detector, NEW run \in 1..MaxTrainings,
           NEW how \in {"trained", "failed"},
           NEW d \in Leaves(ForestStages(old, run), how)
    PROVE  d \in Detector /\ (how = "trained" => Whole(d, run))
<1> DEFINE stages == ForestStages(old, run)
<1>1. /\ stages \in Seq(Detector) /\ Len(stages) = 6
      /\ Whole(stages[6], run)
  BY StagesTyped
<1> HIDE DEF stages
<1>2. d \in Leaves(stages, how)
  BY DEF stages
<1>3. Len(stages) > 0 /\ stages[Len(stages)] = stages[6]
  BY <1>1
<1>4. d \in Detector /\ (how = "trained" => d = stages[Len(stages)])
  BY <1>1, <1>2, <1>3, LeavesStages
<1> QED
  BY <1>1, <1>3, <1>4

LEMMA EncoderLeaves ==
    ASSUME NEW old \in Detector, NEW run \in 1..MaxTrainings,
           NEW how \in {"trained", "failed"},
           NEW d \in Leaves(EncoderStages(old, run), how)
    PROVE  d \in Detector /\ (how = "trained" => Whole(d, run))
<1> DEFINE stages == EncoderStages(old, run)
<1>1. /\ stages \in Seq(Detector) /\ Len(stages) = 5
      /\ Whole(stages[5], run)
  BY StagesTyped
<1> HIDE DEF stages
<1>2. d \in Leaves(stages, how)
  BY DEF stages
<1>3. Len(stages) > 0 /\ stages[Len(stages)] = stages[5]
  BY <1>1
<1>4. d \in Detector /\ (how = "trained" => d = stages[Len(stages)])
  BY <1>1, <1>2, <1>3, LeavesStages
<1> QED
  BY <1>1, <1>3, <1>4

LEMMA WithoutRows ==
    /\ NoResults.state = "none" /\ NoResults.rows = <<>>
    /\ Raised.state = "raised" /\ Raised.rows = <<>>
BY DEF NoResults, Raised

LEMMA EnsembleTypes == EnsembleTypeOK /\ [EnsembleNext]_ensembleVars => EnsembleTypeOK'
<1> SUFFICES ASSUME EnsembleTypeOK, [EnsembleNext]_ensembleVars PROVE EnsembleTypeOK'
  OBVIOUS
<1>1. CASE UNCHANGED ensembleVars
  BY <1>1 DEF ensembleVars, EnsembleTypeOK
<1>2. trainings < MaxTrainings => trainings + 1 \in 1..MaxTrainings
  BY EnsembleAssumption DEF EnsembleAssumption, EnsembleTypeOK
<1>3. ASSUME NEW how \in {"trained", "failed"}, TrainForest(how) PROVE EnsembleTypeOK'
  <2>1. forest' \in Detector
    BY <1>2, <1>3, ForestLeaves DEF TrainForest, EnsembleTypeOK
  <2>2. trainings' \in 0..MaxTrainings
    BY <1>2, <1>3 DEF TrainForest
  <2>3. outcome' \in [Learned -> {"never", "trained", "failed"}]
    BY <1>3 DEF TrainForest, EnsembleTypeOK
  <2>4. results'.state = "none"
    BY <1>3, WithoutRows DEF TrainForest
  <2> QED
    BY <1>3, <2>1, <2>2, <2>3, <2>4 DEF TrainForest, EnsembleTypeOK
<1>4. ASSUME NEW how \in {"trained", "failed"}, TrainEncoder(how) PROVE EnsembleTypeOK'
  <2>1. encoder' \in Detector
    BY <1>2, <1>4, EncoderLeaves DEF TrainEncoder, EnsembleTypeOK
  <2>2. trainings' \in 0..MaxTrainings
    BY <1>2, <1>4 DEF TrainEncoder
  <2>3. outcome' \in [Learned -> {"never", "trained", "failed"}]
    BY <1>4 DEF TrainEncoder, EnsembleTypeOK
  <2>4. results'.state = "none"
    BY <1>4, WithoutRows DEF TrainEncoder
  <2> QED
    BY <1>4, <2>1, <2>2, <2>3, <2>4 DEF TrainEncoder, EnsembleTypeOK
<1>5. CASE FitZScore
  BY <1>5, WithoutRows DEF FitZScore, EnsembleTypeOK
<1>6. ASSUME NEW batch \in Batches, ScoreBatch(batch) PROVE EnsembleTypeOK'
  <2>1. results'.state \in {"raised", "scored"}
    BY <1>6, WithoutRows DEF ScoreBatch
  <2> QED
    BY <1>6, <2>1 DEF ScoreBatch, EnsembleTypeOK
<1> QED
  BY <1>1, <1>3, <1>4, <1>5, <1>6 DEF EnsembleNext

LEMMA EnsembleTypesInit == EnsembleInit => EnsembleTypeOK
<1>1. 0 \in 0..MaxTrainings
  BY EnsembleAssumption DEF EnsembleAssumption
<1>2. Untrained \in Detector
  BY <1>1 DEF Untrained, Detector, Absent, Part
<1> QED
  BY <1>1, <1>2, WithoutRows DEF EnsembleInit, EnsembleTypeOK

(* Every variable of the ensemble keeps its type.                           *)
THEOREM EnsembleTypeCorrect == EnsembleSpec => []EnsembleTypeOK
BY EnsembleTypesInit, EnsembleTypes, PTL DEF EnsembleSpec

-----------------------------------------------------------------------------
(* Where a result comes from.                                               *)

(* A detector whose last training did not raise is all of one training, and *)
(* results are those of the detectors as they stand.                        *)
TraceInv ==
    /\ outcome["isolation_forest"] # "failed" => MadeBy(forest, forest.version)
    /\ outcome["autoencoder"] # "failed" => MadeBy(encoder, encoder.version)
    /\ results.state = "scored" =>
          results.forest = forest.version /\ results.encoder = encoder.version

LEMMA TraceInvStep ==
    EnsembleTypeOK /\ TraceInv /\ [EnsembleNext]_ensembleVars => TraceInv'
<1> SUFFICES ASSUME EnsembleTypeOK, TraceInv, [EnsembleNext]_ensembleVars PROVE TraceInv'
  OBVIOUS
<1>0. /\ outcome \in [Learned -> {"never", "trained", "failed"}]
      /\ forest \in Detector /\ encoder \in Detector
      /\ "isolation_forest" \in Learned /\ "autoencoder" \in Learned
      /\ trainings < MaxTrainings => trainings + 1 \in 1..MaxTrainings
  BY EnsembleAssumption DEF EnsembleAssumption, EnsembleTypeOK, Learned
<1>1. CASE UNCHANGED ensembleVars
  BY <1>1 DEF ensembleVars, TraceInv, MadeBy
<1>2. ASSUME NEW how \in {"trained", "failed"}, TrainForest(how) PROVE TraceInv'
  <2>1. how = "trained" => MadeBy(forest', trainings + 1) /\ forest'.version = trainings + 1
    BY <1>0, <1>2, ForestLeaves DEF TrainForest, Whole
  <2>2. /\ outcome'["isolation_forest"] = how
        /\ outcome'["autoencoder"] = outcome["autoencoder"]
        /\ results'.state = "none" /\ encoder' = encoder
    BY <1>0, <1>2, WithoutRows DEF TrainForest
  <2> QED
    BY <2>1, <2>2 DEF TraceInv, MadeBy
<1>3. ASSUME NEW how \in {"trained", "failed"}, TrainEncoder(how) PROVE TraceInv'
  <2>1. how = "trained" => MadeBy(encoder', trainings + 1) /\ encoder'.version = trainings + 1
    BY <1>0, <1>3, EncoderLeaves DEF TrainEncoder, Whole
  <2>2. /\ outcome'["autoencoder"] = how
        /\ outcome'["isolation_forest"] = outcome["isolation_forest"]
        /\ results'.state = "none" /\ forest' = forest
    BY <1>0, <1>3, WithoutRows DEF TrainEncoder
  <2> QED
    BY <2>1, <2>2 DEF TraceInv, MadeBy
<1>4. CASE FitZScore
  BY <1>4, WithoutRows DEF FitZScore, TraceInv, MadeBy
<1>5. ASSUME NEW batch \in Batches, ScoreBatch(batch) PROVE TraceInv'
  <2>1. results'.state = "scored" =>
          results'.forest = forest.version /\ results'.encoder = encoder.version
    BY <1>5, WithoutRows DEF ScoreBatch
  <2> QED
    BY <1>5, <2>1 DEF ScoreBatch, TraceInv, MadeBy
<1> QED
  BY <1>1, <1>2, <1>3, <1>4, <1>5 DEF EnsembleNext

(* The versions of a result name the training its scores come from unless   *)
(* the last training of that detector raised, for every sequence of         *)
(* trainings and scorings.                                                  *)
THEOREM VersionsTraceable == EnsembleSpec => []ResultsTraceable
<1>1. EnsembleInit => TraceInv
  BY WithoutRows DEF EnsembleInit, TraceInv, Untrained, Absent, Part, MadeBy
<1>2. TraceInv => ResultsTraceable
  BY DEF TraceInv, ResultsTraceable
<1> QED
  BY <1>1, <1>2, EnsembleTypesInit, EnsembleTypes, TraceInvStep, PTL DEF EnsembleSpec

-----------------------------------------------------------------------------
(* What scoring can raise for.                                              *)

(* A detector whose last training did not raise does not raise either.      *)
RaiseInv ==
    /\ outcome["isolation_forest"] # "failed" => Standing(forest) # "raises"
    /\ outcome["autoencoder"] # "failed" => Standing(encoder) # "raises"
    /\ RaisesOnlyAfterFailure

LEMMA WholeScores ==
    ASSUME NEW d, NEW run, Whole(d, run)
    PROVE  Standing(d) # "raises"
BY DEF Whole, Standing

LEMMA RaiseInvStep ==
    EnsembleTypeOK /\ RaiseInv /\ [EnsembleNext]_ensembleVars => RaiseInv'
<1> SUFFICES ASSUME EnsembleTypeOK, RaiseInv, [EnsembleNext]_ensembleVars PROVE RaiseInv'
  OBVIOUS
<1>0. /\ outcome \in [Learned -> {"never", "trained", "failed"}]
      /\ forest \in Detector /\ encoder \in Detector
      /\ "isolation_forest" \in Learned /\ "autoencoder" \in Learned
      /\ trainings < MaxTrainings => trainings + 1 \in 1..MaxTrainings
  BY EnsembleAssumption DEF EnsembleAssumption, EnsembleTypeOK, Learned
<1>1. CASE UNCHANGED ensembleVars
  BY <1>1 DEF ensembleVars, RaiseInv, RaisesOnlyAfterFailure, Standing
<1>2. ASSUME NEW how \in {"trained", "failed"}, TrainForest(how) PROVE RaiseInv'
  <2>1. how = "trained" => Standing(forest') # "raises"
    BY <1>0, <1>2, ForestLeaves, WholeScores DEF TrainForest
  <2>2. /\ outcome'["isolation_forest"] = how
        /\ outcome'["autoencoder"] = outcome["autoencoder"]
        /\ results'.state = "none" /\ encoder' = encoder
    BY <1>0, <1>2, WithoutRows DEF TrainForest
  <2> QED
    BY <2>1, <2>2 DEF RaiseInv, RaisesOnlyAfterFailure, Standing
<1>3. ASSUME NEW how \in {"trained", "failed"}, TrainEncoder(how) PROVE RaiseInv'
  <2>1. how = "trained" => Standing(encoder') # "raises"
    BY <1>0, <1>3, EncoderLeaves, WholeScores DEF TrainEncoder
  <2>2. /\ outcome'["autoencoder"] = how
        /\ outcome'["isolation_forest"] = outcome["isolation_forest"]
        /\ results'.state = "none" /\ forest' = forest
    BY <1>0, <1>3, WithoutRows DEF TrainEncoder
  <2> QED
    BY <2>1, <2>2 DEF RaiseInv, RaisesOnlyAfterFailure, Standing
<1>4. CASE FitZScore
  BY <1>4, WithoutRows DEF FitZScore, RaiseInv, RaisesOnlyAfterFailure, Standing
<1>5. ASSUME NEW batch \in Batches, ScoreBatch(batch) PROVE RaiseInv'
  <2>1. UNCHANGED <<forest, encoder, outcome>>
    BY <1>5 DEF ScoreBatch
  <2>2. results'.state = "raised" =>
          Standing(forest) = "raises" \/ Standing(encoder) = "raises"
    BY <1>5 DEF ScoreBatch
  <2>3. RaisesOnlyAfterFailure'
    BY <1>0, <2>1, <2>2 DEF RaiseInv, RaisesOnlyAfterFailure
  <2> QED
    BY <2>1, <2>3 DEF RaiseInv, Standing
<1> QED
  BY <1>1, <1>2, <1>3, <1>4, <1>5 DEF EnsembleNext

(* Scoring raises only after a training that raised and that no later one   *)
(* made good, for every sequence of trainings and scorings.                 *)
THEOREM ScoringSurvives == EnsembleSpec => []RaisesOnlyAfterFailure
<1>1. EnsembleInit => RaiseInv
  BY WithoutRows DEF EnsembleInit, RaiseInv, RaisesOnlyAfterFailure, Standing, Untrained
<1>2. RaiseInv => RaisesOnlyAfterFailure
  BY DEF RaiseInv
<1> QED
  BY <1>1, <1>2, EnsembleTypesInit, EnsembleTypes, RaiseInvStep, PTL DEF EnsembleSpec

-----------------------------------------------------------------------------
(* What a grade needs.                                                      *)

RowsWeighed == \A i \in DOMAIN results.rows : RowNeedsWeight(results.rows[i])

LEMMA WeighedStep == RowsWeighed /\ [EnsembleNext]_ensembleVars => RowsWeighed'
<1> SUFFICES ASSUME RowsWeighed, [EnsembleNext]_ensembleVars PROVE RowsWeighed'
  OBVIOUS
<1>1. CASE UNCHANGED ensembleVars
  BY <1>1 DEF ensembleVars, RowsWeighed, RowNeedsWeight, WeightBehind
<1>2. CASE results' \in {NoResults, Raised}
  BY <1>2, WithoutRows DEF RowsWeighed
<1>3. ASSUME NEW how \in {"trained", "failed"}, TrainForest(how) \/ TrainEncoder(how)
      PROVE  RowsWeighed'
  BY <1>2, <1>3 DEF TrainForest, TrainEncoder
<1>4. CASE FitZScore
  BY <1>2, <1>4 DEF FitZScore
<1>5. ASSUME NEW batch \in Batches, ScoreBatch(batch) PROVE RowsWeighed'
  <2>1. results'.rows = <<>> \/ results'.rows = [i \in 1..BatchSize |-> RowResult(batch, i)]
    BY <1>5, WithoutRows DEF ScoreBatch
  <2>2. \A i \in 1..BatchSize : RowNeedsWeight(RowResult(batch, i))
    BY RowResultNeedsWeight
  <2>3. \A i \in DOMAIN results'.rows : RowNeedsWeight(results'.rows[i])
    <3>1. CASE results'.rows = <<>>
      BY <3>1
    <3>2. CASE results'.rows = [i \in 1..BatchSize |-> RowResult(batch, i)]
      BY <2>2, <3>2
    <3> QED
      BY <2>1, <3>1, <3>2
  <2> QED
    BY <2>3 DEF RowsWeighed, RowNeedsWeight, WeightBehind
<1> QED
  BY <1>1, <1>3, <1>4, <1>5 DEF EnsembleNext

LEMMA WeighedInit == EnsembleInit => RowsWeighed
BY WithoutRows DEF EnsembleInit, RowsWeighed

(* No row is flagged, "high" or "critical" unless the detectors that find   *)
(* it odd weigh as much as the grade asks for, for all weights and batches. *)
THEOREM GradesAreWeighed == EnsembleSpec => []GradesNeedWeight
<1>1. RowsWeighed => GradesNeedWeight
  BY DEF RowsWeighed, RowNeedsWeight, GradesNeedWeight
<1> QED
  BY <1>1, WeighedInit, WeighedStep, PTL DEF EnsembleSpec

(* At a weight below 0.30, such as the default, the Z-score detector flags  *)
(* nothing by itself, so that it is no fallback for the other two.          *)
THEOREM FallbackNeverFlags ==
    ASSUME Weights.zscore < 30
    PROVE  EnsembleSpec => []ZScoreAloneIsSilent
<1>1. Weights.zscore \in Nat
  BY EnsembleAssumption DEF EnsembleAssumption
<1>2. RowsWeighed => ZScoreAloneIsSilent
  <2> SUFFICES ASSUME RowsWeighed, NEW i \in DOMAIN results.rows,
                      results.rows[i].if_score = 0, results.rows[i].ae_score = 0
               PROVE  ~results.rows[i].is_anomaly
    BY DEF ZScoreAloneIsSilent
  <2>1. WeightBehind(results.rows[i]) < 30
    BY <1>1 DEF WeightBehind
  <2> QED
    BY <1>1, <2>1 DEF RowsWeighed, RowNeedsWeight, WeightBehind
<1> QED
  BY <1>2, WeighedInit, WeighedStep, PTL DEF EnsembleSpec
=============================================================================
