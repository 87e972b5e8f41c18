------------------------------ MODULE Thresholds ------------------------------
(***************************************************************************)
(* The decision threshold with the largest F1 on the validation rows:      *)
(* select_f1_threshold() of project2/scripts/select_decision_threshold.py  *)
(* and best_f1_threshold() of ziln.py ("ziln").  One sweep over the scores *)
(* that occur, from the highest, with the confusion matrix carried along.  *)
(*                                                                         *)
(* A score is floor(1000 p).  An F1 is the fraction <<numerator,           *)
(* denominator>> the code divides; floating point is left out.             *)
(***************************************************************************)
EXTENDS Integers, FiniteSets

CONSTANTS Row, Top       \* the scored rows, the highest score (1000)

ASSUME ThresholdsAssumption == IsFiniteSet(Row) /\ Row # {} /\ Top \in Nat

VARIABLES score, positive,    \* of the rows
          bins,               \* the scores the sweep has still to visit
          tp, pp,             \* cumulative_tp, cumulative_predicted_positive
          best, f1            \* the best threshold so far, and its F1

vars == <<score, positive, bins, tp, pp, best, f1>>

At(t) == {r \in Row : score[r] = t}
From(t) == {r \in Row : score[r] >= t}
Hits(S) == S \cap positive

Init == /\ score \in [Row -> 0 .. Top]
        /\ positive \in SUBSET Row
        /\ bins = {score[r] : r \in Row}
        /\ tp = 0 /\ pp = 0
        (* None, or (0.0, 1.0) in ziln.py                                     *)
        /\ \/ best = -1 /\ f1 = <<-1, 1>>
           \/ best = Top /\ f1 = <<0, 1>>

Less(x, y) == x[1] * y[2] < y[1] * x[2]

(* Mutant: the bins are visited from the lowest.                             *)
Lowest == CHOOSE t \in bins : \A u \in bins : t <= u

(* orderBy(decision_threshold.desc())                                        *)
Highest == CHOOSE t \in bins : \A u \in bins : u <= t

(* One turn of the loop; max() of the pairs (f1, threshold).                 *)
Visit ==
    /\ bins # {}
    /\ LET t == Highest IN
       /\ bins' = bins \ {t}
       /\ tp' = tp + Cardinality(Hits(At(t)))
       /\ pp' = pp + Cardinality(At(t))
       /\ LET candidate == <<2 * tp', Cardinality(positive) + pp'>> IN
          IF Less(f1, candidate) \/ (~Less(candidate, f1) /\ t > best)
            THEN best' = t /\ f1' = candidate
            ELSE UNCHANGED <<best, f1>>
    /\ UNCHANGED <<score, positive>>

Next == Visit

Spec == Init /\ [][Next]_vars

-----------------------------------------------------------------------------
(* confusion(): what predicting from t on gives, 2 tp / (2 tp + fp + fn).    *)
F1(t) ==
    LET hits == Cardinality(Hits(From(t)))
        fp == Cardinality(From(t) \ positive)
        fn == Cardinality(positive \ From(t))
    IN  <<2 * hits, 2 * hits + fp + fn>>

TypeOK == /\ score \in [Row -> 0 .. Top] /\ positive \in SUBSET Row
          /\ bins \in SUBSET (0 .. Top)
          /\ tp \in Nat /\ pp \in Nat
          /\ best \in -1 .. Top /\ f1 \in Int \X (Nat \ {0})

(* The threshold that is reported has the largest F1 of all thresholds on    *)
(* the 0.001 grid, occurring scores or not, and the F1 it is reported with.  *)
BestIsMaximal ==
    bins = {} =>
        \A t \in 0 .. Top : ~Less(F1(best), F1(t)) /\ ~Less(f1, F1(t))
=============================================================================
