-------------------------------- MODULE Amounts --------------------------------
(***************************************************************************)
(* The grid forecasts of the rainfall amount: amount_models.py of project2 *)
(* and the bins of experiments/distributional/train_binned.py.             *)
(*                                                                         *)
(* The learner is the ideal one: for every group of rows it is given it    *)
(* returns the share of them, and anything for a group it never saw.  An   *)
(* amount is even on an edge and odd between two, 0 when dry; a            *)
(* probability is a fraction <<numerator, denominator>>.                   *)
(***************************************************************************)
EXTENDS Integers, FiniteSets, FiniteSetsExt

CONSTANTS Sample, J      \* the training rows, the number of edges

VARIABLES y,             \* the amount of every row
          bin,           \* the edges whose hazard has been multiplied in
          s_pos          \* [1 .. bin -> P(y > edge | y > 0)]

vars == <<y, bin, s_pos>>

Edge(j) == 2 * j

Wet == {r \in Sample : y[r] > 0}

Init == /\ y \in [Sample -> 0 .. Edge(J) + 1]
        /\ Wet # {}
        /\ bin = 0 /\ s_pos = << >>

Share(part, whole) == <<Cardinality(part), Cardinality(whole)>>
Times(p, q) == <<p[1] * q[1], p[2] * q[2]>>
Minus(p, q) == <<p[1] * q[2] - q[1] * p[2], p[2] * q[2]>>
Equal(p, q) == p[1] * q[2] = q[1] * p[2]

-----------------------------------------------------------------------------
(* wet_class(): the number of edges strictly below the amount.               *)
WetClass(r) == Cardinality({j \in 1 .. J : y[r] > Edge(j)})

(* hazard_rows(): a wet row is asked about the edges it passes and the next. *)
BinsOf(r) == 1 .. Min({WetClass(r) + 1, J})

Asked(j) == {r \in Wet : j \in BinsOf(r)}

Hazards(j) ==
    IF Asked(j) = {} THEN {<<0, 1>>, <<1, 2>>, <<1, 1>>}
    ELSE {Share({r \in Asked(j) : WetClass(r) >= j}, Asked(j))}

(* survival(): the product of the hazards up to an edge.                     *)
Multiply ==
    /\ bin < J /\ bin' = bin + 1
    /\ \E h \in Hazards(bin') :
          s_pos' = [j \in 1 .. bin' |->
                       IF j < bin' THEN s_pos[j]
                       ELSE IF bin = 0 THEN h ELSE Times(s_pos[bin], h)]
    /\ UNCHANGED y

Next == Multiply

Spec == Init /\ [][Next]_vars

-----------------------------------------------------------------------------
(* _upper_sums() of the class probabilities of the forest and the network.   *)
UpperSum(j) == Share(UNION {{r \in Wet : WetClass(r) = c} : c \in j .. J}, Wet)

(* _with_pi(): P(y > edge k), and P(y > 0) for k = 0.                        *)
WithPi(k) == LET pi == Share(Wet, Sample)
             IN  IF k = 0 THEN pi ELSE Times(s_pos[k], pi)

(* score_columns(): the class of an amount, and its probability.             *)
ClassOf(r) == IF y[r] <= 0 THEN 0 ELSE WetClass(r) + 1

ClassProbability(c) ==
    CASE c = 0     -> Minus(<<1, 1>>, WithPi(0))
      [] c = J + 1 -> WithPi(J)
      [] OTHER     -> Minus(WithPi(c - 1), WithPi(c))

(* to_class() of train_binned.py: searchsorted() with side "left".           *)
BinnedClass(r) ==
    IF y[r] <= 0 THEN 0
    ELSE 1 + Cardinality({j \in 1 .. J : Edge(j) < y[r]})

(* metrics(): P(y > edge k) as one minus the sum of the first k + 1 classes, *)
(* and what is observed of it.                                               *)
BinnedSurvival(k) ==
    Minus(<<1, 1>>, Share({r \in Sample : BinnedClass(r) <= k}, Sample))

BinnedObserved(r, k) == BinnedClass(r) > k

(* Every way of getting there gives the share of the rows above an edge:     *)
(* products of hazards, sums of classes, and one minus sums of bins.  The    *)
(* class of an amount has the share of its rows, an amount on an edge        *)
(* belongs to the class below, and every threshold counts the amounts above  *)
(* it (amount_models.py line 39: "S[k] = P(Y > GRID[k] | x)").                  *)
SurvivalIsShare ==
    bin = J =>
       /\ \A j \in 1 .. J : Equal(s_pos[j], UpperSum(j))
       /\ \A k \in 0 .. J :
             LET above == {r \in Sample : y[r] > Edge(k)} IN
             /\ Equal(WithPi(k), Share(above, Sample))
             /\ Equal(BinnedSurvival(k), Share(above, Sample))
             /\ above = {r \in Sample : BinnedObserved(r, k)}
       /\ \A r \in Sample :
             /\ Equal(ClassProbability(ClassOf(r)),
                      Share({q \in Sample : ClassOf(q) = ClassOf(r)}, Sample))
             /\ ClassOf(r) = BinnedClass(r)
=============================================================================
