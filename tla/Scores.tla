--------------------------------- MODULE Scores ---------------------------------
(***************************************************************************)
(* The scores of the rainfall forecasts: evaluate.py and dists.py of       *)
(* project2/experiments/distributional, score_rows() of ziln.py, and the   *)
(* sums by day of bootstrap_amount_models.py.                              *)
(*                                                                         *)
(* Rows are sorted by forecast, and rows with equal forecasts come in any  *)
(* order.  Scores are integers: each is multiplied by the denominators of  *)
(* its formula.  Two forecasts share a bin of the threshold search.  An    *)
(* amount is 0 or odd, in units of which a cell of the lattice has four.   *)
(***************************************************************************)
EXTENDS Integers, FiniteSets, FiniteSetsExt, Functions

CONSTANTS N, Grades,         \* rows, and the largest forecast
          V, MaxWeight       \* wet amounts, and rows with the same amount

VARIABLES data,              \* the rows, or the distribution and an observation
          scores             \* what is reported of them

vars == <<data, scores>>

Pending == << >>

Rank == 1 .. N
Amounts == {0} \cup {2 * v - 1 : v \in 1 .. V}

(* Of ranked rows the forecast and whether the event came; of a forecast     *)
(* distribution the weights of the amounts, some of them wet, and one        *)
(* observation on the lattice.                                               *)
Init ==
    /\ scores = Pending
    /\ \/ data \in [p : [Rank -> 0 .. Grades], event : [Rank -> BOOLEAN]]
       \/ data \in {d \in [w : [Amounts -> 0 .. MaxWeight], y : {4 * k : k \in 0 .. V}] :
                       \E a \in Amounts \ {0} : d.w[a] > 0}

Ranked == "p" \in DOMAIN data
p == data.p
Events == {r \in Rank : data.event[r]}

Count(S) == Cardinality(S)
Square(x) == x * x
Abs(x) == IF x < 0 THEN -x ELSE x

-----------------------------------------------------------------------------
(* Midranks for ties, twice.                                                 *)
Rank2(r) == LET csum == Count({q \in Rank : p[q] <= p[r]})
                cnt  == Count({q \in Rank : p[q] = p[r]})
            IN  2 * csum - (cnt - 1)

Auc2 == SumFunction([r \in Events |-> Rank2(r)]) - Count(Events) * (Count(Events) + 1)

(* A sorted file, and the last row of every run of equal forecasts.          *)
Orders == {o \in [Rank -> Rank] :
              /\ IsInjective(o)
              /\ \A i, j \in Rank : i < j => p[o[i]] >= p[o[j]]}

(* Mutant: a point of the curve for every row.                               *)
EveryRow(o) == Rank

Last(o) == {i \in Rank : i = N \/ p[o[i]] # p[o[i + 1]]}

Tp(o, i) == Count({k \in 1 .. i : data.event[o[k]]})
Scale == FoldFunction(LAMBDA a, b : a * b, 1, [i \in Rank |-> i])
Precision(o, i) == (Tp(o, i) * Scale) \div i

(* The point of the curve before one of Last: row 0 has no recall and the    *)
(* precision of the first.                                                   *)
Before(o, i) == Max({0} \cup {j \in Last(o) : j < i})
PrecisionBefore(o, i) == Precision(o, IF Before(o, i) = 0 THEN i ELSE Before(o, i))
Recall(o, i) == Tp(o, i) - Tp(o, Before(o, i))

Trapezoid2(o) ==
    SumFunction([i \in Last(o) |-> Recall(o, i) * (Precision(o, i) + PrecisionBefore(o, i))])
AveragePrecision(o) ==
    SumFunction([i \in Last(o) |-> Recall(o, i) * Precision(o, i)])

(* best_f1_threshold(): the first of the best bins from above, as the lowest *)
(* forecast of the bin.                                                      *)
Bin(r) == 2 * (p[r] \div 2)
Bins == {Bin(r) : r \in Rank}
BinF1(b) == LET above == {r \in Rank : Bin(r) >= b}
            IN  <<2 * Count(above \cap Events), Count(Events) + Count(above)>>
Cut == Max({b \in Bins : \A c \in Bins : BinF1(c)[1] * BinF1(b)[2] <= BinF1(b)[1] * BinF1(c)[2]})

(* f1_at(): precision and recall, 0 where they are undefined.                *)
F1At(t) ==
    LET pred == {r \in Rank : p[r] >= t}
        tp == Count(pred \cap Events)
        pr == IF pred = {} THEN <<0, 1>> ELSE <<tp, Count(pred)>>
        rc == IF Events = {} THEN <<0, 1>> ELSE <<tp, Count(Events)>>
        sum == pr[1] * rc[2] + rc[1] * pr[2]
    IN  IF sum = 0 THEN <<0, 1>> ELSE <<2 * pr[1] * rc[1], sum>>

(* Sums by day, and those of a resample of the days; the Brier score of a    *)
(* constant forecast c / d from its rows and events.                         *)
TestDays == 1 .. 2
DayOf(r) == IF 2 * r <= N THEN 1 ELSE 2
Resampled(S, idx) == SumFunction([i \in TestDays |-> Count({r \in S : DayOf(r) = idx[i]})])
ConstantBrier(n, e, c, d) == e * Square(d - c) + (n - e) * Square(c)

RankRows ==
    /\ Ranked /\ scores = Pending
    /\ \E o \in Orders, idx \in [TestDays -> TestDays] :
          scores' = [auc2 |-> Auc2, trapezoid2 |-> Trapezoid2(o),
                     ap |-> AveragePrecision(o), cut |-> Cut, f1 |-> F1At(Cut), idx |-> idx,
                     brier |-> [c \in 0 .. 2 |->
                        ConstantBrier(Resampled(Rank, idx), Resampled(Events, idx), c, 2)]]
    /\ UNCHANGED data

-----------------------------------------------------------------------------
(* A distribution: its rows, the wet ones, and the sums of their amounts.    *)
Weight(S) == SumFunction([a \in S |-> data.w[a]])
Moment(S) == SumFunction([a \in S |-> data.w[a] * a])
UpTo(z) == {a \in Amounts : a <= z}
Wet == Amounts \ {0}
n == Weight(Amounts)
W == Weight(Wet)
M == Moment(Wet)
y == data.y

(* climatology(), climatology_crps(): from cumulative sums.                  *)
Climatology ==
    LET gini == 2 * SumFunction([a \in Amounts |->
                       data.w[a] * a * (2 * Weight(UpTo(a)) - data.w[a] - n)])
        F == Weight(UpTo(y))
        S == Moment(UpTo(y))
        eabs == y * F - S + (M - S) - y * (n - F)
    IN  2 * n * eabs - gini

(* The CRPS of a dry part and a wet part, from E|Z - y| and E|Z - Z'|.       *)
Mixture(eabs, gini) == 2 * n * (n - W) * y + 2 * n * eabs - 2 * (n - W) * M - gini

(* pos_abs_dev(): from partial moments.                                      *)
FromMoments == M - y * W + 2 * (y * Weight(Wet \cap UpTo(y)) - Moment(Wet \cap UpTo(y)))

(* score_rows(): from the quantiles at the midpoints of a grid.              *)
Quantile(i) == Min({a \in Wet : Weight(Wet \cap UpTo(a)) > i})
Grid == 0 .. W - 1
FromQuantiles == SumFunction([i \in Grid |-> Abs(Quantile(i) - y)])
Gini == 2 * SumFunction([i \in Grid |-> Quantile(i) * (2 * i + 1 - W)])

(* The cell of the lattice an observation is in.                             *)
Lo == IF y = 0 THEN 0 ELSE y - 2
Hi == y + 2
Cdf(z) == Weight(Wet \cap UpTo(z))
Sf(z) == W - Cdf(z)
Lattice ==
    IF y = 0 THEN (n - W) + Cdf(Hi)
    ELSE IF 2 * Cdf(Hi) < W THEN Cdf(Hi) - Cdf(Lo) ELSE Sf(Lo) - Sf(Hi)
PitLo == IF y = 0 THEN 0 ELSE (n - W) + Cdf(Lo)
PitHi == (n - W) + Cdf(Hi)
Exceedance(r) == IF r = 0 THEN W ELSE Sf(r)

Grade ==
    /\ ~Ranked /\ scores = Pending
    /\ scores' = [climatology |-> Climatology,
                  crps |-> {Mixture(FromMoments, Gini), Mixture(FromQuantiles, Gini)},
                  lattice |-> Lattice, pit |-> <<PitLo, PitHi>>,
                  above |-> [r \in {0, 2, 4, 6} |-> Exceedance(r)]]
    /\ UNCHANGED data

Next == RankRows \/ Grade

Spec == Init /\ [][Next]_vars

-----------------------------------------------------------------------------
(* What the reports should hold, from the definitions.                       *)
Pairs == {pair \in Events \X (Rank \ Events) : p[pair[1]] >= p[pair[2]]}
Ties == {pair \in Pairs : p[pair[1]] = p[pair[2]]}

(* The points of the curve, one for every forecast that occurs.              *)
Forecasts == {p[r] : r \in Rank}
AtLeast(t) == {r \in Rank : p[r] >= t}
PrecisionAt(t) == (Count(AtLeast(t) \cap Events) * Scale) \div Count(AtLeast(t))
Gained(t) == Count({r \in Events : p[r] = t})
Above(t) == LET higher == {u \in Forecasts : u > t} IN IF higher = {} THEN t ELSE Min(higher)

F1Best == \A b \in Bins :
             LET at == F1At(b) IN at[1] * scores.f1[2] <= scores.f1[1] * at[2]

RanksAreExact ==
    /\ scores.auc2 = 2 * Count(Pairs) - Count(Ties)
    /\ scores.ap = SumFunction([t \in Forecasts |-> Gained(t) * PrecisionAt(t)])
    /\ scores.trapezoid2 =
          SumFunction([t \in Forecasts |-> Gained(t) * (PrecisionAt(t) + PrecisionAt(Above(t)))])
    /\ F1Best
    /\ \A c \in 0 .. 2 :
          scores.brier[c] =
             SumFunction([i \in TestDays |->
                SumFunction([r \in {r \in Rank : DayOf(r) = scores.idx[i]} |->
                                Square((IF data.event[r] THEN 2 ELSE 0) - c)])])

(* The CRPS is the squared distance of the two distribution functions.       *)
Distance == SumFunction([x \in 0 .. Max(Amounts \cup {y}) |->
                            Square(Weight(UpTo(x)) - (IF x >= y THEN n ELSE 0))])

GradesAreExact ==
    /\ scores.climatology = 2 * Distance
    /\ scores.crps = {2 * Distance}
    /\ scores.lattice = Weight({a \in Amounts : Abs(a - y) < 2})
    /\ scores.pit = <<Weight({a \in Amounts : a < y - 2}), Weight({a \in Amounts : a < y + 2})>>
    /\ scores.pit[2] - scores.pit[1] = scores.lattice
    /\ \A r \in DOMAIN scores.above : scores.above[r] = Weight({a \in Amounts : a > r})

(* Every score is the one its name promises: the areas and the cut do not    *)
(* depend on the order of rows with equal forecasts, the closed forms of the *)
(* CRPS agree with its definition, and the likelihood of a cell is the width *)
(* of its PIT interval (dists.py line 208: "Exact CRPS = E|X-y| -            *)
(* E|X-X'|/2 via Poisson series").                                           *)
ScoresAreExact ==
    scores # Pending => IF Ranked THEN RanksAreExact ELSE GradesAreExact
=============================================================================
