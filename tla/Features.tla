------------------------------- MODULE Features -------------------------------
(***************************************************************************)
(* The rainfall predictors: features.py (windows over a station's own      *)
(* readings, and the target), spatial.py (neighbours, one slot behind) and *)
(* rich_features.py (slot windows, joined on the slot of the row); and the *)
(* table of prep.py, whose rows are slots (experiments/distributional).    *)
(*                                                                         *)
(* The exporters stamp the reading of a five-minute slot at :00 or one     *)
(* second early, at :59; some slots have both, some none.  A reading is    *)
(* its timestamp, in seconds; what it measured is left out.                *)
(***************************************************************************)
EXTENDS Integers, FiniteSets

CONSTANTS Station, Own,     \* the stations, and the one the rows are of
          HistorySlots,     \* 12 in features.py: an hour
          FutureSlots,      \* 6: half an hour
          RichSlots,        \* 36 in rich_features.py: three hours
          Slots,            \* bound: the slots of the stream
          MaxIrregular      \* bound: slots with both exports, none, or the other one

VARIABLES slot,         \* the slots exported so far
          readings,     \* of every station
          early,        \* the stations that stamp at :59 now
          irregular     \* the slots that were irregular

vars == <<slot, readings, early, irregular>>

SLOT == 300

(* What a station exports for the slot that ends at time t.                  *)
Exports(t) == SUBSET {t - 1, t}

Regular(s, t) == IF s \in early THEN {t - 1} ELSE {t}

Init == /\ slot = 0
        /\ readings = [s \in Station |-> {}]
        /\ early \in SUBSET Station
        /\ irregular = 0

(* The next slot: every station exports as it does, but one may miss the     *)
(* slot, export it twice, or stamp the other way, from now on or just once.  *)
Export ==
    /\ slot < Slots /\ slot' = slot + 1
    /\ LET t == SLOT * slot' IN
       \/ /\ readings' = [s \in Station |-> readings[s] \cup Regular(s, t)]
          /\ UNCHANGED <<early, irregular>>
       \/ /\ irregular < MaxIrregular /\ irregular' = irregular + 1
          /\ \E s \in Station : \E new \in Exports(t), turn \in {{}, {s}} :
                /\ readings' = [r \in Station |->
                       readings[r] \cup IF r = s THEN new ELSE Regular(r, t)]
                /\ early' = (early \ turn) \cup (turn \ early)

Next == Export

Spec == Init /\ [][Next]_vars

-----------------------------------------------------------------------------
(* features.py: the rows of the base table are the own readings.             *)
Between(R, a, b) == {r \in R : a <= r /\ r <= b}

History(t) == Between(readings[Own], t - SLOT * HistorySlots, t)
Target(t) == Between(readings[Own], t + 1, t + SLOT * FutureSlots)

(* Mutant: a history with one reading missing counts as complete.            *)
CompleteButOne(t) ==
    /\ Cardinality(History(t)) >= HistorySlots
    /\ Cardinality(Target(t)) = FutureSlots

Complete(t) ==
    /\ Cardinality(History(t)) = HistorySlots + 1
    /\ Cardinality(Target(t)) = FutureSlots

(* ziln.py eligible(), which every model trains and predicts on.             *)
Rows == {t \in readings[Own] : Complete(t)}

(* spatial.py canonical_slot(): rounding to the nearest five minutes.        *)
SlotOf(t) == ((t + SLOT \div 2) \div SLOT) * SLOT

(* The export that stands for a slot: the latest (row_number() over          *)
(* timestamps in descending order).                                          *)
Latest(R, s) ==
    {r \in R : SlotOf(r) = s /\ \A q \in R : SlotOf(q) = s => q <= r}

(* Mutant: the neighbours are joined on the row's own slot.                  *)
SameSlot(t) == SlotOf(t)

(* spatial.py add_lagged_neighbor_features(): the neighbours' exports of the *)
(* slot before the row's.                                                    *)
NeighborSlot(t) == SlotOf(t) - SLOT

NeighborSources(t) ==
    UNION {Latest(readings[s], NeighborSlot(t)) : s \in Station \ {Own}}

(* rich_features.py: station_slots() of the own station over the hours       *)
(* before the row's slot, and of the neighbours, one slot behind.            *)
RichOwn(t) ==
    UNION {Latest(readings[Own], SlotOf(t) - SLOT * k) : k \in 0 .. RichSlots - 1}

RichNeighbors(t) ==
    UNION {Latest(readings[s], SlotOf(t) - SLOT * k) :
              s \in Station \ {Own}, k \in 1 .. RichSlots}

(* prep.py: the rows are slots.  Any export of a slot may be the one that is *)
(* kept, since the newest update timestamp wins (load_slots()).              *)
SlotsOf(R) == {SlotOf(r) : r \in R}
DistSlots(s) == SlotsOf(readings[s])
InSlots(s, U) == {r \in readings[s] : SlotOf(r) \in U}

DistHistory(u) == Between(DistSlots(Own), u - SLOT * (HistorySlots - 1), u)

DistTarget(u) == Between(DistSlots(Own), u + SLOT, u + SLOT * FutureSlots)

DistRows == {u \in DistSlots(Own) : /\ Cardinality(DistHistory(u)) = HistorySlots
                                    /\ Cardinality(DistTarget(u)) = FutureSlots}

(* The windows of the neighbours that have the slot before the row's, joined *)
(* on that slot (build_year()).                                              *)
DistNeighbors(u) ==
    UNION {InSlots(s, Between(DistSlots(s), u - SLOT * HistorySlots, u - SLOT)) :
              s \in {q \in Station \ {Own} : u - SLOT \in DistSlots(q)}}
DistPredictors(u) ==
    InSlots(Own, Between(DistSlots(Own), u - SLOT * (RichSlots - 1), u))
        \cup DistNeighbors(u)

-----------------------------------------------------------------------------
TypeOK == /\ slot \in Nat /\ irregular \in Nat
          /\ readings \in [Station -> SUBSET Int]
          /\ early \in SUBSET Station

(* Whatever two exporters disagree about, no row sees a reading of a         *)
(* neighbour that was not there before the row's own (spatial.py lines       *)
(* 92-94; the same lag in rich_features.py and prep.py), and no predictor of *)
(* prep.py is as new as any reading of the target.                           *)
NeighboursArePast ==
    /\ \A t \in readings[Own] :
          \A r \in NeighborSources(t) \cup RichNeighbors(t) \cup DistNeighbors(SlotOf(t)) :
             r < t
    /\ \A u \in DistRows :
          \A r \in DistPredictors(u), q \in InSlots(Own, DistTarget(u)) : r < q

(* A row whose windows hold the right number of readings, no two of them of  *)
(* the same slot, misses none: the history has the row's slot and the hour   *)
(* before it, the target the half hour after it, at either offset and across *)
(* a change of offset (features.py lines 45-46).  In the table of prep.py    *)
(* the slots of an eligible row never have a gap (line 140).                 *)
CompleteIsGapless ==
    /\ \A t \in Rows :
          Cardinality(SlotsOf(History(t) \cup Target(t)))
                  = Cardinality(History(t)) + FutureSlots =>
              SlotsOf(History(t) \cup Target(t))
                  = {SlotOf(t) + SLOT * k : k \in -HistorySlots .. FutureSlots}
    /\ \A u \in DistRows :
          DistHistory(u) \cup DistTarget(u)
              = {u + SLOT * k : k \in (1 - HistorySlots) .. FutureSlots}

(* rich_features.py line 1: the predictors are leakage-safe; the contract:   *)
(* they hold rainfall observed at or before the row's time only.             *)
RichIsPast == \A t \in Rows : \A r \in RichOwn(t) : r <= t
=============================================================================
