------------------------------- MODULE Patterns -------------------------------
(***************************************************************************)
(* The tables of rain events and station hours behind the weather pattern  *)
(* figures: project2/scripts/eda_patterns.py, for one station whose slots  *)
(* are counted from 1.  A reading stamped t is the rain of the slot that   *)
(* ends at t.                                                              *)
(***************************************************************************)
EXTENDS Integers, FiniteSets, FiniteSetsExt

CONSTANTS PatternSlots,    \* bound: the slots of the station
          HourSlots,       \* HOUR in slots, and EVENT_GAP_S
          ClassEdges       \* DURATION_BINS_MIN, in slots

VARIABLES rain,      \* what fell in each slot
          seen,      \* the slots with a reading
          tables

vars == <<rain, seen, tables>>

Pending == [hourly |-> "pending"]

Init == /\ rain \in [1 .. PatternSlots -> {0, 1}]
        /\ seen \in SUBSET (1 .. PatternSlots)
        /\ tables = Pending

Total(S) == MapThenSumSet(LAMBDA t : rain[t], S)

-----------------------------------------------------------------------------
HourOf(t) == (t - 1) \div HourSlots

(* hourly_table(): an hour with at least one reading.                        *)
Hourly ==
    [h \in {HourOf(t) : t \in seen} |->
        LET mine == {t \in seen : HourOf(t) = h}
        IN  [n |-> Cardinality(mine), rain |-> Total(mine),
             wet |-> Cardinality({t \in mine : rain[t] > 0})]]

Wet == {t \in seen : rain[t] > 0}

(* A wet reading begins an event if none is close enough before it; the      *)
(* events are numbered by a running sum.                                     *)
Begins == {t \in Wet : ~\E s \in Wet : s < t /\ t - s <= HourSlots + 1}
EventOf(t) == Cardinality({s \in Begins : s <= t})

RowNumber(t) == Cardinality({s \in seen : s <= t})

(* event_table(): the span of an event is complete if the row numbers over   *)
(* all readings grow by one a slot.                                          *)
Event(e) ==
    LET mine == {t \in Wet : EventOf(t) = e}
        first == Min(mine)
        last == Max(mine)
    IN  [first |-> first, last |-> last, depth |-> Total(mine),
         hour |-> HourOf(first),
         complete |-> RowNumber(last) - RowNumber(first) = last - first]

Events == {Event(EventOf(t)) : t \in Wet}

(* bucket() of the duration.                                                 *)
Class(e) == Cardinality({edge \in ClassEdges : edge < e.last - e.first + 1})

(* events_by_month and events_by_class, of complete events.                  *)
ByClass ==
    [k \in 0 .. Cardinality(ClassEdges) |->
        LET mine == {e \in Events : e.complete /\ Class(e) = k}
        IN  [events |-> Cardinality(mine),
             rain |-> MapThenSumSet(LAMBDA e : e.depth, mine)]]

(* coverage, station_month and diurnal: sums over hours, some of them over   *)
(* the hours with all readings.                                              *)
Monthly ==
    LET hours == DOMAIN Hourly
        complete == {h \in hours : Hourly[h].n = HourSlots}
    IN  [slots |-> MapThenSumSet(LAMBDA h : Hourly[h].n, hours),
         rain |-> MapThenSumSet(LAMBDA h : Hourly[h].rain, hours),
         rain_complete |-> MapThenSumSet(LAMBDA h : Hourly[h].rain, complete),
         complete_hours |-> Cardinality(complete),
         wet_hours |-> Cardinality({h \in complete : Hourly[h].rain > 0})]

Tabulate == /\ tables = Pending
            /\ tables' = [hourly |-> Hourly, month |-> Monthly, events |-> Events,
                          classes |-> ByClass]
            /\ UNCHANGED <<rain, seen>>

Next == Tabulate

Spec == Init /\ [][Next]_vars

-----------------------------------------------------------------------------
(* Gaps do not pass for dry weather.  The events that count as complete and  *)
(* the hours with all readings have the rain that fell in their span; events *)
(* are more than a dry hour apart, start in an hour that is wet, and share   *)
(* out the rain of the month; the classes of durations share out that of the *)
(* complete events (eda_patterns.py).                                        *)
TablesMatchRain ==
    tables # Pending =>
       LET whole == {h \in 0 .. PatternSlots : \A t \in 1 .. HourSlots :
                        h * HourSlots + t \in seen}
       IN  /\ \A e \in tables.events :
                 /\ e.complete <=> e.first .. e.last \subseteq seen
                 /\ e.complete => e.depth = Total(e.first .. e.last)
                 /\ tables.hourly[e.hour].wet > 0
                 /\ \A f \in tables.events :
                       e.first < f.first => f.first - e.last > HourSlots + 1
           /\ tables.month.complete_hours = Cardinality(whole)
           /\ tables.month.rain_complete =
                 Total({t \in 1 .. PatternSlots : HourOf(t) \in whole})
           /\ tables.month.rain = MapThenSumSet(LAMBDA e : e.depth, tables.events)
           /\ MapThenSumSet(LAMBDA k : tables.classes[k].rain, DOMAIN tables.classes)
                 = Total({t \in seen : \E e \in tables.events :
                            e.complete /\ e.first <= t /\ t <= e.last})
=============================================================================
