---------------------------- MODULE QualityControl ----------------------------
(***************************************************************************)
(* The day masks of the rainfall quality control, for one station: qc.py   *)
(* (rules A to D) and main() of project2/scripts/qc_rainfall.py, which     *)
(* collects the flags, builds the masks and writes one dataset per year.   *)
(*                                                                         *)
(* A day of the station has no data, rain, rain that rule B or C flags, or *)
(* an exact-zero total while the neighbours were dry or wet.  Rule E       *)
(* (single slots) and how the neighbours' totals are matched are left out. *)
(***************************************************************************)
EXTENDS Integers, FiniteSets, FiniteSetsExt

CONSTANTS Days,            \* bound: the days of the two years
          NewYear,         \* the first day of the second one
          StuckMinWetDays, RepeatMinDays, RepeatMaxGapDays, DayBuffer  \* QCConfig

VARIABLES kind,       \* of every day
          pc,         \* "repeat", the year to write, "done"
          ds, chain,  \* rule D: flagged days to come, and those linked so
                      \* far; lists in ascending order, and so sets
          spans,      \* rule D: <<first, last>>
          output      \* the readings written

vars == <<kind, pc, ds, chain, spans, output>>

Day == 1 .. Days

Of(kinds) == {d \in Day : kind[d] \in kinds}
Flagged == Of({"flagged"})
Rainy == Of({"rain", "flagged"})
Zero == Of({"dry", "wet"})

(* The two faults of a gauge, each with ordinary days around it, and both.   *)
Table == [Day -> {"none", "rain", "flagged"}] \cup [Day -> {"none", "rain", "dry", "wet"}]
         \cup [Day -> {"flagged", "dry", "wet"}]

(* A reading is <<d, s>> for the five-minute slot s of day d; the last slot  *)
(* of a day is stamped 00:00 of the next (with_slot_and_day()).              *)
Readings == (Day \ Of({"none"})) \X {"noon", "last"}

YearOf(r) == IF (IF r[2] = "last" THEN r[1] + 1 ELSE r[1]) < NewYear
               THEN "first" ELSE "second"

Init == /\ kind \in Table
        /\ pc = "repeat"
        /\ ds = Flagged
        /\ chain = {}
        /\ spans = {}
        /\ output = {}

-----------------------------------------------------------------------------
(* repeat_spans(): one turn of the loop, and the None after the last day.    *)

(* Mutant: a day at the largest gap starts a chain of its own.               *)
Nearer(d) == d - Max(chain) < RepeatMaxGapDays

Linked(d) == d - Max(chain) <= RepeatMaxGapDays

Close == spans' = spans \cup
            IF Cardinality(chain) >= RepeatMinDays THEN {<<Min(chain), Max(chain)>>} ELSE {}

Repeat ==
    /\ pc = "repeat"
    /\ \/ /\ ds = {} /\ chain = {}                 \* no flag at this station
          /\ pc' = "first" /\ UNCHANGED <<ds, chain, spans>>
       \/ /\ ds # {} /\ (chain # {} => Linked(Min(ds)))
          /\ chain' = chain \cup {Min(ds)} /\ ds' = ds \ {Min(ds)}
          /\ UNCHANGED <<pc, spans>>
       \/ /\ ds # {} /\ chain # {} /\ ~Linked(Min(ds))
          /\ Close
          /\ chain' = {Min(ds)} /\ ds' = ds \ {Min(ds)}
          /\ UNCHANGED pc
       \/ /\ ds = {} /\ chain # {}
          /\ Close
          /\ pc' = "first" /\ UNCHANGED <<ds, chain>>
    /\ UNCHANGED <<kind, output>>

(* stuck_zero_runs(): the zero days grouped by the rainy days before them,   *)
(* which leaves out the days without data.                                   *)
RunOf(d) == Cardinality({r \in Rainy : r <= d})

Runs == {{z \in Zero : RunOf(z) = RunOf(d)} : d \in Zero}

StuckRuns == {<<Min(run), Max(run)>> : run \in
                 {r \in Runs : Cardinality(r \cap Of({"wet"})) >= StuckMinWetDays}}

(* The day masks of main(): rule A as it is, the others widened.             *)
DayMasks == StuckRuns
            \cup {<<d - DayBuffer, d + DayBuffer>> : d \in Flagged}
            \cup {<<s[1] - DayBuffer, s[2] + DayBuffer>> : s \in spans}

InSpan(d) == \E m \in DayMasks : m[1] <= d /\ d <= m[2]

(* The year loop of main(): what is kept of one year's readings.             *)
WriteYear ==
    /\ pc \in {"first", "second"}
    /\ output' = output \cup {r \in Readings : YearOf(r) = pc /\ ~InSpan(r[1])}
    /\ pc' = IF pc = "first" THEN "second" ELSE "done"
    /\ UNCHANGED <<kind, ds, chain, spans>>

Next == Repeat \/ WriteYear

Spec == Init /\ [][Next]_vars

-----------------------------------------------------------------------------
(* The rules as the head of qc.py words them.                                *)
StuckZero(d) ==
    \E a \in Zero, b \in Zero :
        /\ a <= d /\ d <= b /\ (a .. b) \cap Rainy = {}
        /\ Cardinality((a .. b) \cap Of({"wet"})) >= StuckMinWetDays

RepeatedFlags(d) ==
    \E a \in Flagged, b \in Flagged :
        /\ a - DayBuffer <= d /\ d <= b + DayBuffer
        /\ Cardinality((a .. b) \cap Flagged) >= RepeatMinDays
        /\ \A x \in (a .. b) \cap Flagged : x # b =>
               \E y \in Flagged : x < y /\ y - x <= RepeatMaxGapDays

(* The readings written are all those of days that no rule masks: every run  *)
(* of zero days is masked whole, every chain of flags from its first to its  *)
(* last day with what lies between, and a mask reaches across a gap in the   *)
(* data and across the end of a year.                                        *)
MaskIsRules ==
    pc = "done" =>
        output = {r \in Readings :
                     /\ ~StuckZero(r[1]) /\ ~RepeatedFlags(r[1])
                     /\ \A d \in Flagged : r[1] \notin (d - DayBuffer .. d + DayBuffer)}
=============================================================================
