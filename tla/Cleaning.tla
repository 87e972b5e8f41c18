------------------------------- MODULE Cleaning -------------------------------
(***************************************************************************)
(* The cleaning of the raw readings: clean.py.  Spark evaluates the        *)
(* frames anew for every count of the report and for the output, and every *)
(* time it may rank rows that tie in another order.                        *)
(*                                                                         *)
(* A raw row has a key (station and observation time), which may fail to   *)
(* parse; a rainfall that is valid or not; a place (coordinates and unit)  *)
(* that is valid, invalid or missing; and the time of its last update      *)
(* (update_ts, then reading_update_ts), which may be missing.              *)
(***************************************************************************)
EXTENDS Integers, FiniteSets

CONSTANTS Key,          \* of the rows
          MaxUpdate,    \* the updates of a row, from 1
          MaxRows       \* bound: the rows of the input

VARIABLES raw,          \* the rows, numbered
          stage,        \* "read", "counted", "written"
          counts,       \* of the report
          cleaned       \* the rows written

vars == <<raw, stage, counts, cleaned>>

Null == 0               \* as an update, before all others

Good == [key : Key, rain : {"valid"}, place : {"valid"}, update : Null .. MaxUpdate]
Faulty == [key : Key, rain : {"valid", "invalid"}, place : {"valid", "invalid", "missing"},
           update : {Null}]
Unparsed == [key : {"unparsed"}, rain : {"valid"}, place : {"valid", "missing"},
             update : {Null}]

Init == /\ raw \in [1 .. MaxRows -> Good \cup Faulty \cup Unparsed]
        /\ stage = "read"
        /\ counts = [read |-> 0, invalid |-> 0, duplicate |-> 0, retained |-> 0]
        /\ cleaned = {}

-----------------------------------------------------------------------------
(* valid_rows(): the conjunction is false, or else unknown when one of its   *)
(* terms is, and neither filter(valid) nor filter(~valid) keeps such a row.  *)
Invalid == {r \in DOMAIN raw : \/ raw[r].key = "unparsed"
                               \/ raw[r].rain = "invalid"
                               \/ raw[r].place = "invalid"}

Valid == {r \in DOMAIN raw \ Invalid : raw[r].place # "missing"}

(* Mutant: a row without an update time ranks first.                         *)
NullsFirst(r, q) ==
    raw[q].update # Null /\ (raw[r].update = Null \/ raw[r].update > raw[q].update)

(* desc_nulls_last()                                                         *)
Newer(r, q) == raw[r].update > raw[q].update

(* deduplicate(): what row_number() = 1 can keep.                            *)
Deduplicated ==
    {S \in SUBSET Valid :
        /\ \A r \in Valid : \E s \in S : raw[s].key = raw[r].key
        /\ \A s \in S : \A r \in Valid \ {s} :
              raw[r].key = raw[s].key => r \notin S /\ ~Newer(r, s)}

(* quality_report(): each count is an evaluation of its own.                 *)
Report ==
    /\ stage = "read" /\ stage' = "counted"
    /\ \E kept, rest \in Deduplicated :
          counts' = [read |-> Cardinality(DOMAIN raw),
                     invalid |-> Cardinality(Invalid),
                     duplicate |-> Cardinality(Valid \ rest),
                     retained |-> Cardinality(kept)]
    /\ UNCHANGED <<raw, cleaned>>

Write ==
    /\ stage = "counted" /\ stage' = "written"
    /\ cleaned' \in Deduplicated
    /\ UNCHANGED <<raw, counts>>

Next == Report \/ Write

Spec == Init /\ [][Next]_vars

-----------------------------------------------------------------------------
(* The report adds up for what was written, whichever of the rows that tie   *)
(* each evaluation keeps: every key has one row, the newest of its valid     *)
(* ones, and a row that no count has lacks its coordinates or its unit and   *)
(* nothing else (clean.py lines 74-93 and 114-119).                          *)
CountsMatchWritten ==
    stage = "written" =>
        /\ counts.retained = Cardinality(cleaned)
        /\ \A r, s \in cleaned : raw[r].key = raw[s].key => r = s
        /\ \A s \in cleaned : \A r \in Valid :
              raw[r].key = raw[s].key => raw[r].update <= raw[s].update
        /\ counts.read = counts.invalid + counts.duplicate + counts.retained
              + Cardinality({r \in DOMAIN raw :
                                /\ raw[r].place = "missing" /\ raw[r].rain = "valid"
                                /\ raw[r].key \in Key})
=============================================================================
