---------------------------- MODULE Rainfall_proofs ----------------------------
(***************************************************************************)
(* Proofs about the rainfall programs, one part per job.  A job changes    *)
(* its own variables only, so that the invariant of a part is one of       *)
(* JobSpec, whichever job runs.                                            *)
(***************************************************************************)
EXTENDS MC_Rainfall, FiniteSetTheorems, WellFoundedInduction, TLAPS

(* The steps of one job, seen from the variables of a part.                  *)
LEMMA JobSteps ==
  ASSUME [JobNext]_jobVars
  PROVE  /\ job' = job
         /\ job = "download"  => D!Next \/ UNCHANGED downloadVars
         /\ job = "cleaning"  => C!Next \/ UNCHANGED cleaningVars
         /\ job = "quality"   => Q!Next \/ UNCHANGED qualityVars
         /\ job = "features"  => F!Next \/ UNCHANGED featureVars
         /\ job = "forecasts" => P!Next \/ UNCHANGED forecastVars
         /\ job = "amounts"   => A!Next \/ UNCHANGED amountVars
         /\ job = "scores"    => G!Next \/ UNCHANGED scoreVars
         /\ job = "lineage"   => L!Next \/ UNCHANGED lineageVars
         /\ job = "patterns"  => E!Next \/ UNCHANGED patternVars
         /\ job = "threshold" => Next \/ UNCHANGED vars
         /\ job # "threshold" => UNCHANGED vars
  BY Zenon DEF JobNext, jobVars

LEMMA JobStarts ==
  ASSUME JobInit
  PROVE  /\ job = "download"  => D!Init
         /\ job = "cleaning"  => C!Init
         /\ job = "quality"   => Q!Init
         /\ job = "features"  => F!Init
         /\ job = "forecasts" => P!Init
         /\ job = "amounts"   => A!Init
         /\ job = "scores"    => G!Init
         /\ job = "lineage"   => L!Init
         /\ job = "patterns"  => E!Init
         /\ job = "threshold" => Init
         /\ job # "threshold" => bins = {0}
  BY DEF JobInit, NoThreshold

(* An instance has a Cardinality of its own, which is the same.              *)
LEMMA SameCardinality ==
  ASSUME NEW S
  PROVE  C!Cardinality(S) = Cardinality(S) /\ F!Cardinality(S) = Cardinality(S)
  BY Zenon DEF C!Cardinality, F!Cardinality, Cardinality

-----------------------------------------------------------------------------
(* clean.py *)

RawRows == raw \in [1 .. MaxRows -> C!Good \cup C!Faulty \cup C!Unparsed]

Tallied(held, rest) ==
    [read |-> Cardinality(DOMAIN raw), invalid |-> Cardinality(C!Invalid),
     duplicate |-> Cardinality(C!Valid \ rest), retained |-> Cardinality(held)]

(* What is counted and what is written are two rankings of the same rows.    *)
CleaningInv ==
       /\ RawRows
       /\ cleaning \in {"counted", "written"} =>
              \E held, rest \in C!Deduplicated : counts = Tallied(held, rest)
       /\ cleaning = "written" => cleaned \in C!Deduplicated

LEMMA CleaningStep ==
  ASSUME CleaningInv, C!Next \/ UNCHANGED cleaningVars
  PROVE  CleaningInv'
  <1>1. CASE C!Report
    <2>1. raw' = raw /\ C!Deduplicated' = C!Deduplicated /\ C!Valid' = C!Valid /\ C!Invalid' = C!Invalid
      BY <1>1 DEF C!Report, C!Deduplicated, C!Valid, C!Invalid, C!Newer
    <2>2. \E held, rest \in C!Deduplicated : counts' = Tallied(held, rest)
      BY <1>1, SameCardinality DEF C!Report, Tallied
    <2> QED
      BY <1>1, <2>1, <2>2 DEF C!Report, CleaningInv, RawRows, Tallied
  <1>2. CASE C!Write
    <2>1. raw' = raw /\ C!Deduplicated' = C!Deduplicated /\ C!Valid' = C!Valid /\ C!Invalid' = C!Invalid
      BY <1>2 DEF C!Write, C!Deduplicated, C!Valid, C!Invalid, C!Newer
    <2> QED
      BY <1>2, <2>1 DEF C!Write, CleaningInv, RawRows, Tallied
  <1>3. CASE UNCHANGED cleaningVars
    <2>1. raw' = raw /\ C!Deduplicated' = C!Deduplicated /\ C!Valid' = C!Valid /\ C!Invalid' = C!Invalid
      BY <1>3 DEF cleaningVars, C!Deduplicated, C!Valid, C!Invalid, C!Newer
    <2> QED
      BY <1>3, <2>1 DEF cleaningVars, CleaningInv, RawRows, Tallied
  <1> QED
    BY <1>1, <1>2, <1>3 DEF C!Next

(* The same in every state (clean(): the report and the output each evaluate *)
(* deduplicate() anew).                                                      *)
THEOREM TwoRankings == JobSpec => [](job = "cleaning" => CleaningInv)
  <1>1. JobInit => (job = "cleaning" => CleaningInv)
    <2>1. C!Init => CleaningInv
      BY DEF C!Init, CleaningInv, RawRows
    <2> QED
      BY <2>1, JobStarts
  <1>2. (job = "cleaning" => CleaningInv) /\ [JobNext]_jobVars => (job = "cleaning" => CleaningInv)'
    BY CleaningStep, JobSteps
  <1> QED
    BY <1>1, <1>2, PTL DEF JobSpec

-----------------------------------------------------------------------------
LEMMA RawIsFinite ==
  ASSUME MaxRows \in Nat, RawRows, NEW S, S \subseteq DOMAIN raw
  PROVE  IsFiniteSet(S) /\ Cardinality(S) \in Nat
  <1>1. DOMAIN raw = 1 .. MaxRows
    BY DEF RawRows
  <1>2. IsFiniteSet(1 .. MaxRows)
    BY FS_Interval
  <1>3. IsFiniteSet(S)
    BY <1>1, <1>2, FS_Subset
  <1> QED
    BY <1>3, FS_CardinalityType

LEMMA RawSplits ==
  ASSUME MaxRows \in Nat, RawRows, NEW S, S \subseteq DOMAIN raw, NEW T, T \subseteq S
  PROVE  Cardinality(S) = Cardinality(T) + Cardinality(S \ T)
  <1>1. /\ IsFiniteSet(T) /\ IsFiniteSet(S \ T)
        /\ Cardinality(T) \in Nat /\ Cardinality(S \ T) \in Nat
    BY RawIsFinite
  <1>2. Cardinality(T \cup (S \ T))
            = Cardinality(T) + Cardinality(S \ T) - Cardinality(T \cap (S \ T))
    BY <1>1, FS_Union
  <1>3. T \cup (S \ T) = S /\ T \cap (S \ T) = {}
    OBVIOUS
  <1>4. Cardinality(T \cap (S \ T)) = 0
    BY <1>3, FS_EmptySet
  <1>5. Cardinality(T \cup (S \ T)) = Cardinality(S)
    BY <1>3
  <1> QED
    BY <1>1, <1>2, <1>4, <1>5

(* Whichever of tied rows two evaluations keep, they keep as many.           *)
LEMMA RankingsAgree ==
  ASSUME MaxRows \in Nat, RawRows, NEW S \in C!Deduplicated, NEW T \in C!Deduplicated
  PROVE  Cardinality(S) = Cardinality(T)
  <1> DEFINE f == [s \in S |-> CHOOSE t \in T : raw[t].key = raw[s].key]
  <1>1. \A s \in S : f[s] \in T /\ raw[f[s]].key = raw[s].key
    <2>1. \A s \in S : \E t \in T : raw[t].key = raw[s].key
      BY DEF C!Deduplicated
    <2> QED
      BY <2>1
  <1>2. \A a \in S, b \in S : raw[a].key = raw[b].key => a = b
    BY DEF C!Deduplicated
  <1>3. \A a \in T, b \in T : raw[a].key = raw[b].key => a = b
    BY DEF C!Deduplicated
  <1>4. f \in [S -> T]
    BY <1>1
  <1> HIDE DEF f
  <1>5. f \in Bijection(S, T)
    <2>1. \A a \in S, b \in S : f[a] = f[b] => a = b
      BY <1>1, <1>2
    <2>2. \A t \in T : \E s \in S : f[s] = t
      <3> SUFFICES ASSUME NEW t \in T PROVE \E s \in S : f[s] = t
        OBVIOUS
      <3>1. PICK s \in S : raw[s].key = raw[t].key
        BY DEF C!Deduplicated
      <3> QED
        BY <1>1, <1>3, <3>1
    <2> QED
      BY <1>4, <2>1, <2>2 DEF Bijection, Injection, Surjection, IsInjective
  <1>6. IsFiniteSet(S)
    <2>1. S \subseteq DOMAIN raw
      BY DEF C!Deduplicated, C!Valid
    <2> QED
      BY <2>1, RawIsFinite
  <1> QED
    BY <1>5, <1>6, FS_Bijection DEF ExistsBijection

LEMMA InvIsMatch ==
  ASSUME MaxRows \in Nat, MaxUpdate \in Nat, "unparsed" \notin Key, CleaningInv
  PROVE  C!CountsMatchWritten
  <1> DEFINE Every == DOMAIN raw
             Lost == {r \in Every : /\ raw[r].place = "missing" /\ raw[r].rain = "valid"
                                /\ raw[r].key \in Key}
  <1> SUFFICES ASSUME cleaning = "written"
               PROVE  /\ counts.retained = Cardinality(cleaned)
                      /\ \A r, s \in cleaned : raw[r].key = raw[s].key => r = s
                      /\ \A s \in cleaned : \A r \in C!Valid :
                            raw[r].key = raw[s].key => raw[r].update <= raw[s].update
                      /\ counts.read = counts.invalid + counts.duplicate + counts.retained
                            + Cardinality(Lost)
    BY SameCardinality DEF C!CountsMatchWritten
  <1>1. RawRows /\ cleaned \in C!Deduplicated
    BY DEF CleaningInv
  <1>2. PICK held \in C!Deduplicated, rest \in C!Deduplicated : counts = Tallied(held, rest)
    BY DEF CleaningInv
  <1>3. counts.retained = Cardinality(cleaned)
    BY <1>1, <1>2, RankingsAgree DEF Tallied
  <1>4. \A r, s \in cleaned : raw[r].key = raw[s].key => r = s
    BY <1>1 DEF C!Deduplicated
  <1>5. \A s \in cleaned : \A r \in C!Valid :
            raw[r].key = raw[s].key => raw[r].update <= raw[s].update
    <2> SUFFICES ASSUME NEW s \in cleaned, NEW r \in C!Valid, raw[r].key = raw[s].key
                 PROVE  raw[r].update <= raw[s].update
      OBVIOUS
    <2>1. s \in Every /\ r \in Every
      BY <1>1 DEF C!Deduplicated, C!Valid
    <2>2. raw[s].update \in Int /\ raw[r].update \in Int
      <3>1. \A q \in Every : raw[q] \in C!Good \cup C!Faulty \cup C!Unparsed
        BY <1>1 DEF RawRows
      <3>2. \A row \in C!Good \cup C!Faulty \cup C!Unparsed : row.update \in Int
        BY DEF C!Good, C!Faulty, C!Unparsed, C!Null
      <3> QED
        BY <2>1, <3>1, <3>2
    <2>3. r = s \/ ~(raw[r].update > raw[s].update)
      BY <1>1 DEF C!Deduplicated, C!Newer
    <2> QED
      BY <2>2, <2>3
  <1>6. (Every \ C!Invalid) \ C!Valid = Lost
    <2>1. \A q \in Every : raw[q].key \in Key <=> raw[q].key # "unparsed"
      <3>1. \A q \in Every : raw[q] \in C!Good \cup C!Faulty \cup C!Unparsed
        BY <1>1 DEF RawRows
      <3> QED
        BY <3>1 DEF C!Good, C!Faulty, C!Unparsed
    <2>2. \A q \in Every : raw[q].rain = "valid" <=> raw[q].rain # "invalid"
      <3>1. \A q \in Every : raw[q] \in C!Good \cup C!Faulty \cup C!Unparsed
        BY <1>1 DEF RawRows
      <3> QED
        BY <3>1 DEF C!Good, C!Faulty, C!Unparsed
    <2> QED
      BY <2>1, <2>2 DEF C!Invalid, C!Valid
  <1>7. /\ Cardinality(Every) = Cardinality(C!Invalid) + Cardinality(Every \ C!Invalid)
        /\ Cardinality(Every \ C!Invalid) = Cardinality(C!Valid) + Cardinality((Every \ C!Invalid) \ C!Valid)
        /\ Cardinality(C!Valid) = Cardinality(rest) + Cardinality(C!Valid \ rest)
    <2>1. /\ C!Invalid \subseteq Every /\ Every \ C!Invalid \subseteq Every /\ C!Valid \subseteq Every \ C!Invalid
          /\ C!Valid \subseteq Every /\ rest \subseteq C!Valid
      BY DEF C!Invalid, C!Valid, C!Deduplicated
    <2> HIDE DEF Every
    <2> QED
      BY <1>1, <2>1, RawSplits DEF Every
  <1>8. /\ Cardinality(C!Invalid) \in Nat /\ Cardinality(C!Valid) \in Nat /\ Cardinality(Lost) \in Nat
        /\ Cardinality(rest) \in Nat /\ Cardinality(C!Valid \ rest) \in Nat
    <2>1. /\ C!Invalid \subseteq Every /\ C!Valid \subseteq Every /\ Lost \subseteq Every
          /\ rest \subseteq Every /\ C!Valid \ rest \subseteq Every
      BY DEF C!Invalid, C!Valid, C!Deduplicated
    <2> QED
      BY <1>1, <2>1, RawIsFinite
  <1>9. Cardinality(held) = Cardinality(rest)
    BY <1>1, RankingsAgree
  <1>10. counts.read = counts.invalid + counts.duplicate + counts.retained + Cardinality(Lost)
    <2>1. /\ counts.read = Cardinality(Every) /\ counts.invalid = Cardinality(C!Invalid)
          /\ counts.duplicate = Cardinality(C!Valid \ rest) /\ counts.retained = Cardinality(held)
      BY <1>2 DEF Tallied
    <2>2. Cardinality(Every) = Cardinality(C!Invalid) + Cardinality(C!Valid) + Cardinality(Lost)
      <3>1. Cardinality((Every \ C!Invalid) \ C!Valid) = Cardinality(Lost)
        BY <1>6
      <3> HIDE DEF Every, Lost
      <3> QED
        BY <1>7, <1>8, <3>1
    <2> HIDE DEF Every, Lost
    <2> QED
      BY <1>7, <1>8, <1>9, <2>1, <2>2
  <1> QED
    BY <1>3, <1>4, <1>5, <1>10

(* The report of the cleaning adds up for what was written, with ties and    *)
(* missing fields (valid_rows(), deduplicate(), quality_report()).           *)
THEOREM CountsMatch ==
  ASSUME MaxRows \in Nat, MaxUpdate \in Nat, "unparsed" \notin Key
  PROVE  JobSpec => []CountsMatchWritten
  <1>1. (job = "cleaning" => CleaningInv) => CountsMatchWritten
    BY InvIsMatch DEF CountsMatchWritten
  <1> QED
    BY <1>1, TwoRankings, PTL
-----------------------------------------------------------------------------
(* features.py, spatial.py, rich_features.py, prep.py *)

(* Every reading is stamped at a slot or one second early.                   *)
StampInv ==
       /\ F!TypeOK
       /\ \A s \in Station : \A r \in readings[s] : r \in {F!SlotOf(r), F!SlotOf(r) - 1}

(* canonical_slot() rounds: its slot is no more than half a slot away, and   *)
(* the slot itself, whichever of its two exports it is given.                *)
LEMMA SlotIsNearest ==
  ASSUME NEW t \in Int
  PROVE  /\ F!SlotOf(t) \in Int
         /\ F!SlotOf(t) <= t + 150 /\ t + 150 < F!SlotOf(t) + 300
  BY DEF F!SlotOf, F!SLOT

LEMMA SlotsAreFixed ==
  ASSUME NEW n \in Int
  PROVE  F!SlotOf(F!SLOT * n) = F!SLOT * n /\ F!SlotOf(F!SLOT * n - 1) = F!SLOT * n
  BY DEF F!SlotOf, F!SLOT

LEMMA StampInit == F!Init => StampInv
  BY DEF F!Init, StampInv, F!TypeOK

LEMMA ExportInv ==
  ASSUME StampInv, F!Export
  PROVE  StampInv'
  <1> DEFINE t == F!SLOT * slot'
  <1>1. slot' \in Nat /\ t \in Int /\ t - 1 \in Int
    BY DEF F!Export, StampInv, F!TypeOK, F!SLOT
  <1>2. \A r \in {t - 1, t} : r \in Int /\ r \in {F!SlotOf(r), F!SlotOf(r) - 1}
    BY <1>1, SlotsAreFixed
  <1>3. \A s \in Station : F!Regular(s, t) \subseteq {t - 1, t}
    BY DEF F!Regular
  <1>4. \E new \in [Station -> SUBSET {t - 1, t}] :
            readings' = [s \in Station |-> readings[s] \cup new[s]]
    <2>1. CASE readings' = [s \in Station |-> readings[s] \cup F!Regular(s, t)]
      <3> DEFINE f == [s \in Station |-> F!Regular(s, t)]
      <3>1. f \in [Station -> SUBSET {t - 1, t}]
        BY <1>3
      <3>2. readings' = [s \in Station |-> readings[s] \cup f[s]]
        BY <2>1
      <3> QED
        BY <3>1, <3>2
    <2>2. CASE \E s \in Station : \E new \in F!Exports(t) :
                  readings' = [r \in Station |->
                       readings[r] \cup IF r = s THEN new ELSE F!Regular(r, t)]
      <3>1. PICK s \in Station, new \in SUBSET {t - 1, t} :
                  readings' = [r \in Station |->
                       readings[r] \cup IF r = s THEN new ELSE F!Regular(r, t)]
        BY <2>2 DEF F!Exports
      <3> DEFINE f == [r \in Station |-> IF r = s THEN new ELSE F!Regular(r, t)]
      <3>2. f \in [Station -> SUBSET {t - 1, t}]
        BY <1>3
      <3>3. readings' = [r \in Station |-> readings[r] \cup f[r]]
        BY <3>1
      <3> QED
        BY <3>2, <3>3
    <2> QED
      BY <2>1, <2>2 DEF F!Export
  <1>5. PICK new \in [Station -> SUBSET {t - 1, t}] :
            readings' = [s \in Station |-> readings[s] \cup new[s]]
    BY <1>4
  <1> HIDE DEF t
  <1>6. /\ readings' \in [Station -> SUBSET Int]
        /\ \A s \in Station : \A r \in readings'[s] : r \in {F!SlotOf(r), F!SlotOf(r) - 1}
    BY <1>2, <1>5 DEF StampInv, F!TypeOK
  <1>7. irregular' \in Nat /\ early' \in SUBSET Station
    BY DEF F!Export, StampInv, F!TypeOK
  <1> QED
    BY <1>1, <1>6, <1>7 DEF StampInv, F!TypeOK, F!SlotOf

(* The stamps of the exporters, whatever they miss, repeat or change.        *)
THEOREM StampsAreSlots == JobSpec => [](job = "features" => StampInv)
  <1>1. StampInv /\ (F!Next \/ UNCHANGED featureVars) => StampInv'
    <2>1. ASSUME StampInv, UNCHANGED featureVars PROVE StampInv'
      BY <2>1 DEF featureVars, StampInv, F!TypeOK, F!SlotOf
    <2> QED
      BY <2>1, ExportInv DEF F!Next
  <1>2. (job = "features" => StampInv) /\ [JobNext]_jobVars => (job = "features" => StampInv)'
    BY <1>1, JobSteps
  <1>3. JobInit => (job = "features" => StampInv)
    BY StampInit, JobStarts
  <1> QED
    BY <1>2, <1>3, PTL DEF JobSpec

-----------------------------------------------------------------------------
(* A reading of a slot before the row's was there before the row's.          *)
LEMMA EarlierSlotIsPast ==
  ASSUME NEW t \in Int, NEW r \in Int, NEW k \in Int, k >= 1,
         F!SlotOf(r) = F!SlotOf(t) - F!SLOT * k
  PROVE  r < t
  <1>1. F!SlotOf(r) <= F!SlotOf(t) - 300
    BY SlotIsNearest DEF F!SLOT
  <1> QED
    BY <1>1, SlotIsNearest

(* prep.py knows slots only: a reading of an earlier slot is older than any  *)
(* of a later one, since a stamp is at most one second early.                *)
LEMMA DistIsPast ==
  ASSUME StampInv, Own \in Station, NEW u \in F!DistSlots(Own),
         NEW r \in F!DistPredictors(u), NEW q \in F!InSlots(Own, F!DistTarget(u))
  PROVE  r < q
  <1>1. u \in Int
    BY SlotIsNearest DEF F!DistSlots, F!SlotsOf, StampInv, F!TypeOK
  <1>2. /\ q \in Int /\ q \in {F!SlotOf(q), F!SlotOf(q) - 1} /\ F!SlotOf(q) \in Int
        /\ F!SlotOf(q) >= u + 300
    BY SlotIsNearest DEF F!InSlots, F!DistTarget, F!Between, F!SLOT, StampInv, F!TypeOK
  <1>3. PICK s \in Station : r \in readings[s] /\ F!SlotOf(r) <= u
    <2>1. CASE r \in F!InSlots(Own, F!Between(F!DistSlots(Own), u - F!SLOT * (RichSlots - 1), u))
      BY <2>1 DEF F!InSlots, F!Between
    <2>2. CASE r \in F!DistNeighbors(u)
      <3>1. PICK s \in Station : r \in readings[s] /\ F!SlotOf(r) <= u - F!SLOT /\ F!SlotOf(r) \in F!DistSlots(s)
        BY <2>2 DEF F!DistNeighbors, F!InSlots, F!Between
      <3>2. F!SlotOf(r) \in Int
        BY <3>1, SlotIsNearest DEF StampInv, F!TypeOK
      <3> QED
        BY <1>1, <3>1, <3>2 DEF F!SLOT
    <2> QED
      BY <2>1, <2>2 DEF F!DistPredictors
  <1>4. r \in Int /\ F!SlotOf(r) \in Int /\ r \in {F!SlotOf(r), F!SlotOf(r) - 1}
    BY <1>3, SlotIsNearest DEF StampInv, F!TypeOK
  <1> QED
    BY <1>1, <1>2, <1>3, <1>4

LEMMA NeighboursInvariant ==
  ASSUME Own \in Station, StampInv
  PROVE  F!NeighboursArePast
  <1> USE DEF StampInv
  <1>0. ASSUME NEW u \in F!DistRows, NEW r \in F!DistPredictors(u), NEW q \in F!InSlots(Own, F!DistTarget(u))
        PROVE  r < q
    BY <1>0, DistIsPast DEF F!DistRows
  <1> SUFFICES ASSUME NEW t \in readings[Own],
                      NEW r \in F!NeighborSources(t) \cup F!RichNeighbors(t) \cup F!DistNeighbors(F!SlotOf(t))
               PROVE  r < t
    BY <1>0 DEF F!NeighboursArePast
  <1>1. t \in Int
    BY DEF F!TypeOK
  <1>2. CASE r \in F!NeighborSources(t)
    <2>1. PICK s \in Station : r \in readings[s] /\ F!SlotOf(r) = F!SlotOf(t) - F!SLOT
      BY <1>2 DEF F!NeighborSources, F!Latest, F!NeighborSlot
    <2>2. r \in Int /\ F!SLOT * 1 = F!SLOT
      BY <2>1 DEF F!TypeOK, F!SLOT
    <2> QED
      BY <1>1, <2>1, <2>2, EarlierSlotIsPast
  <1>3. CASE r \in F!RichNeighbors(t)
    <2>1. PICK s \in Station, k \in 1 .. RichSlots :
              r \in readings[s] /\ F!SlotOf(r) = F!SlotOf(t) - F!SLOT * k
      BY <1>3 DEF F!RichNeighbors, F!Latest
    <2>2. r \in Int /\ k \in Int /\ k >= 1
      BY <2>1 DEF F!TypeOK
    <2> QED
      BY <1>1, <2>1, <2>2, EarlierSlotIsPast
  <1>4. CASE r \in F!DistNeighbors(F!SlotOf(t))
    <2>1. PICK s \in Station : r \in readings[s] /\ F!SlotOf(r) <= F!SlotOf(t) - F!SLOT
      BY <1>4 DEF F!DistNeighbors, F!InSlots, F!Between
    <2>2. r \in Int
      BY <2>1 DEF F!TypeOK
    <2> QED
      BY <1>1, <2>1, <2>2, SlotIsNearest DEF F!SLOT
  <1> QED
    BY <1>2, <1>3, <1>4

(* No neighbour's reading is newer than the row it is joined to, nor as new  *)
(* (add_lagged_neighbor_features(), build_year()).                           *)
THEOREM NeighboursPast ==
  ASSUME Own \in Station
  PROVE  JobSpec => []NeighboursArePast
  <1>1. (job = "features" => StampInv) => NeighboursArePast
    BY NeighboursInvariant DEF NeighboursArePast
  <1> QED
    BY <1>1, StampsAreSlots, PTL

-----------------------------------------------------------------------------
(* The slots a complete row's windows can hold are as many as it counted.    *)
Expected(t) == {F!SlotOf(t) + F!SLOT * k : k \in -HistorySlots .. FutureSlots}
DistExpected(u) == {u + F!SLOT * k : k \in (1 - HistorySlots) .. FutureSlots}

LEMMA ExpectedCardinality ==
  ASSUME HistorySlots \in Nat, FutureSlots \in Nat, NEW t \in Int
  PROVE  /\ IsFiniteSet(Expected(t))
         /\ Cardinality(Expected(t)) = HistorySlots + FutureSlots + 1
  <1> DEFINE I == -HistorySlots .. FutureSlots
             f == [k \in I |-> F!SlotOf(t) + F!SLOT * k]
  <1>1. IsFiniteSet(I) /\ Cardinality(I) = FutureSlots - (-HistorySlots) + 1
    BY FS_Interval
  <1>2. f \in Bijection(I, Expected(t))
    <2>1. f \in [I -> Expected(t)]
      BY DEF Expected
    <2>2. \A a \in I, b \in I : f[a] = f[b] => a = b
      BY SlotIsNearest DEF F!SLOT
    <2>3. \A e \in Expected(t) : \E k \in I : f[k] = e
      BY DEF Expected
    <2> QED
      BY <2>1, <2>2, <2>3 DEF Bijection, Injection, Surjection, IsInjective
  <1>3. ExistsBijection(I, Expected(t))
    BY <1>2 DEF ExistsBijection
  <1> QED
    BY <1>1, <1>3, FS_Bijection

(* Readings at or before the row lie in its slot or before it; a reading one *)
(* hour back may carry the stamp of the other exporter.                      *)
LEMMA WindowSlots ==
  ASSUME StampInv, Own \in Station, HistorySlots \in Nat, FutureSlots \in Nat,
         NEW t \in readings[Own]
  PROVE  F!SlotsOf(F!History(t) \cup F!Target(t)) \subseteq Expected(t)
  <1> SUFFICES ASSUME NEW r \in F!History(t) \cup F!Target(t)
               PROVE  F!SlotOf(r) \in Expected(t)
    BY DEF F!SlotsOf
  <1>1. /\ t \in Int /\ r \in Int /\ t \in {F!SlotOf(t), F!SlotOf(t) - 1}
        /\ r \in {F!SlotOf(r), F!SlotOf(r) - 1}
        /\ t - F!SLOT * HistorySlots <= r /\ r <= t + F!SLOT * FutureSlots
    BY DEF StampInv, F!TypeOK, F!History, F!Target, F!Between, F!SLOT
  <1>2. PICK a \in Int, b \in Int : F!SlotOf(t) = 300 * a /\ F!SlotOf(r) = 300 * b
    <2>1. (t + 150) \div 300 \in Int /\ (r + 150) \div 300 \in Int
      BY <1>1
    <2>2. /\ F!SlotOf(t) = 300 * ((t + 150) \div 300)
          /\ F!SlotOf(r) = 300 * ((r + 150) \div 300)
      BY <1>1, <2>1 DEF F!SlotOf, F!SLOT
    <2> QED
      BY <2>1, <2>2
  <1>3. b - a \in -HistorySlots .. FutureSlots
    <2>1. 300 * a - 1 - 300 * HistorySlots <= 300 * b /\ 300 * b - 1 <= 300 * a + 300 * FutureSlots
      BY <1>1, <1>2 DEF F!SLOT
    <2> QED
      BY <1>2, <2>1
  <1>4. F!SlotOf(r) = F!SlotOf(t) + F!SLOT * (b - a)
    BY <1>2 DEF F!SLOT
  <1> QED
    BY <1>3, <1>4 DEF Expected

LEMMA DistExpectedCardinality ==
  ASSUME HistorySlots \in Nat, FutureSlots \in Nat, NEW u \in Int
  PROVE  /\ IsFiniteSet(DistExpected(u))
         /\ Cardinality(DistExpected(u)) = HistorySlots + FutureSlots
  <1> DEFINE I == (1 - HistorySlots) .. FutureSlots
             f == [k \in I |-> u + F!SLOT * k]
  <1>1. IsFiniteSet(I) /\ Cardinality(I) = HistorySlots + FutureSlots
    <2>1. 1 - HistorySlots \in Int /\ FutureSlots \in Int
      OBVIOUS
    <2>2. /\ IsFiniteSet(I)
          /\ Cardinality(I) = IF 1 - HistorySlots > FutureSlots THEN 0
                              ELSE FutureSlots - (1 - HistorySlots) + 1
      BY <2>1, FS_Interval
    <2> QED
      BY <2>2
  <1>2. f \in Bijection(I, DistExpected(u))
    <2>1. f \in [I -> DistExpected(u)]
      BY DEF DistExpected
    <2>2. \A a \in I, b \in I : f[a] = f[b] => a = b
      BY DEF F!SLOT
    <2>3. \A e \in DistExpected(u) : \E k \in I : f[k] = e
      BY DEF DistExpected
    <2> QED
      BY <2>1, <2>2, <2>3 DEF Bijection, Injection, Surjection, IsInjective
  <1>3. ExistsBijection(I, DistExpected(u))
    BY <1>2 DEF ExistsBijection
  <1> QED
    BY <1>1, <1>3, FS_Bijection

(* The two windows of a slot are disjoint parts of what they should hold, so *)
(* a full count of each leaves nothing out.                                  *)
LEMMA DistGapless ==
  ASSUME StampInv, Own \in Station, HistorySlots \in Nat, FutureSlots \in Nat, NEW u \in F!DistRows
  PROVE  F!DistHistory(u) \cup F!DistTarget(u) = DistExpected(u)
  <1>1. PICK t \in readings[Own] : u = F!SlotOf(t)
    BY DEF F!DistRows, F!DistSlots, F!SlotsOf
  <1>2. PICK a \in Int : u = 300 * a
    <2>1. t \in Int /\ (t + 150) \div 300 \in Int
      BY <1>1 DEF StampInv, F!TypeOK
    <2>2. u = 300 * ((t + 150) \div 300)
      BY <1>1, <2>1 DEF F!SlotOf, F!SLOT
    <2> QED
      BY <2>1, <2>2
  <1>3. F!DistHistory(u) \cup F!DistTarget(u) \in SUBSET DistExpected(u)
    <2> SUFFICES ASSUME NEW v \in F!DistHistory(u) \cup F!DistTarget(u)
                 PROVE  v \in DistExpected(u)
      OBVIOUS
    <2>1. PICK r \in readings[Own] : v = F!SlotOf(r)
      BY DEF F!DistHistory, F!DistTarget, F!Between, F!DistSlots, F!SlotsOf
    <2>2. PICK b \in Int : v = 300 * b
      <3>1. r \in Int /\ (r + 150) \div 300 \in Int
        BY <2>1 DEF StampInv, F!TypeOK
      <3>2. v = 300 * ((r + 150) \div 300)
        BY <2>1, <3>1 DEF F!SlotOf, F!SLOT
      <3> QED
        BY <3>1, <3>2
    <2>3. u - 300 * (HistorySlots - 1) <= v /\ v <= u + 300 * FutureSlots
      BY <1>2, <2>2 DEF F!DistHistory, F!DistTarget, F!Between, F!SLOT
    <2>4. b - a \in (1 - HistorySlots) .. FutureSlots
      BY <1>2, <2>2, <2>3
    <2>5. v = u + F!SLOT * (b - a)
      BY <1>2, <2>2 DEF F!SLOT
    <2> QED
      BY <2>4, <2>5 DEF DistExpected
  <1>4. IsFiniteSet(DistExpected(u)) /\ Cardinality(DistExpected(u)) = HistorySlots + FutureSlots
    BY <1>2, DistExpectedCardinality
  <1>5. IsFiniteSet(F!DistHistory(u)) /\ IsFiniteSet(F!DistTarget(u))
    BY <1>3, <1>4, FS_Subset
  <1>6. F!DistHistory(u) \cap F!DistTarget(u) = {}
    <2>1. \A v \in F!DistSlots(Own) : v \in Int
      BY SlotIsNearest DEF F!DistSlots, F!SlotsOf, StampInv, F!TypeOK
    <2> QED
      BY <1>2, <2>1 DEF F!DistHistory, F!DistTarget, F!Between, F!SLOT
  <1>7. Cardinality(F!DistHistory(u) \cup F!DistTarget(u)) = HistorySlots + FutureSlots - 0
    BY <1>5, <1>6, FS_Union, FS_EmptySet, SameCardinality DEF F!DistRows
  <1>8. Cardinality(F!DistHistory(u) \cup F!DistTarget(u)) = Cardinality(DistExpected(u))
    BY <1>4, <1>7
  <1> QED
    BY <1>3, <1>4, <1>8, FS_Subset

LEMMA GaplessInvariant ==
  ASSUME StampInv, Own \in Station, HistorySlots \in Nat, FutureSlots \in Nat
  PROVE  F!CompleteIsGapless
  <1>0. \A u \in F!DistRows : F!DistHistory(u) \cup F!DistTarget(u) = DistExpected(u)
    BY DistGapless
  <1> SUFFICES ASSUME NEW t \in F!Rows,
                      Cardinality(F!SlotsOf(F!History(t) \cup F!Target(t)))
                          = Cardinality(F!History(t)) + FutureSlots
               PROVE  F!SlotsOf(F!History(t) \cup F!Target(t)) = Expected(t)
    BY <1>0, SameCardinality DEF F!CompleteIsGapless, Expected, DistExpected
  <1>1. /\ t \in readings[Own] /\ t \in Int
        /\ Cardinality(F!History(t)) = HistorySlots + 1
    BY SameCardinality DEF F!Rows, F!Complete, StampInv, F!TypeOK
  <1>2. IsFiniteSet(Expected(t)) /\ Cardinality(Expected(t)) = HistorySlots + FutureSlots + 1
    BY <1>1, ExpectedCardinality
  <1>3. F!SlotsOf(F!History(t) \cup F!Target(t)) \in SUBSET Expected(t)
    BY <1>1, WindowSlots
  <1>4. Cardinality(F!SlotsOf(F!History(t) \cup F!Target(t))) = Cardinality(Expected(t))
    BY <1>1, <1>2
  <1> QED
    BY <1>2, <1>3, <1>4, FS_Subset

(* A row with complete windows of distinct slots has them all, for windows   *)
(* of any length and any change between :00 and :59 (feature_frame()).       *)
THEOREM CompleteGapless ==
  ASSUME Own \in Station, HistorySlots \in Nat, FutureSlots \in Nat
  PROVE  JobSpec => [](job = "features" => F!CompleteIsGapless)
  <1>1. (job = "features" => StampInv) => (job = "features" => F!CompleteIsGapless)
    BY GaplessInvariant
  <1> QED
    BY <1>1, StampsAreSlots, PTL
-----------------------------------------------------------------------------
(* select_decision_threshold.py, ziln.py *)

LEMMA Constants == IsFiniteSet(Row) /\ Row # {} /\ Top \in Nat
  BY ThresholdsAssumption

(* Extremes of sets of natural numbers.                                      *)
LEMMA LeastExists ==
  ASSUME NEW S, S \subseteq Nat, S # {}
  PROVE  \E x \in S : \A w \in S : x <= w
  <1> DEFINE R == {p \in Nat \X Nat : p[1] < p[2]}
  <1>1. IsWellFoundedOn(R, Nat)
    BY NatLessThanWellFounded DEF OpToRel
  <1> HIDE DEF R
  <1>2. PICK x \in S : \A w \in S : ~ (<<w, x>> \in R)
    BY <1>1, WFMin
  <1>3. x \in Nat /\ \A w \in S : w \in Nat /\ ~ (w < x)
    BY <1>2 DEF R
  <1> QED
    BY <1>3

LEMMA GreatestExists ==
  ASSUME NEW S, S \subseteq 0 .. Top, S # {}
  PROVE  \E x \in S : \A w \in S : w <= x
  <1> DEFINE T == {Top - x : x \in S}
  <1>1. T \subseteq Nat /\ T # {}
    <2>1. \A x \in 0 .. Top : Top - x \in Nat
      BY Constants
    <2> QED
      BY <2>1
  <1>2. PICK m \in T : \A w \in T : m <= w
    BY <1>1, LeastExists
  <1>3. PICK x \in S : m = Top - x
    OBVIOUS
  <1>4. \A w \in S : Top - x <= Top - w
    BY <1>2, <1>3
  <1>5. \A w \in S : w \in Int
    OBVIOUS
  <1>6. x \in Int /\ Top \in Int
    BY <1>3, <1>5, ThresholdsAssumption
  <1> QED
    BY <1>4, <1>5, <1>6

(* Fractions with positive denominators.                                     *)
Fraction == Int \X (Nat \ {0})

LEMMA NotLessTransitive ==
  ASSUME NEW x \in Fraction, NEW w \in Fraction, NEW z \in Fraction,
         ~Less(x, w), ~Less(w, z)
  PROVE  ~Less(x, z)
  <1> DEFINE a == x[1]
             b == x[2]
             c == w[1]
             d == w[2]
             e == z[1]
             f == z[2]
  <1>1. /\ a \in Int /\ c \in Int /\ e \in Int
        /\ b \in Int /\ d \in Int /\ f \in Int /\ b > 0 /\ d > 0 /\ f > 0
    BY DEF Fraction
  <1>2. c * b <= a * d /\ e * d <= c * f
    <2>1. ~(a * d < c * b) /\ ~(c * f < e * d)
      BY DEF Less
    <2> QED
      BY <1>1, <2>1
  <1> HIDE DEF a, b, c, d, e, f
  <1>3. (c * b) * f <= (a * d) * f /\ (e * d) * b <= (c * f) * b
    BY <1>1, <1>2
  <1>4. (e * b) * d <= (a * f) * d
    BY <1>1, <1>3
  <1>5. e * b <= a * f
    BY <1>1, <1>4
  <1>6. ~(a * f < e * b)
    BY <1>1, <1>5
  <1> QED
    BY <1>6 DEF Less, a, b, e, f

-----------------------------------------------------------------------------
(* The F1 of the threshold t as the code divides it: twice the hits, by the  *)
(* positive rows and the rows predicted.                                     *)
Ratio(t) == <<2 * Cardinality(Hits(From(t))), Cardinality(positive) + Cardinality(From(t))>>

Occurring == {score[r] : r \in Row}
Visited == Occurring \ bins
SweepCounted == {r \in Row : score[r] \notin bins}

(* What the sweep knows between two turns: the scores it saw lie above the   *)
(* others, the counters are those of the rows at these scores, and the F1 it *)
(* holds is the F1 of its threshold, and not less than any it saw.           *)
SweepInv ==
    /\ TypeOK
    /\ bins \subseteq Occurring
    /\ \A t \in bins, u \in Visited : t < u
    /\ tp = Cardinality(Hits(SweepCounted)) /\ pp = Cardinality(SweepCounted)
    /\ \A u \in Visited : ~Less(f1, Ratio(u))
    /\ \/ best \in Visited /\ f1 = Ratio(best)
       \/ best = Top /\ f1 = <<0, 1>>
       \/ best = -1 /\ f1 = <<-1, 1>> /\ Visited = {}

LEMMA ScoredAreFinite ==
  ASSUME NEW S, S \subseteq Row
  PROVE  IsFiniteSet(S) /\ Cardinality(S) \in Nat
  BY Constants, FS_Subset, FS_CardinalityType

LEMMA DisjointSum ==
  ASSUME NEW S, NEW T, S \subseteq Row, T \subseteq Row, S \cap T = {}
  PROVE  Cardinality(S \cup T) = Cardinality(S) + Cardinality(T)
  <1>1. /\ IsFiniteSet(S) /\ Cardinality(S) \in Nat
        /\ IsFiniteSet(T) /\ Cardinality(T) \in Nat
    BY ScoredAreFinite
  <1>2. Cardinality(S \cap T) = 0
    BY FS_EmptySet
  <1>3. Cardinality(S \cup T) = Cardinality(S) + Cardinality(T) - Cardinality(S \cap T)
    BY <1>1, FS_Union
  <1> QED
    BY <1>1, <1>2, <1>3

LEMMA ScoresAreNaturals ==
  ASSUME TypeOK
  PROVE  /\ Occurring \subseteq 0 .. Top /\ Occurring # {}
         /\ \A r \in Row : score[r] \in 0 .. Top
  BY Constants DEF TypeOK, Occurring

(* confusion() and the sweep agree on every threshold.                       *)
LEMMA ConfusionIsG ==
  ASSUME TypeOK, NEW t
  PROVE  /\ F1(t) = Ratio(t)
         /\ Ratio(t)[1] \in Nat /\ Ratio(t)[2] \in Nat
         /\ From(t) # {} => Ratio(t) \in Fraction
  <1> DEFINE Positives == positive
             Predicted == From(t)
             Both == Cardinality(Positives \cap Predicted)
  <1>1. Positives \subseteq Row /\ Predicted \subseteq Row
    BY DEF TypeOK, From
  <1> HIDE DEF Predicted
  <1>2. /\ Cardinality(Positives) \in Nat /\ Cardinality(Predicted) \in Nat /\ Both \in Nat
        /\ Cardinality(Positives \ Predicted) \in Nat /\ Cardinality(Predicted \ Positives) \in Nat
    BY <1>1, ScoredAreFinite
  <1>3. Cardinality(Positives) = Both + Cardinality(Positives \ Predicted)
    <2>1. Positives = (Positives \cap Predicted) \cup (Positives \ Predicted) /\ (Positives \cap Predicted) \cap (Positives \ Predicted) = {}
      OBVIOUS
    <2>2. Cardinality((Positives \cap Predicted) \cup (Positives \ Predicted)) = Both + Cardinality(Positives \ Predicted)
      BY <1>1, <2>1, DisjointSum
    <2> QED
      BY <2>1, <2>2
  <1>4. Cardinality(Predicted) = Both + Cardinality(Predicted \ Positives)
    <2>1. Predicted = (Positives \cap Predicted) \cup (Predicted \ Positives) /\ (Positives \cap Predicted) \cap (Predicted \ Positives) = {}
      OBVIOUS
    <2>2. Cardinality((Positives \cap Predicted) \cup (Predicted \ Positives)) = Both + Cardinality(Predicted \ Positives)
      BY <1>1, <2>1, DisjointSum
    <2> QED
      BY <2>1, <2>2
  <1>5. Hits(Predicted) = Positives \cap Predicted
    BY DEF Hits
  <1>6. Ratio(t) = <<2 * Both, Cardinality(Positives) + Cardinality(Predicted)>>
    BY <1>5 DEF Ratio, Predicted
  <1>7. F1(t) = <<2 * Both, 2 * Both + Cardinality(Predicted \ Positives) + Cardinality(Positives \ Predicted)>>
    BY <1>5 DEF F1, Predicted
  <1>8. Cardinality(Positives) + Cardinality(Predicted) = 2 * Both + Cardinality(Predicted \ Positives) + Cardinality(Positives \ Predicted)
    BY <1>2, <1>3, <1>4
  <1>9. Predicted # {} => Cardinality(Predicted) > 0
    <2>1. IsFiniteSet(Predicted)
      BY <1>1, ScoredAreFinite
    <2> QED
      BY <1>2, <2>1, FS_EmptySet
  <1> HIDE DEF Both
  <1> QED
    BY <1>2, <1>6, <1>7, <1>8, <1>9 DEF Predicted, Fraction

LEMMA SweepInit == Init => SweepInv
  <1> SUFFICES ASSUME Init PROVE SweepInv
    OBVIOUS
  <1>1. TypeOK
    <2>1. bins \subseteq 0 .. Top
      BY Constants DEF Init
    <2> QED
      BY <2>1, Constants DEF Init, TypeOK
  <1>2. bins = Occurring /\ Visited = {} /\ SweepCounted = {}
    BY DEF Init, Occurring, Visited, SweepCounted
  <1>3. Hits(SweepCounted) = {}
    BY <1>2 DEF Hits
  <1> QED
    BY <1>1, <1>2, <1>3, FS_EmptySet DEF SweepInv, Init

-----------------------------------------------------------------------------
(* One turn of the loop.                                                     *)
LEMMA HighestIsGreatest ==
  ASSUME TypeOK, bins # {}
  PROVE  Highest \in bins /\ \A u \in bins : u <= Highest
  <1>1. \E t \in bins : \A u \in bins : u <= t
    BY GreatestExists DEF TypeOK
  <1> QED
    BY <1>1 DEF Highest

LEMMA VisitInv ==
  ASSUME SweepInv, Visit
  PROVE  SweepInv'
  <1> DEFINE t == Highest
             candidate == <<2 * tp', Cardinality(positive) + pp'>>
  <1>0. /\ bins # {} /\ bins' = bins \ {t}
        /\ tp' = tp + Cardinality(Hits(At(t)))
        /\ pp' = pp + Cardinality(At(t))
        /\ \/ /\ Less(f1, candidate) \/ (~Less(candidate, f1) /\ t > best)
              /\ best' = t /\ f1' = candidate
           \/ /\ ~Less(f1, candidate)
              /\ UNCHANGED <<best, f1>>
        /\ score' = score /\ positive' = positive
    BY DEF Visit
  <1>1. t \in bins /\ \A u \in bins : u <= t
    BY <1>0, HighestIsGreatest DEF SweepInv
  <1> HIDE DEF t
  <1>2. TypeOK /\ t \in 0 .. Top /\ t \in Occurring
    BY <1>1 DEF SweepInv, TypeOK
  <1>3. /\ Occurring' = Occurring /\ Visited' = Visited \cup {t}
        /\ \A u \in Visited : u > t
    <2>1. Occurring' = Occurring
      BY <1>0 DEF Occurring
    <2>2. \A u \in Visited : u \in 0 .. Top /\ t < u
      BY <1>1, <1>2, ScoresAreNaturals DEF SweepInv, Visited
    <2> QED
      BY <1>0, <1>1, <1>2, <2>1, <2>2 DEF Visited
  <1>4. SweepCounted \cap At(t) = {} /\ SweepCounted \cup At(t) = From(t) /\ SweepCounted' = From(t)
    <2>1. SweepCounted \cap At(t) = {}
      BY <1>1 DEF SweepCounted, At
    <2>2. \A r \in Row : score[r] >= t <=> score[r] \notin bins \ {t}
      <3> SUFFICES ASSUME NEW r \in Row
                   PROVE  score[r] >= t <=> score[r] \notin bins \ {t}
        OBVIOUS
      <3>1. score[r] \in 0 .. Top /\ score[r] \in Occurring
        BY <1>2, ScoresAreNaturals DEF Occurring
      <3>2. CASE score[r] \in bins
        BY <1>1, <1>2, <3>1, <3>2
      <3>3. CASE score[r] \notin bins
        BY <1>2, <1>3, <3>1, <3>3 DEF Visited
      <3> QED
        BY <3>2, <3>3
    <2>3. \A r \in Row : score[r] \notin bins \ {t} <=> score[r] \notin bins \/ score[r] = t
      BY <1>1
    <2>4. SweepCounted' = {r \in Row : score[r] \notin bins \ {t}}
      BY <1>0 DEF SweepCounted
    <2> QED
      BY <2>1, <2>2, <2>3, <2>4 DEF SweepCounted, At, From
  <1>5. /\ tp' = Cardinality(Hits(From(t))) /\ pp' = Cardinality(From(t))
        /\ candidate = Ratio(t)
    <2>1. At(t) \subseteq Row /\ SweepCounted \subseteq Row
      BY DEF At, SweepCounted
    <2>2. pp' = Cardinality(From(t))
      BY <1>0, <1>4, <2>1, DisjointSum DEF SweepInv
    <2>3. /\ Hits(SweepCounted) \cap Hits(At(t)) = {}
          /\ Hits(SweepCounted) \cup Hits(At(t)) = Hits(From(t))
          /\ Hits(SweepCounted) \subseteq Row /\ Hits(At(t)) \subseteq Row
      BY <1>4, <2>1 DEF Hits
    <2>4. tp' = Cardinality(Hits(From(t)))
      BY <1>0, <2>3, DisjointSum DEF SweepInv
    <2> QED
      BY <2>2, <2>4 DEF Ratio
  <1>6. From(t) # {} /\ Ratio(t) \in Fraction /\ f1 \in Fraction
    <2>1. PICK r \in Row : score[r] = t
      BY <1>2 DEF Occurring
    <2>2. From(t) # {}
      BY <1>2, <2>1 DEF From
    <2> QED
      BY <1>2, <2>2, ConfusionIsG DEF TypeOK, Fraction
  <1>7. TypeOK'
    <2>1. tp' \in Nat /\ pp' \in Nat
      <3>1. Hits(From(t)) \subseteq Row /\ From(t) \subseteq Row
        BY DEF Hits, From
      <3> QED
        BY <1>5, <3>1, ScoredAreFinite
    <2>2. best' \in -1 .. Top /\ f1' \in Fraction
      BY <1>0, <1>2, <1>5, <1>6, Constants DEF TypeOK
    <2> QED
      BY <1>0, <1>2, <2>1, <2>2 DEF TypeOK, Fraction
  <1>8. \A u : Ratio(u)' = Ratio(u)
    BY <1>0 DEF Ratio, Hits, From
  <1>9. \A u \in Visited' : ~Less(f1', Ratio(u))
    <2> SUFFICES ASSUME NEW u \in Visited'
                 PROVE  ~Less(f1', Ratio(u))
      OBVIOUS
    <2>1. CASE u = t
      <3>1. ~Less(Ratio(t), Ratio(t))
        BY <1>6 DEF Less, Fraction
      <3> QED
        BY <1>0, <1>5, <2>1, <3>1
    <2>2. CASE u \in Visited
      <3>1. ~Less(f1, Ratio(u))
        BY <2>2 DEF SweepInv
      <3>2. CASE f1' = f1
        BY <3>1, <3>2
      <3>3. CASE f1' = Ratio(t)
        <4>1. ~Less(Ratio(t), f1) \/ f1' = f1
          <5>1. Less(f1, Ratio(t)) => ~Less(Ratio(t), f1)
            BY <1>6 DEF Less, Fraction
          <5> QED
            BY <1>0, <1>5, <5>1
        <4>2. Ratio(u) \in Fraction
          <5>1. PICK r \in Row : score[r] = u
            BY <2>2 DEF Visited, Occurring
          <5>2. u \in 0 .. Top
            BY <1>2, <2>2, ScoresAreNaturals DEF Visited
          <5> QED
            BY <1>2, <5>1, <5>2, ConfusionIsG DEF From
        <4> QED
          BY <1>6, <3>1, <3>2, <3>3, <4>1, <4>2, NotLessTransitive
      <3> QED
        BY <1>0, <1>5, <3>2, <3>3
    <2> QED
      BY <1>3, <2>1, <2>2
  <1>10. \/ best' \in Visited' /\ f1' = Ratio(best')
         \/ best' = Top /\ f1' = <<0, 1>>
    <2>1. CASE best' = t /\ f1' = candidate
      BY <1>3, <1>5, <2>1
    <2>2. CASE ~Less(f1, candidate) /\ UNCHANGED <<best, f1>>
      <3>1. f1 # <<-1, 1>>
        <4>1. Ratio(t)[1] \in Nat /\ Ratio(t)[2] \in Nat
          BY <1>2, ConfusionIsG
        <4> QED
          BY <1>5, <1>6, <2>2, <4>1 DEF Less, Fraction
      <3> QED
        BY <1>3, <2>2, <3>1 DEF SweepInv
    <2> QED
      BY <1>0, <2>1, <2>2
  <1>11. \A x \in bins', u \in Visited' : x < u
    <2>1. \A x \in bins' : x \in bins /\ x \in 0 .. Top /\ x < t
      BY <1>0, <1>1, <1>2 DEF TypeOK
    <2> QED
      BY <1>2, <1>3, <2>1, ScoresAreNaturals DEF SweepInv, Visited
  <1>12. /\ bins' \subseteq Occurring'
         /\ tp' = Cardinality(Hits(SweepCounted))' /\ pp' = Cardinality(SweepCounted)'
    <2>1. Hits(SweepCounted)' = Hits(From(t))
      BY <1>0, <1>4 DEF Hits
    <2> QED
      BY <1>0, <1>3, <1>4, <1>5, <2>1 DEF SweepInv
  <1> QED
    BY <1>7, <1>8, <1>9, <1>10, <1>11, <1>12 DEF SweepInv, Less

(* The counters count, and the sweep holds the best of what it saw; no sweep *)
(* of another job ends.                                                      *)
SweepJob == IF job = "threshold" THEN SweepInv ELSE bins = {0}

THEOREM SweepInvariant == JobSpec => []SweepJob
  <1>1. SweepInv /\ (Next \/ UNCHANGED vars) => SweepInv'
    <2> SUFFICES ASSUME SweepInv, Next \/ UNCHANGED vars PROVE SweepInv'
      OBVIOUS
    <2>1. CASE Visit
      BY <2>1, VisitInv
    <2>2. CASE UNCHANGED vars
      BY <2>2 DEF vars, SweepInv, TypeOK, Occurring, Visited, SweepCounted, Ratio, Hits, From, Less
    <2> QED
      BY <2>1, <2>2 DEF Next
  <1>2. SweepJob /\ [JobNext]_jobVars => SweepJob'
    <2> SUFFICES ASSUME SweepJob, [JobNext]_jobVars PROVE SweepJob'
      OBVIOUS
    <2>1. CASE job = "threshold"
      BY <1>1, <2>1, JobSteps DEF SweepJob
    <2>2. CASE job # "threshold"
      BY <2>2, JobSteps DEF SweepJob, vars
    <2> QED
      BY <2>1, <2>2
  <1>3. JobInit => SweepJob
    BY SweepInit, JobStarts DEF SweepJob
  <1> QED
    BY <1>2, <1>3, PTL DEF JobSpec

-----------------------------------------------------------------------------
(* A threshold between two scores predicts what the score above it predicts. *)
LEMMA FromIsFromSeen ==
  ASSUME SweepInv, bins = {}, NEW t \in 0 .. Top
  PROVE  From(t) = {} \/ \E u \in Visited : From(t) = From(u)
  <1> SUFFICES ASSUME From(t) # {}
               PROVE  \E u \in Visited : From(t) = From(u)
    OBVIOUS
  <1>1. Visited = Occurring /\ \A r \in Row : score[r] \in Visited /\ score[r] \in Nat /\ t \in Nat
    BY ScoresAreNaturals, Constants DEF SweepInv, Visited, Occurring
  <1> DEFINE U == {score[r] : r \in From(t)}
  <1>2. U \subseteq Nat /\ U # {} /\ U \subseteq Visited
    BY <1>1 DEF From
  <1>3. PICK u \in U : \A v \in U : u <= v
    BY <1>2, LeastExists
  <1>4. u \in Nat /\ u >= t
    BY <1>1, <1>2 DEF From
  <1>5. \A r \in Row : score[r] >= t <=> score[r] >= u
    BY <1>1, <1>3, <1>4 DEF From
  <1> QED
    BY <1>2, <1>5 DEF From

LEMMA InvIsMaximal == SweepInv => BestIsMaximal
  <1> SUFFICES ASSUME SweepInv, bins = {}, NEW t \in 0 .. Top
               PROVE  ~Less(F1(best), F1(t)) /\ ~Less(f1, F1(t))
    BY DEF BestIsMaximal
  <1>1. TypeOK /\ Visited = Occurring /\ Visited # {}
    BY ScoresAreNaturals DEF SweepInv, Visited
  <1>2. /\ F1(t) = Ratio(t) /\ F1(t)[1] \in Nat /\ F1(t)[2] \in Nat
        /\ F1(best) = Ratio(best) /\ F1(best)[1] \in Nat /\ F1(best)[2] \in Nat
    BY <1>1, ConfusionIsG
  <1>3. f1[1] \in Nat /\ f1[2] \in Nat
    BY <1>1, <1>2 DEF SweepInv
  <1>4. ~Less(f1, F1(t))
    <2>1. CASE From(t) = {}
      <3>1. Hits(From(t)) = {}
        BY <2>1 DEF Hits
      <3>2. F1(t)[1] = 0
        BY <1>2, <3>1, FS_EmptySet DEF Ratio
      <3> QED
        BY <1>2, <1>3, <3>2 DEF Less
    <2>2. CASE \E u \in Visited : From(t) = From(u)
      BY <1>2, <2>2 DEF SweepInv, Ratio
    <2> QED
      BY <2>1, <2>2, FromIsFromSeen
  <1>5. ~Less(F1(best), F1(t))
    <2>1. CASE f1 = Ratio(best)
      BY <1>2, <1>4, <2>1
    <2>2. CASE f1 = <<0, 1>>
      <3>1. F1(t)[1] = 0
        BY <1>2, <1>4, <2>2 DEF Less
      <3> QED
        BY <1>2, <3>1 DEF Less
    <2> QED
      BY <1>1, <2>1, <2>2 DEF SweepInv
  <1> QED
    BY <1>4, <1>5

(* The threshold the sweep reports is the best of the whole grid, and has    *)
(* the F1 it is reported with (select_f1_threshold(), best_f1_threshold()).  *)
THEOREM BestThreshold == JobSpec => []BestIsMaximal
  <1>1. SweepJob => BestIsMaximal
    <2>1. bins = {0} => BestIsMaximal
      BY DEF BestIsMaximal
    <2> QED
      BY <2>1, InvIsMaximal DEF SweepJob
  <1> QED
    BY <1>1, SweepInvariant, PTL

-----------------------------------------------------------------------------
(* download_rainfall_data.sh, download.sh *)

(* A size that was compared is that of the version measured, and a CSV that  *)
(* is there is not measured again.                                           *)
DownloadInv ==
    /\ script \in {"linux", "macos"}
    /\ version \in 1 .. Len(Size) /\ measured \in 1 .. Len(Size)
    /\ output \in Seq(Int) /\ partial \in Seq(Int)
    /\ remote_bytes \in Int
    /\ pc \in {"compare", "transfer", "check"} => remote_bytes = Size[measured]
    /\ output # << >> =>
          pc = "idle" /\ Len(output) = remote_bytes /\ remote_bytes = Size[measured]

LEMMA DownloadStart ==
  ASSUME Size \in Seq(Nat), Size # << >>, D!Init
  PROVE  DownloadInv
  <1>1. Len(Size) >= 1
    OBVIOUS
  <1>2. << >> \in Seq(Int)
    OBVIOUS
  <1> QED
    BY <1>1, <1>2 DEF D!Init, DownloadInv

LEMMA DownloadStep ==
  ASSUME Size \in Seq(Nat), DownloadInv, D!Next \/ UNCHANGED downloadVars
  PROVE  DownloadInv'
  <1> USE DEF D!Files, D!Still, D!Exit
  <1>1. CASE D!Start
    BY <1>1 DEF D!Start, DownloadInv
  <1>2. CASE D!Probe
    <2>1. Size[version] \in Int /\ output = << >>
      BY <1>2 DEF D!Probe, DownloadInv
    <2>2. CASE remote_bytes' = Size[version] /\ measured' = version
      BY <1>2, <2>1, <2>2 DEF D!Probe, DownloadInv
    <2>3. CASE D!Exit /\ UNCHANGED <<remote_bytes, measured>>
      BY <1>2, <2>1, <2>3 DEF D!Probe, DownloadInv
    <2> QED
      BY <1>2, <2>2, <2>3 DEF D!Probe
  <1>3. CASE D!Compare
    <2>1. Len(partial) \in Nat /\ << >> \in Seq(Int) /\ output = << >>
      BY <1>3 DEF D!Compare, DownloadInv
    <2>2. \/ pc' = "transfer" /\ UNCHANGED D!Files
          \/ Len(partial) = remote_bytes /\ pc' = "idle" /\ D!Finalize
          \/ pc' = "transfer" /\ D!Quarantine
      <3>1. Len(partial) < remote_bytes \/ Len(partial) = remote_bytes \/ Len(partial) > remote_bytes
        BY <2>1 DEF DownloadInv
      <3> QED
        BY <1>3, <3>1 DEF D!Compare, DownloadInv
    <2> QED
      BY <1>3, <2>1, <2>2 DEF D!Compare, D!Finalize, D!Quarantine, DownloadInv
  <1>4. CASE D!Transfer
    <2>1. PICK end \in Len(partial) .. Size[version] :
              partial' = partial \o [i \in 1 .. (end - Len(partial)) |-> version]
      BY <1>4 DEF D!Transfer
    <2>2. end - Len(partial) \in Nat
      BY <2>1 DEF DownloadInv
    <2>3. [i \in 1 .. (end - Len(partial)) |-> version] \in Seq(Int)
      BY <2>2 DEF DownloadInv
    <2>4. partial' \in Seq(Int)
      BY <2>1, <2>3 DEF DownloadInv
    <2> QED
      BY <1>4, <2>4 DEF D!Transfer, DownloadInv
  <1>5. CASE D!Refused
    BY <1>5 DEF D!Refused, DownloadInv
  <1>6. CASE D!Check
    <2>1. << >> \in Seq(Int)
      OBVIOUS
    <2> QED
      BY <1>6, <2>1 DEF D!Check, D!RightSize, D!Finalize, DownloadInv
  <1>7. CASE D!Kill
    BY <1>7 DEF D!Kill, DownloadInv
  <1>8. CASE D!Replace
    BY <1>8 DEF D!Replace, DownloadInv
  <1>9. CASE UNCHANGED downloadVars
    BY <1>9 DEF downloadVars, DownloadInv
  <1> QED
    BY <1>1, <1>2, <1>3, <1>4, <1>5, <1>6, <1>7, <1>8, <1>9 DEF D!Next

(* A CSV of which every byte is of the version measured last is that version *)
(* from its first to its last byte, whatever was killed or replaced while it *)
(* was downloaded (the length check before the file is renamed).             *)
THEOREM PublishedWhole ==
  ASSUME Size \in Seq(Nat), Size # << >>
  PROVE  JobSpec => []PublishedIsWhole
  <1>1. JobInit => (job = "download" => DownloadInv)
    BY DownloadStart, JobStarts
  <1>2. (job = "download" => DownloadInv) /\ [JobNext]_jobVars => (job = "download" => DownloadInv)'
    BY DownloadStep, JobSteps
  <1>3. (job = "download" => DownloadInv) => PublishedIsWhole
    <2> SUFFICES ASSUME DownloadInv, output # << >>
                 PROVE  /\ Len(output) = remote_bytes
                        /\ \/ output = D!Whole(measured)
                           \/ \E i \in DOMAIN output : output[i] # measured
      BY DEF PublishedIsWhole, D!PublishedIsWhole
    <2>0. Len(output) = remote_bytes
      BY DEF DownloadInv
    <2> SUFFICES ASSUME \A i \in DOMAIN output : output[i] = measured
                 PROVE  output = D!Whole(measured)
      BY <2>0
    <2>1. Len(output) = remote_bytes /\ remote_bytes = Size[measured] /\ output \in Seq(Int)
      BY DEF DownloadInv
    <2>2. output = [i \in 1 .. Len(output) |-> output[i]]
      BY <2>1
    <2>3. DOMAIN output = 1 .. Size[measured]
      BY <2>1
    <2>4. output = [i \in 1 .. Size[measured] |-> measured]
      BY <2>2, <2>3, <2>1
    <2> QED
      BY <2>1, <2>4 DEF D!Whole
  <1> QED
    BY <1>1, <1>2, <1>3, PTL DEF JobSpec

-----------------------------------------------------------------------------
(* train_amount_model.py, evaluate_amount_models.py *)

Validation == 2023
Testing == 2024
Years == {Validation, Testing}

Listed == <<"frame", "base", "ziln">> \o P!Evaluated

(* What an evaluation materialises, in order: all of a year, then all of the *)
(* next.                                                                     *)
Shape(n) ==
    /\ Len(P!Works) = 2 * n
    /\ \A i \in 1 .. n : /\ P!Works[i] = <<Listed[i], Validation>>
                         /\ P!Works[n + i] = <<Listed[i], Testing>>
    /\ Listed[1] = "frame" /\ Listed[2] = "base" /\ Listed[3] = "ziln"
    /\ \A i \in 4 .. n : Listed[i] \in P!Name
    /\ \A m \in P!ToSet(P!Evaluated) : \E i \in 4 .. n : Listed[i] = m

LEMMA WorksShape ==
  ASSUME chain \in {"original", "qc"}, stage \in {1, 2}
  PROVE  \E n \in {4, 5} : Shape(n)
  <1> DEFINE e == P!Evaluated
             n == 3 + Len(e)
  <1>1. e \in Seq(P!Name) /\ Len(e) \in {1, 2}
    <2>1. e \in {<<"mlp_qc">>, <<"mlp_qc", "mlp_qc_unrounded">>, <<"hazard", "mlp">>, <<"mlp", "mlp_s5209">>}
      BY DEF P!Evaluated
    <2> HIDE DEF e
    <2>2. CASE e = <<"mlp_qc">>
      BY <2>2 DEF P!Name
    <2>3. CASE e = <<"mlp_qc", "mlp_qc_unrounded">>
      BY <2>3 DEF P!Name
    <2>4. CASE e = <<"hazard", "mlp">>
      BY <2>4 DEF P!Name
    <2>5. CASE e = <<"mlp", "mlp_s5209">>
      BY <2>5 DEF P!Name
    <2> QED
      BY <2>1, <2>2, <2>3, <2>4, <2>5
  <1>2. Listed = <<"frame", "base", "ziln">> \o e
    BY DEF Listed
  <1>3. \A w : P!Year(w) = [i \in 1 .. n |-> <<Listed[i], w>>]
    BY DEF P!Year, Listed
  <1>4. P!Works = P!Year(Validation) \o P!Year(Testing)
    BY DEF P!Works, Validation, Testing
  <1> HIDE DEF e
  <1>5. n \in {4, 5}
    <2>1. Len(e) = 1 \/ Len(e) = 2
      BY <1>1
    <2>2. 3 + 1 = 4 /\ 3 + 2 = 5
      OBVIOUS
    <2> QED
      BY <2>1, <2>2
  <1>6. /\ \A i \in 1 .. 3 : Listed[i] = <<"frame", "base", "ziln">>[i]
        /\ \A i \in 4 .. n : Listed[i] = e[i - 3]
    BY <1>1, <1>2
  <1> DEFINE a == [i \in 1 .. n |-> <<Listed[i], Validation>>]
             b == [i \in 1 .. n |-> <<Listed[i], Testing>>]
             S == {Listed[i] : i \in 1 .. n} \X Years
  <1>7. a \in Seq(S) /\ b \in Seq(S) /\ Len(a) = n /\ Len(b) = n
    BY <1>5 DEF Years
  <1>8. P!Works = a \o b
    BY <1>3, <1>4
  <1>9. /\ \A i \in 1 .. n : a[i] = <<Listed[i], Validation>> /\ b[i] = <<Listed[i], Testing>>
    OBVIOUS
  <1> HIDE DEF a, b, S, n
  <1>10. /\ Len(P!Works) = 2 * n
         /\ \A i \in 1 .. n : P!Works[i] = a[i] /\ P!Works[n + i] = b[i]
    BY <1>5, <1>7, <1>8
  <1>11. \A i \in 4 .. n : Listed[i] \in P!Name
    BY <1>1, <1>6 DEF n
  <1>12. \A m \in P!ToSet(e) : \E i \in 4 .. n : Listed[i] = m
    <2> SUFFICES ASSUME NEW k \in DOMAIN e PROVE \E i \in 4 .. n : Listed[i] = e[k]
      BY DEF P!ToSet
    <2>1. k + 3 \in 4 .. n /\ (k + 3) - 3 = k
      BY <1>1 DEF n
    <2>2. Listed[k + 3] = e[k]
      BY <1>6, <2>1
    <2> QED
      BY <2>1, <2>2
  <1>13. Listed[1] = "frame" /\ Listed[2] = "base" /\ Listed[3] = "ziln"
    BY <1>6
  <1>14. \A m \in P!ToSet(P!Evaluated) : \E i \in 4 .. n : Listed[i] = m
    BY <1>12 DEF e
  <1>15. \A i \in 1 .. n : /\ P!Works[i] = <<Listed[i], Validation>>
                            /\ P!Works[n + i] = <<Listed[i], Testing>>
    BY <1>9, <1>10
  <1>16. Len(P!Works) = 2 * n
    BY <1>10
  <1>17. Shape(n)
    BY <1>11, <1>13, <1>14, <1>15, <1>16 DEF Shape
  <1> QED
    BY <1>5, <1>17

(* The frames of both years, of unrounded labels.                            *)
FramesDone == \A w \in Years : store[<<"frame", w>>] = P!Whole("raw")

(* Before a removal is cut short: an evaluation goes through its list again  *)
(* from the start after a kill, and passes only what is whole.  Every label  *)
(* is raw, although the last script of "qc" rounds: the frames of the first  *)
(* script are there before it starts.                                        *)
ForecastInv ==
    /\ chain \in {"original", "qc"} /\ stage \in {1, 2}
    /\ position \in Nat \ {0}
    /\ running \in {"train", "work", "reported", "done", "failed", "killed"}
    /\ store \in [({"frame", "base", "ziln"} \cup P!Name) \X Years
                     -> {P!Missing, P!Cut, P!Whole("raw")}]
    /\ running = "work" =>
          /\ position <= Len(P!Works) + 1
          /\ \A i \in 1 .. position - 1 : store[P!Works[i]] = P!Whole("raw")
    /\ running = "work" /\ writing = "work" =>
          position <= Len(P!Works) /\ store[P!Works[position]] = P!Cut
    /\ running = "reported" \/ (running = "done" /\ stage = 1) \/ (running # "done" /\ stage = 2)
          => FramesDone
    /\ report \subseteq {P!Whole("raw")}

(* The list, from what is known of it.                                       *)
LEMMA WorksAreKeys ==
  ASSUME chain \in {"original", "qc"}, stage \in {1, 2},
         NEW i \in 1 .. Len(P!Works)
  PROVE  P!Works[i] \in ({"frame", "base", "ziln"} \cup P!Name) \X Years
  <1>1. PICK n \in {4, 5} : Shape(n)
    BY WorksShape
  <1>2. \A j \in 1 .. n : Listed[j] \in {"frame", "base", "ziln"} \cup P!Name
    <2> SUFFICES ASSUME NEW j \in 1 .. n
                 PROVE  Listed[j] \in {"frame", "base", "ziln"} \cup P!Name
      OBVIOUS
    <2>1. j = 1 \/ j = 2 \/ j = 3 \/ j \in 4 .. n
      OBVIOUS
    <2> QED
      BY <1>1, <2>1 DEF Shape
  <1>3. \A j \in 1 .. n : /\ P!Works[j] = <<Listed[j], Validation>>
                          /\ P!Works[n + j] = <<Listed[j], Testing>>
    BY <1>1 DEF Shape
  <1>4. i \in 1 .. n \/ (i - n \in 1 .. n /\ i = n + (i - n))
    BY <1>1 DEF Shape
  <1>5. CASE i \in 1 .. n
    <2>1. P!Works[i] = <<Listed[i], Validation>>
      BY <1>3, <1>5
    <2>2. Listed[i] \in {"frame", "base", "ziln"} \cup P!Name
      BY <1>2, <1>5
    <2> QED
      BY <2>1, <2>2 DEF Years
  <1>6. CASE i - n \in 1 .. n /\ i = n + (i - n)
    <2>1. PICK k \in 1 .. n : i = n + k
      BY <1>6
    <2>2. P!Works[i] = <<Listed[k], Testing>>
      <3>1. P!Works[n + k] = <<Listed[k], Testing>>
        BY <1>3, Zenon
      <3> QED
        BY <2>1, <3>1
    <2>3. Listed[k] \in {"frame", "base", "ziln"} \cup P!Name
      BY <1>2
    <2> QED
      BY <2>2, <2>3 DEF Years
  <1> QED
    BY <1>4, <1>5, <1>6

(* Where the content of a directory comes from, and what a report averages.  *)
LEMMA SourceIsEarlier ==
  ASSUME chain \in {"original", "qc"}, stage \in {1, 2},
         NEW i \in 1 .. Len(P!Works), P!Works[i][1] # "frame"
  PROVE  \E j \in 1 .. i - 1 :
            P!Works[j] = << IF P!Works[i][1] \in {"base", "ziln"} THEN "frame" ELSE "base",
                            P!Works[i][2] >>
  <1>1. PICK n \in {4, 5} : Shape(n)
    BY WorksShape
  <1>2. \A j \in 1 .. n : /\ P!Works[j] = <<Listed[j], Validation>>
                          /\ P!Works[n + j] = <<Listed[j], Testing>>
    BY <1>1 DEF Shape
  <1>3. /\ Listed[1] = "frame" /\ Listed[2] = "base" /\ Listed[3] = "ziln"
        /\ \A j \in 4 .. n : Listed[j] \notin {"frame", "base", "ziln"}
    BY <1>1 DEF Shape, P!Name
  <1>4. i \in 1 .. n \/ (i - n \in 1 .. n /\ i = n + (i - n))
    BY <1>1 DEF Shape
  <1>5. PICK k \in 1 .. n, w \in Years :
            /\ P!Works[i] = <<Listed[k], w>>
            /\ (w = Validation /\ i = k) \/ (w = Testing /\ i = n + k)
    <2>1. CASE i \in 1 .. n
      BY <1>2, <2>1 DEF Years
    <2>2. CASE i - n \in 1 .. n /\ i = n + (i - n)
      <3>1. P!Works[i] = <<Listed[i - n], Testing>>
        BY <1>2, <2>2
      <3> QED
        BY <2>2, <3>1 DEF Years
    <2> QED
      BY <1>4, <2>1, <2>2
  <1>6. Listed[k] # "frame" /\ k # 1
    BY <1>3, <1>5
  <1> DEFINE source == IF Listed[k] \in {"base", "ziln"} THEN 1 ELSE 2
  <1>7. /\ source \in 1 .. n /\ source < k
        /\ Listed[source] = IF Listed[k] \in {"base", "ziln"} THEN "frame" ELSE "base"
    <2>1. CASE k = 2
      BY <1>3, <2>1
    <2>2. CASE k = 3
      BY <1>3, <2>2
    <2>3. CASE k \in 4 .. n
      BY <1>3, <2>3
    <2> QED
      BY <1>6, <2>1, <2>2, <2>3
  <1> HIDE DEF source
  <1>8. CASE w = Validation /\ i = k
    <2>1. P!Works[source] = <<Listed[source], Validation>> /\ source \in 1 .. i - 1
      BY <1>2, <1>7, <1>8
    <2> QED
      BY <1>5, <1>7, <1>8, <2>1
  <1>9. CASE w = Testing /\ i = n + k
    <2>1. P!Works[n + source] = <<Listed[source], Testing>> /\ n + source \in 1 .. i - 1
      BY <1>2, <1>7, <1>9 DEF Years
    <2> QED
      BY <1>5, <1>7, <1>9, <2>1
  <1> QED
    BY <1>5, <1>8, <1>9

LEMMA ReportedAreWorks ==
  ASSUME chain \in {"original", "qc"}, stage \in {1, 2},
         NEW m \in P!ToSet(P!Evaluated) \cup {"ziln", "frame"}, NEW w \in Years
  PROVE  \E i \in 1 .. Len(P!Works) : P!Works[i] = <<m, w>>
  <1>1. PICK n \in {4, 5} : Shape(n)
    BY WorksShape
  <1>2. PICK k \in 1 .. n : Listed[k] = m
    <2>1. CASE m = "ziln"
      BY <1>1, <2>1 DEF Shape
    <2>2. CASE m = "frame"
      BY <1>1, <2>2 DEF Shape
    <2>3. CASE m \in P!ToSet(P!Evaluated)
      BY <1>1, <2>3 DEF Shape
    <2> QED
      BY <2>1, <2>2, <2>3
  <1>3. /\ P!Works[k] = <<m, Validation>> /\ P!Works[n + k] = <<m, Testing>>
        /\ k \in 1 .. Len(P!Works) /\ n + k \in 1 .. Len(P!Works)
    BY <1>1, <1>2 DEF Shape
  <1> QED
    BY <1>3 DEF Years

LEMMA ForecastStart ==
  ASSUME P!Init
  PROVE  ForecastInv
  BY DEF P!Init, ForecastInv, Years, Validation, Testing

LEMMA RecordsDiffer ==
  /\ P!Missing # P!Whole("raw") /\ P!Cut # P!Whole("raw")
  /\ P!Missing.state # "whole" /\ P!Cut.state # "whole" /\ P!Whole("raw").state = "whole"
  /\ P!Whole("raw").labels = "raw"
  BY DEF P!Missing, P!Cut, P!Whole

LEMMA ListIsSame ==
  ASSUME UNCHANGED <<chain, stage>>
  PROVE  P!Works' = P!Works
  BY DEF P!Works, P!Year, P!Evaluated

(* One turn of materialise().                                                *)
LEMMA MaterialiseStep ==
  ASSUME ForecastInv, P!Materialise
  PROVE  ForecastInv'
  <1> DEFINE p == P!Works[position]
             Whole == P!Whole("raw")
             Keys == ({"frame", "base", "ziln"} \cup P!Name) \X Years
  <1>1. /\ UNCHANGED <<chain, stage, running, wet, model, report, killed>>
        /\ running = "work" /\ position <= Len(P!Works)
        /\ P!Works' = P!Works
    BY ListIsSame DEF P!Materialise, P!Script
  <1>2. /\ chain \in {"original", "qc"} /\ stage \in {1, 2}
        /\ position \in Nat \ {0} /\ position \in 1 .. Len(P!Works)
        /\ position + 1 \in Nat \ {0} /\ position <= Len(P!Works) + 1
    <2>1. position \in Nat \ {0} /\ chain \in {"original", "qc"} /\ stage \in {1, 2}
      BY DEF ForecastInv
    <2>2. Len(P!Works) \in Nat
      BY <2>1, WorksShape DEF Shape
    <2> QED
      BY <1>1, <2>1, <2>2
  <1>3. p \in Keys
    BY <1>2, WorksAreKeys
  <1>4. /\ store \in [Keys -> {P!Missing, P!Cut, Whole}]
        /\ \A i \in 1 .. position - 1 : store[P!Works[i]] = Whole
    BY <1>1 DEF ForecastInv
  <1>5. stage = 2 => FramesDone
    BY <1>1 DEF ForecastInv
  <1> HIDE DEF p, Keys
  <1>6. ASSUME writing = "work" PROVE P!Content(p) = "raw"
    <2>1. CASE p[1] = "frame"
      <3>1. store[p] # Whole
        BY <1>1, <1>6, RecordsDiffer DEF ForecastInv, p
      <3>2. p = <<"frame", p[2]>> /\ p[2] \in Years
        BY <1>3, <2>1 DEF Keys
      <3>3. ~FramesDone
        BY <3>1, <3>2 DEF FramesDone
      <3>4. P!Labels = "raw"
        BY <1>2, <1>5, <3>3 DEF P!Labels
      <3> QED
        BY <2>1, <3>4 DEF P!Content
    <2>2. CASE p[1] # "frame"
      <3>1. PICK j \in 1 .. position - 1 :
                P!Works[j] = << IF p[1] \in {"base", "ziln"} THEN "frame" ELSE "base", p[2] >>
        BY <1>2, <2>2, SourceIsEarlier DEF p
      <3>2. store[P!Works[j]].labels = "raw"
        BY <1>4, <3>1, RecordsDiffer
      <3>3. CASE p[1] \in {"base", "ziln"}
        BY <2>2, <3>1, <3>2, <3>3 DEF P!Content
      <3>4. CASE p[1] \notin {"base", "ziln"}
        BY <2>2, <3>1, <3>2, <3>4 DEF P!Content
      <3> QED
        BY <3>3, <3>4
    <2> QED
      BY <2>1, <2>2
  <1>7. CASE writing = "-" /\ P!Finished(p) /\ position' = position + 1 /\ UNCHANGED <<store, writing>>
    <2>1. store[p] = Whole
      BY <1>3, <1>4, <1>7, RecordsDiffer DEF P!Finished
    <2>2. \A i \in 1 .. position' - 1 : store'[P!Works[i]] = Whole
      BY <1>2, <1>4, <1>7, <2>1 DEF p
    <2>3. FramesDone' = FramesDone
      BY <1>7 DEF FramesDone
    <2> QED
      BY <1>1, <1>2, <1>7, <2>2, <2>3 DEF ForecastInv
  <1>8. CASE /\ writing = "-" /\ ~P!Finished(p) /\ position' = position
             /\ store' = [store EXCEPT ![p] = P!Cut] /\ writing' = "work"
    <2>1. store[p] # Whole /\ store'[p] = P!Cut
      BY <1>3, <1>4, <1>8, RecordsDiffer DEF P!Finished
    <2>2. \A q \in Keys : store[q] = Whole => store'[q] = Whole
      BY <1>4, <1>8, <2>1
    <2>3. \A i \in 1 .. position' - 1 : store'[P!Works[i]] = Whole
      <3>1. \A i \in 1 .. position - 1 : P!Works[i] \in Keys
        BY <1>2, WorksAreKeys DEF Keys
      <3> QED
        BY <1>4, <1>8, <2>2, <3>1
    <2>4. FramesDone => FramesDone'
      BY <2>2 DEF FramesDone, Keys
    <2>5. store' \in [Keys -> {P!Missing, P!Cut, Whole}]
      BY <1>4, <1>8
    <2>6. P!Works'[position'] = p
      BY <1>1, <1>8 DEF p
    <2> QED
      BY <1>1, <1>2, <1>8, <2>1, <2>3, <2>4, <2>5, <2>6 DEF ForecastInv, Keys
  <1>9. CASE /\ writing = "work" /\ writing' = "-" /\ position' = position + 1
             /\ store' = [store EXCEPT ![p] = P!Whole(P!Content(p))]
    <2>1. store' = [store EXCEPT ![p] = Whole]
      BY <1>6, <1>9
    <2>2. \A q \in Keys : store[q] = Whole => store'[q] = Whole
      BY <1>4, <2>1
    <2>3. \A i \in 1 .. position' - 1 : store'[P!Works[i]] = Whole
      <3>1. \A i \in 1 .. position - 1 : P!Works[i] \in Keys
        BY <1>2, WorksAreKeys DEF Keys
      <3>2. store'[P!Works[position]] = Whole
        BY <1>3, <1>4, <2>1 DEF p
      <3> QED
        BY <1>2, <1>4, <1>9, <2>2, <3>1, <3>2
    <2>4. FramesDone => FramesDone'
      BY <2>2 DEF FramesDone, Keys
    <2>5. store' \in [Keys -> {P!Missing, P!Cut, Whole}]
      BY <1>4, <2>1
    <2> QED
      BY <1>1, <1>2, <1>9, <2>3, <2>4, <2>5 DEF ForecastInv, Keys
  <1> QED
    BY <1>7, <1>8, <1>9 DEF P!Materialise, p

LEMMA ForecastStep ==
  ASSUME ForecastInv, P!Next \/ UNCHANGED forecastVars, swept' # TRUE
  PROVE  ForecastInv'
  <1> DEFINE Whole == P!Whole("raw")
  <1>1. ASSUME UNCHANGED <<chain, stage>> PROVE P!Works' = P!Works
    BY <1>1, ListIsSame
  <1>2. ASSUME UNCHANGED store PROVE FramesDone' = FramesDone
    BY <1>2 DEF FramesDone
  <1>3. CASE P!Assemble
    BY <1>1, <1>2, <1>3 DEF P!Assemble, P!Script, ForecastInv
  <1>4. CASE P!Fit
    BY <1>1, <1>2, <1>4 DEF P!Fit, P!Script, ForecastInv
  <1>5. CASE P!Save
    BY <1>1, <1>2, <1>5 DEF P!Save, P!Script, ForecastInv
  <1>6. CASE P!Load
    <2>1. Len(P!Works) \in Nat
      BY WorksShape DEF Shape, ForecastInv
    <2> QED
      BY <1>1, <1>2, <1>6, <2>1 DEF P!Load, P!Script, ForecastInv
  <1>7. CASE P!Materialise
    BY <1>7, MaterialiseStep
  <1>8. CASE P!Report
    <2>1. \A m \in P!ToSet(P!Evaluated) \cup {"ziln", "frame"}, w \in Years :
              store[<<m, w>>] = Whole
      <3> SUFFICES ASSUME NEW m \in P!ToSet(P!Evaluated) \cup {"ziln", "frame"},
                          NEW w \in Years
                   PROVE  store[<<m, w>>] = Whole
        OBVIOUS
      <3>0. chain \in {"original", "qc"} /\ stage \in {1, 2}
        BY DEF ForecastInv
      <3>1. PICK i \in 1 .. Len(P!Works) : P!Works[i] = <<m, w>>
        BY <3>0, ReportedAreWorks, Zenon
      <3>2. Len(P!Works) \in Nat
        BY WorksShape DEF Shape, ForecastInv
      <3>3. i \in 1 .. position - 1
        BY <1>8, <3>2 DEF P!Report, ForecastInv
      <3>4. \A j \in 1 .. position - 1 : store[P!Works[j]] = Whole
        BY <1>8 DEF P!Report, ForecastInv
      <3> QED
        BY <3>1, <3>3, <3>4
    <2>2. FramesDone' /\ report' \subseteq {Whole}
      <3>1. FramesDone'
        <4>1. store' = store
          BY <1>8 DEF P!Report
        <4>0. "frame" \in P!ToSet(P!Evaluated) \cup {"ziln", "frame"}
          OBVIOUS
        <4>2. \A w \in Years : store[<<"frame", w>>] = Whole
          BY <2>1, <4>0, Zenon
        <4> QED
          BY <4>1, <4>2 DEF FramesDone
      <3>2. report' = {store[<<m, w>>] : m \in P!ToSet(P!Evaluated) \cup {"ziln"}, w \in Years}
        BY <1>8 DEF P!Report, Years, Validation, Testing
      <3> HIDE DEF Whole
      <3>3. \A m \in P!ToSet(P!Evaluated) \cup {"ziln"}, w \in Years : store[<<m, w>>] = Whole
        BY <2>1, Zenon
      <3>4. ASSUME NEW r \in report' PROVE r = Whole
        <4>1. PICK m \in P!ToSet(P!Evaluated) \cup {"ziln"}, w \in Years : r = store[<<m, w>>]
          BY <3>2
        <4> QED
          BY <3>3, <4>1, Zenon
      <3> QED
        BY <3>1, <3>4
    <2> QED
      BY <1>1, <1>8, <2>2 DEF P!Report, P!Script, ForecastInv
  <1>9. CASE P!Finish
    <2>1. CASE chain = "qc" /\ stage = 2
      <3>1. store' \in [({"frame", "base", "ziln"} \cup P!Name) \X Years
                           -> {P!Missing, P!Cut, Whole}]
        BY <1>9, <2>1 DEF P!Finish, P!Removes, ForecastInv
      <3> QED
        BY <1>9, <2>1, <3>1 DEF P!Finish, P!Removes, P!Script, ForecastInv
    <2>2. CASE ~(chain = "qc" /\ stage = 2)
      BY <1>2, <1>9, <2>2 DEF P!Finish, P!Removes, P!Script, ForecastInv
    <2> QED
      BY <2>1, <2>2
  <1>10. CASE P!Kill
    BY <1>2, <1>10 DEF P!Kill, ForecastInv
  <1>11. CASE P!Run
    BY <1>2, <1>11 DEF P!Run, ForecastInv
  <1>12. CASE UNCHANGED forecastVars
    BY <1>1, <1>2, <1>12 DEF forecastVars, ForecastInv
  <1>13. ~P!KillRemoval
    BY DEF P!KillRemoval
  <1> QED
    BY <1>3, <1>4, <1>5, <1>6, <1>7, <1>8, <1>9, <1>10, <1>11, <1>12, <1>13 DEF P!Next

(* A removal that was cut short stays known.                                 *)
LEMMA SweptStays ==
  ASSUME swept = TRUE, P!Next \/ UNCHANGED forecastVars
  PROVE  swept' = TRUE
  <1>1. P!Assemble \/ P!Fit \/ P!Save \/ P!Load \/ P!Materialise \/ P!Report \/ P!Finish
           => swept' = swept
    <2>1. P!Assemble \/ P!Fit \/ P!Save => P!Script
      BY Zenon DEF P!Assemble, P!Fit, P!Save
    <2>2. P!Load \/ P!Report => P!Script
      BY DEF P!Load, P!Report
    <2>3. P!Materialise => P!Script
      BY DEF P!Materialise
    <2>4. P!Finish => P!Script
      BY Zenon DEF P!Finish
    <2>5. P!Script => swept' = swept
      BY DEF P!Script
    <2> QED
      BY <2>1, <2>2, <2>3, <2>4, <2>5, Zenon
  <1>2. P!Kill \/ P!Run \/ UNCHANGED forecastVars => swept' = swept
    BY DEF P!Kill, P!Run, forecastVars
  <1>3. P!KillRemoval => swept' = TRUE
    BY Zenon DEF P!KillRemoval
  <1> QED
    BY <1>1, <1>2, <1>3 DEF P!Next

(* A report is of whole forecasts of one set of labelled rows, in both       *)
(* chains and for any number of kills in the middle of a write or between    *)
(* two, as long as no removal of the work directories was killed: done() of  *)
(* evaluate_amount_models.py takes what that leaves for whole.               *)
THEOREM ReportConsistent == JobSpec => []ReportIsConsistent
  <1> DEFINE Inv == job = "forecasts" => swept = TRUE \/ ForecastInv
  <1>1. JobInit => Inv
    BY ForecastStart, JobStarts
  <1>2. Inv /\ [JobNext]_jobVars => Inv'
    <2> SUFFICES ASSUME Inv, [JobNext]_jobVars, job' = "forecasts", swept' # TRUE
                 PROVE  ForecastInv'
      OBVIOUS
    <2>1. job = "forecasts" /\ (P!Next \/ UNCHANGED forecastVars)
      BY JobSteps
    <2>2. swept # TRUE
      BY <2>1, SweptStays
    <2> QED
      BY <2>1, <2>2, ForecastStep
  <1>3. Inv => ReportIsConsistent
    <2> SUFFICES ASSUME ForecastInv PROVE P!ScoresTheSameRows
      BY DEF ReportIsConsistent, P!ReportIsConsistent
    <2> QED
      BY RecordsDiffer DEF ForecastInv, P!ScoresTheSameRows
  <1> QED
    BY <1>1, <1>2, <1>3, PTL DEF JobSpec

-----------------------------------------------------------------------------
(* The scripts that train, tune and score models *)

Places == Dirs \cup Families \cup {"work", "binary", "ziln", "binned", "tables", "results"}
PartNames == {"prep", "occurrence", "location", "scale", "meta", "assembled", "oof", "scored",
              "report", "model", "threshold", "platt", "pred", "comparison"} \cup L!YearSet
SourceSet == [name : Places \X PartNames, save : Nat]
FileSet == [name : Places \X PartNames, save : Nat, content : Nat, from : SUBSET SourceSet,
            whole : BOOLEAN]

LineageTyped ==
    /\ line \in {"binary", "ziln", "dist"}
    /\ started \in Nat
    /\ todo \in Seq(FileSet)
    /\ \A i \in 1 .. Len(todo) : todo[i].save = started
    /\ \A f \in DOMAIN disk : disk[f] \in FileSet /\ disk[f].save <= started

(* The files that are saved in an order, all by one script, get older along  *)
(* it, and what lies between two of one save is of that save.                *)
Ordered(where, order) ==
    \A i, j \in 1 .. Len(order) :
        i < j /\ L!Has(where, order[i]) /\ L!Has(where, order[j]) =>
            /\ L!SavedBy(where, order[j]) <= L!SavedBy(where, order[i])
            /\ L!SavedBy(where, order[j]) = L!SavedBy(where, order[i]) =>
                  \A k \in i .. j : /\ L!Has(where, order[k])
                                    /\ L!SavedBy(where, order[k]) = L!SavedBy(where, order[i])

(* The running script saves none of them, or those that are left.            *)
Untouched(where, order) ==
    \A i \in 1 .. Len(todo), k \in 1 .. Len(order) : todo[i].name # <<where, order[k]>>

Saving(where, order) ==
    /\ \A i \in 1 .. Len(todo), k \in 1 .. Len(order) :
          todo[i].name = <<where, order[k]>> => i = Len(todo) - Len(order) + k
    /\ \A k \in 1 .. Len(order) :
          k > Len(order) - Len(todo) =>
              /\ todo[Len(todo) - Len(order) + k].name = <<where, order[k]>>
              /\ L!Has(where, order[k]) => L!SavedBy(where, order[k]) < started
    /\ \A k \in 1 .. Len(order) :
          k <= Len(order) - Len(todo) =>
              L!Has(where, order[k]) /\ L!SavedBy(where, order[k]) = started

InTurn(where, order) == Ordered(where, order) /\ (Untouched(where, order) \/ Saving(where, order))

(* A file was computed from what is there, or from what was replaced later,  *)
(* and no script replaces what it has read.                                  *)
Traced ==
    /\ \A f \in DOMAIN disk : L!CurrentUnlessOlder(disk[f])
    /\ \A f \in DOMAIN disk : disk[f].save = started =>
          \A s \in disk[f].from : \A i \in 1 .. Len(todo) : todo[i].name # s.name
    /\ \A i, j \in 1 .. Len(todo) : \A s \in todo[i].from :
          /\ s.name \in DOMAIN disk /\ disk[s.name].save = s.save
          /\ todo[j].name # s.name

(* What is there or will be under a name.                                    *)
Held(x, name) ==
    \/ name \in DOMAIN disk /\ x = disk[name]
    \/ \E i \in 1 .. Len(todo) : todo[i].name = name /\ x = todo[i]

(* Of one save, the variance model and the error tables are of one set of    *)
(* residuals, not older than the location model.                             *)
Agree(d) ==
    \A x, z : Held(x, <<d, "scale">>) /\ x.save = z.save =>
        /\ Held(z, <<d, "meta">>) => x.content = z.content
        /\ Held(z, <<d, "location">>) => z.content <= x.content

(* No location model is newer than the residuals.                            *)
Residuals ==
    /\ \A d \in Dirs : L!Has(d, "location") =>
          /\ L!Content(d, "location") <= started
          /\ L!Has("work", "oof") => L!Content(d, "location") <= L!Content("work", "oof")
    /\ \A i \in 1 .. Len(todo) : todo[i].name[2] = "location" =>
          /\ todo[i].content <= started
          /\ \/ \E j \in 1 .. i - 1 : todo[j].name = <<"work", "oof">>
             \/ L!Has("work", "oof") => todo[i].content <= L!Content("work", "oof")
    /\ \A i \in 1 .. Len(todo) : todo[i].name = <<"work", "oof">> => todo[i].content = started

ZilnInv == Residuals /\ \A d \in Dirs : InTurn(d, L!Parts) /\ Agree(d)

(* The forecasts of a family are of tables in the order of the years.        *)
YearsInOrder(from) ==
    \A i, j \in 1 .. 4 : \A r, s \in from :
        i <= j /\ r.name[2] = L!Years[i] /\ s.name[2] = L!Years[j] => s.save <= r.save

DistInv ==
    /\ InTurn("tables", L!Years)
    /\ \A f \in DOMAIN disk : f[2] = "pred" => YearsInOrder(disk[f].from)
    /\ \A i \in 1 .. Len(todo) : todo[i].name[2] = "pred" => YearsInOrder(todo[i].from)

(* Which parts there are in which line.                                      *)
Apart ==
    /\ line # "ziln" => /\ \A f \in DOMAIN disk : f[2] # "meta"
                        /\ \A i \in 1 .. Len(todo) : todo[i].name[2] # "meta"
    /\ line # "dist" => /\ \A f \in DOMAIN disk : f[2] # "pred"
                        /\ \A i \in 1 .. Len(todo) : todo[i].name[2] # "pred"

LineageInv == /\ LineageTyped /\ Traced /\ Apart
              /\ line = "ziln" => ZilnInv
              /\ line = "dist" => DistInv

LEMMA OrdersAre ==
  /\ L!Parts[1] = "prep" /\ L!Parts[2] = "occurrence" /\ L!Parts[3] = "location"
  /\ L!Parts[4] = "scale" /\ L!Parts[5] = "meta" /\ Len(L!Parts) = 5
  /\ L!Years[1] = "2021" /\ L!Years[2] = "2022" /\ L!Years[3] = "2023"
  /\ L!Years[4] = "2024" /\ Len(L!Years) = 4
  /\ \A k \in 1 .. 5 : L!Parts[k] \in PartNames
  /\ \A k \in 1 .. 4 : L!Years[k] \in L!YearSet
  /\ \A k, i \in 1 .. 5 : L!Parts[k] = L!Parts[i] => k = i
  /\ \A k, i \in 1 .. 4 : L!Years[k] = L!Years[i] => k = i
  <1>1. /\ L!Parts[1] = "prep" /\ L!Parts[2] = "occurrence" /\ L!Parts[3] = "location"
        /\ L!Parts[4] = "scale" /\ L!Parts[5] = "meta" /\ Len(L!Parts) = 5
    BY DEF L!Parts
  <1>2. /\ L!Years[1] = "2021" /\ L!Years[2] = "2022" /\ L!Years[3] = "2023"
        /\ L!Years[4] = "2024" /\ Len(L!Years) = 4
    BY DEF L!Years
  <1>3. /\ \A k \in 1 .. 5 : k = 1 \/ k = 2 \/ k = 3 \/ k = 4 \/ k = 5
        /\ \A k \in 1 .. 4 : k = 1 \/ k = 2 \/ k = 3 \/ k = 4
    OBVIOUS
  <1>4. \A k \in 1 .. 5 : L!Parts[k] \in PartNames
    BY <1>1, <1>3 DEF PartNames
  <1>5. \A k \in 1 .. 4 : L!Years[k] \in L!YearSet
    BY <1>2, <1>3 DEF L!YearSet
  <1>6. \A k, i \in 1 .. 5 : L!Parts[k] = L!Parts[i] => k = i
    BY <1>1, <1>3
  <1>7. \A k, i \in 1 .. 4 : L!Years[k] = L!Years[i] => k = i
    BY <1>2, <1>3
  <1> QED
    BY <1>1, <1>2, <1>4, <1>5, <1>6, <1>7

LEMMA LineageStart ==
  ASSUME L!Init
  PROVE  LineageInv
  <1>1. DOMAIN disk = {} /\ todo = << >> /\ Len(todo) = 0 /\ << >> \in Seq(FileSet) /\ started = 0
    BY DEF L!Init
  <1>2. LineageTyped /\ Traced /\ Apart
    BY <1>1 DEF L!Init, LineageTyped, Traced, Apart
  <1>3. \A where, part : ~L!Has(where, part)
    BY <1>1 DEF L!Has
  <1>4. ZilnInv
    BY <1>1, <1>3 DEF ZilnInv, Residuals, InTurn, Ordered, Untouched, Agree, Held
  <1>5. DistInv
    BY <1>1, <1>3 DEF DistInv, InTurn, Ordered, Untouched
  <1> QED
    BY <1>2, <1>4, <1>5 DEF LineageInv

-----------------------------------------------------------------------------
(* A script starts *)

(* What it will write is new, and was read from files it does not write.     *)
Fresh(writes) ==
    \A i, j \in 1 .. Len(writes) :
        /\ writes[i].save = L!Mine
        /\ \A s \in writes[i].from : /\ s.name \in DOMAIN disk /\ disk[s.name].save = s.save
                                     /\ writes[j].name # s.name

LEMMA RunBasics ==
  ASSUME LineageInv, NEW writes \in Seq(FileSet), Fresh(writes), L!Run(writes)
  PROVE  /\ todo = << >> /\ todo' = writes /\ started' = started + 1 /\ started' = L!Mine
         /\ line' = line /\ disk' = disk /\ started \in Nat
         /\ LineageTyped' /\ Traced'
         /\ \A f \in DOMAIN disk : disk[f].save < started' /\ disk[f].save \in Nat
  <1>1. /\ todo = << >> /\ todo' = writes /\ started' = started + 1 /\ started' = L!Mine
        /\ line' = line /\ disk' = disk /\ started \in Nat
    BY DEF L!Run, L!Mine, LineageInv, LineageTyped
  <1>2. \A f \in DOMAIN disk : disk[f].save < started' /\ disk[f].save \in Nat
    BY <1>1 DEF LineageInv, LineageTyped, FileSet
  <1>3. LineageTyped'
    BY <1>1, <1>2 DEF LineageInv, LineageTyped, Fresh
  <1>4. \A f \in DOMAIN disk : L!CurrentUnlessOlder(disk[f]) = L!CurrentUnlessOlder(disk[f])'
    BY <1>1 DEF L!CurrentUnlessOlder
  <1>5. \A f \in DOMAIN disk' : L!CurrentUnlessOlder(disk[f])'
    BY <1>1, <1>4 DEF LineageInv, Traced
  <1>6. \A f \in DOMAIN disk' : disk'[f].save # started'
    BY <1>1, <1>2
  <1>7. \A i, j \in 1 .. Len(todo') : \A s \in todo'[i].from :
           /\ s.name \in DOMAIN disk' /\ disk'[s.name].save = s.save
           /\ todo'[j].name # s.name
    BY <1>1 DEF Fresh
  <1>8. Traced'
    BY <1>5, <1>6, <1>7 DEF Traced
  <1> QED
    BY <1>1, <1>2, <1>3, <1>8

Parted(writes) ==
    \A i \in 1 .. Len(writes) : /\ line # "ziln" => writes[i].name[2] # "meta"
                                /\ line # "dist" => writes[i].name[2] # "pred"

LEMMA RunKeeps ==
  ASSUME LineageInv, NEW writes \in Seq(FileSet), Fresh(writes), Parted(writes), L!Run(writes),
         line = "ziln" => ZilnInv', line = "dist" => DistInv'
  PROVE  LineageInv'
  <1>1. LineageTyped' /\ Traced' /\ line' = line /\ disk' = disk /\ todo' = writes
    BY RunBasics
  <1>2. Apart'
    BY <1>1 DEF Parted, Apart, LineageInv
  <1> QED
    BY <1>1, <1>2 DEF LineageInv

(* What is on the disk stays in order.                                       *)
LEMMA OrderedStays ==
  ASSUME disk' = disk, NEW where, NEW order, Ordered(where, order)
  PROVE  Ordered(where, order)'
  BY DEF Ordered, L!Has, L!SavedBy

LEMMA FileIs ==
  ASSUME LineageTyped, NEW where \in Places, NEW part \in PartNames,
         NEW content \in Nat, NEW from \in SUBSET SourceSet
  PROVE  /\ L!File(where, part, content, from) \in FileSet
         /\ L!File(where, part, content, from).name = <<where, part>>
         /\ L!File(where, part, content, from).save = L!Mine
         /\ L!File(where, part, content, from).content = content
         /\ L!File(where, part, content, from).from = from
  <1>1. L!Mine \in Nat
    BY DEF LineageTyped, L!Mine
  <1> QED
    BY <1>1 DEF L!File, FileSet

(* Sources as they are on the disk.                                          *)
There(from) == \A s \in from : s.name \in DOMAIN disk /\ disk[s.name].save = s.save

LEMMA ReadingIs ==
  ASSUME LineageTyped, NEW where \in Places, NEW parts \in SUBSET PartNames
  PROVE  /\ L!Reading(where, parts) \in SUBSET SourceSet
         /\ There(L!Reading(where, parts))
         /\ \A s \in L!Reading(where, parts) : s.name[1] = where /\ s.name[2] \in parts
  <1>1. ASSUME NEW s \in L!Reading(where, parts)
        PROVE  /\ s \in SourceSet /\ s.name \in DOMAIN disk /\ disk[s.name].save = s.save
               /\ s.name[1] = where /\ s.name[2] \in parts
    <2>1. PICK part \in parts : /\ L!Has(where, part)
                                /\ s = [name |-> <<where, part>>, save |-> L!SavedBy(where, part)]
      BY DEF L!Reading
    <2>2. <<where, part>> \in DOMAIN disk /\ L!SavedBy(where, part) = disk[<<where, part>>].save
      BY <2>1 DEF L!Has, L!SavedBy
    <2>3. disk[<<where, part>>].save \in Nat
      BY <2>2 DEF LineageTyped, FileSet
    <2> QED
      BY <2>1, <2>2, <2>3 DEF SourceSet
  <1> QED
    BY <1>1 DEF There

LEMMA ContentIs ==
  ASSUME LineageTyped, NEW where, NEW part, L!Has(where, part)
  PROVE  /\ L!Content(where, part) \in Nat /\ L!SavedBy(where, part) \in Nat
         /\ L!SavedBy(where, part) <= started
  BY DEF LineageTyped, L!Has, L!Content, L!SavedBy, FileSet

(* A script with one write, and one with two.                                *)
LEMMA OneFile ==
  ASSUME NEW f \in FileSet, f.save = L!Mine, There(f.from), \A s \in f.from : s.name # f.name
  PROVE  <<f>> \in Seq(FileSet) /\ Fresh(<<f>>) /\ Len(<<f>>) = 1 /\ <<f>>[1] = f
  BY DEF Fresh, There

LEMMA TwoFiles ==
  ASSUME NEW f \in FileSet, f.save = L!Mine, There(f.from),
         NEW g \in FileSet, g.save = L!Mine, There(g.from),
         \A s \in f.from \cup g.from : s.name # f.name /\ s.name # g.name
  PROVE  /\ <<f, g>> \in Seq(FileSet) /\ Fresh(<<f, g>>) /\ Len(<<f, g>>) = 2
         /\ <<f, g>>[1] = f /\ <<f, g>>[2] = g
  <1> DEFINE w == <<f, g>>
  <1>1. w \in Seq(FileSet) /\ Len(w) = 2 /\ w[1] = f /\ w[2] = g
    OBVIOUS
  <1>2. \A i \in 1 .. Len(w) : w[i] = f \/ w[i] = g
    BY <1>1
  <1> HIDE DEF w
  <1>3. Fresh(w)
    BY <1>1, <1>2 DEF Fresh, There
  <1> QED
    BY <1>1, <1>3 DEF w

(* A script of the classifiers, or one that writes nothing but a report.     *)
LEMMA BinaryRun ==
  ASSUME LineageInv, line = "binary", NEW part \in {"model", "threshold", "platt", "report"},
         NEW content \in Nat, NEW parts \in SUBSET {"model", "threshold"}, part \notin parts,
         L!Run(<<L!File("binary", part, content, L!Reading("binary", parts))>>)
  PROVE  LineageInv'
  <1> DEFINE from == L!Reading("binary", parts)
             f == L!File("binary", part, content, from)
  <1>1. LineageTyped /\ "binary" \in Places /\ part \in PartNames /\ parts \in SUBSET PartNames
    BY DEF LineageInv, Places, PartNames
  <1>2. /\ from \in SUBSET SourceSet /\ There(from)
        /\ \A s \in from : s.name[2] \in parts
    BY <1>1, ReadingIs
  <1>3. L!Run(<<f>>)
    OBVIOUS
  <1> HIDE DEF from
  <1>4. /\ f \in FileSet /\ f.name = <<"binary", part>> /\ f.save = L!Mine /\ f.from = from
    BY <1>1, <1>2, FileIs
  <1> HIDE DEF f
  <1>5. \A s \in f.from : s.name # f.name
    BY <1>2, <1>4
  <1>6. <<f>> \in Seq(FileSet) /\ Fresh(<<f>>) /\ Len(<<f>>) = 1 /\ <<f>>[1] = f
    BY <1>2, <1>4, <1>5, OneFile
  <1> DEFINE w == <<f>>
  <1>7. Parted(w)
    BY <1>4, <1>6 DEF Parted
  <1>8. w \in Seq(FileSet) /\ Fresh(w) /\ L!Run(w)
    BY <1>3, <1>6
  <1> HIDE DEF w
  <1> QED
    BY <1>7, <1>8, RunKeeps

LEMMA BinaryStep ==
  ASSUME LineageInv,
         \/ L!TrainLogistic \/ L!TrainTree \/ L!TrainMlp
         \/ L!SelectThreshold \/ L!CalibratePlatt \/ L!EvaluateProbabilities
  PROVE  LineageInv'
  <1>0. LineageTyped /\ L!Mine \in Nat
    BY DEF LineageInv, LineageTyped, L!Mine
  <1>1. CASE L!TrainBinary
    <2>1. L!Reading("binary", {}) = {}
      BY DEF L!Reading
    <2>2. L!Run(<<L!File("binary", "model", L!Mine, L!Reading("binary", {}))>>) /\ line = "binary"
      BY <1>1, <2>1 DEF L!TrainBinary
    <2> DEFINE parts == {}
    <2>3. /\ parts \in SUBSET {"model", "threshold"} /\ "model" \notin parts
          /\ L!Run(<<L!File("binary", "model", L!Mine, L!Reading("binary", parts))>>)
      BY <2>2
    <2> HIDE DEF parts
    <2>4. PICK n \in Nat : n = L!Mine
      BY <1>0
    <2>5. L!Run(<<L!File("binary", "model", n, L!Reading("binary", parts))>>)
      BY <2>3, <2>4
    <2> QED
      BY <2>2, <2>3, <2>5, BinaryRun
  <1>2. ASSUME NEW part \in {"threshold", "platt"}, line = "binary", L!Whole("binary", "model"),
               L!Run(<<L!OfModel(part)>>)
        PROVE  LineageInv'
    <2>1. L!Content("binary", "model") \in Nat
      BY <1>0, <1>2, ContentIs DEF L!Whole
    <2>2. PICK n \in Nat : n = L!Content("binary", "model")
      BY <2>1
    <2>3. L!Run(<<L!File("binary", part, n, L!Reading("binary", {"model"}))>>)
      BY <1>2, <2>2 DEF L!OfModel
    <2> QED
      BY <1>2, <2>3, BinaryRun
  <1>3. CASE L!EvaluateProbabilities
    <2>1. /\ L!Content("binary", "model") \in Nat /\ line = "binary"
          /\ L!Run(<<L!File("binary", "report", L!Content("binary", "model"),
                            L!Reading("binary", {"model", "threshold"}))>>)
      BY <1>0, <1>3, ContentIs DEF L!EvaluateProbabilities, L!Whole
    <2>2. PICK n \in Nat : n = L!Content("binary", "model")
      BY <2>1
    <2>3. L!Run(<<L!File("binary", "report", n, L!Reading("binary", {"model", "threshold"}))>>)
      BY <2>1, <2>2
    <2> QED
      BY <2>1, <2>3, BinaryRun
  <1>4. L!TrainLogistic \/ L!TrainTree \/ L!TrainMlp => L!TrainBinary
    BY DEF L!TrainLogistic, L!TrainTree, L!TrainMlp
  <1>5. L!SelectThreshold \/ L!CalibratePlatt =>
          \E part \in {"threshold", "platt"} : /\ line = "binary" /\ L!Whole("binary", "model")
                                               /\ L!Run(<<L!OfModel(part)>>)
    BY DEF L!SelectThreshold, L!CalibratePlatt
  <1> QED
    BY <1>1, <1>2, <1>3, <1>4, <1>5

(* A save that starts: other files, then those of the order.                 *)
LEMMA SavingStarts ==
  ASSUME LineageInv, NEW where, NEW order, Len(order) \in Nat,
         \A k, i \in 1 .. Len(order) : order[k] = order[i] => k = i,
         NEW writes \in Seq(FileSet), Fresh(writes), L!Run(writes), Len(order) <= Len(writes),
         \A k \in 1 .. Len(order) :
             writes[Len(writes) - Len(order) + k].name = <<where, order[k]>>,
         \A i \in 1 .. Len(writes) - Len(order), k \in 1 .. Len(order) :
             writes[i].name # <<where, order[k]>>
  PROVE  Saving(where, order)'
  <1> DEFINE m == Len(order)
             n == Len(writes)
  <1>0. m \in Nat /\ n \in Nat /\ m <= n
    OBVIOUS
  <1>1. /\ todo' = writes /\ disk' = disk
        /\ \A f \in DOMAIN disk : disk[f].save < started'
    BY RunBasics
  <1>2. \A i \in 1 .. n, k \in 1 .. m : writes[i].name = <<where, order[k]>> => i = n - m + k
    <2>1. SUFFICES ASSUME NEW i \in 1 .. n, NEW k \in 1 .. m, writes[i].name = <<where, order[k]>>
                   PROVE  i = n - m + k
      OBVIOUS
    <2>2. i > n - m
      <3>1. i \notin 1 .. n - m
        BY <2>1
      <3> HIDE DEF m, n
      <3> QED
        BY <1>0, <2>1, <3>1
    <2>3. i - (n - m) \in 1 .. m /\ i = n - m + (i - (n - m))
      BY <1>0, <2>2
    <2>4. writes[i].name = <<where, order[i - (n - m)]>>
      BY <2>3
    <2>5. order[k] = order[i - (n - m)]
      BY <2>1, <2>4
    <2> QED
      BY <1>0, <2>3, <2>5
  <1>3. \A k \in 1 .. m : L!Has(where, order[k])' => L!SavedBy(where, order[k])' < started'
    BY <1>1 DEF L!Has, L!SavedBy
  <1>4. \A k \in 1 .. m : writes[n - m + k].name = <<where, order[k]>>
    OBVIOUS
  <1>5. \A k \in 1 .. m : ~(k <= m - n)
    BY <1>0
  <1>6. Len(todo') = n
    BY <1>1
  <1> HIDE DEF m, n
  <1> DEFINE mm == Len(order)
  <1>7. mm = m
    BY DEF m
  <1> QED
    BY <1>1, <1>2, <1>3, <1>4, <1>5, <1>6, <1>7 DEF Saving

(* What a script of the ZILN line has to keep of the files to come.          *)
Coming(writes) ==
    /\ \A i \in 1 .. Len(writes) :
          /\ writes[i].name[2] # "pred"
          /\ writes[i].name = <<"work", "oof">> => writes[i].content = L!Mine
          /\ writes[i].name[2] = "location" =>
                /\ writes[i].content <= L!Mine
                /\ \/ \E j \in 1 .. i - 1 : writes[j].name = <<"work", "oof">>
                   \/ L!Has("work", "oof") => writes[i].content <= L!Content("work", "oof")
    /\ \A i, j \in 1 .. Len(writes) :
          writes[i].name[2] = "scale" /\ writes[j].name[1] = writes[i].name[1] =>
                /\ writes[j].name[2] = "meta" => writes[i].content = writes[j].content
                /\ writes[j].name[2] = "location" => writes[j].content <= writes[i].content

LEMMA ZilnRun ==
  ASSUME LineageInv, line = "ziln", NEW writes \in Seq(FileSet), Fresh(writes), L!Run(writes),
         Coming(writes),
         \A d \in Dirs : Untouched(d, L!Parts)' \/ Saving(d, L!Parts)'
  PROVE  LineageInv'
  <1>1. /\ todo = << >> /\ todo' = writes /\ started' = started + 1 /\ started' = L!Mine
        /\ line' = line /\ disk' = disk /\ started \in Nat /\ Len(todo) = 0
        /\ \A f \in DOMAIN disk : disk[f].save < started' /\ disk[f].save \in Nat
    BY RunBasics
  <1>2. ZilnInv
    BY DEF LineageInv
  <1>3. Parted(writes)
    BY DEF Coming, Parted
  <1>4. Residuals'
    <2>1. ASSUME NEW d \in Dirs, L!Has(d, "location")'
          PROVE  /\ L!Content(d, "location")' <= started'
                 /\ L!Has("work", "oof")' => L!Content(d, "location")' <= L!Content("work", "oof")'
      <3>1. L!Has(d, "location") /\ L!Content(d, "location")' = L!Content(d, "location")
        BY <1>1, <2>1 DEF L!Has, L!Content
      <3>2. L!Content(d, "location") <= started /\ L!Content(d, "location") \in Nat
        BY <1>2, <3>1, ContentIs DEF ZilnInv, Residuals, LineageInv
      <3>3. L!Has("work", "oof") => L!Content(d, "location") <= L!Content("work", "oof")
        BY <1>2, <3>1 DEF ZilnInv, Residuals
      <3>4. /\ L!Has("work", "oof")' = L!Has("work", "oof")
            /\ L!Content("work", "oof")' = L!Content("work", "oof")
        BY <1>1 DEF L!Has, L!Content
      <3> QED
        BY <1>1, <3>1, <3>2, <3>3, <3>4
    <2>2. /\ L!Has("work", "oof")' = L!Has("work", "oof")
          /\ L!Content("work", "oof")' = L!Content("work", "oof")
      BY <1>1 DEF L!Has, L!Content
    <2>3. ASSUME NEW i \in 1 .. Len(todo'), todo'[i].name[2] = "location"
          PROVE  /\ todo'[i].content <= started'
                 /\ \/ \E j \in 1 .. i - 1 : todo'[j].name = <<"work", "oof">>
                    \/ L!Has("work", "oof")' => todo'[i].content <= L!Content("work", "oof")'
      BY <1>1, <2>2, <2>3 DEF Coming
    <2>4. \A i \in 1 .. Len(todo') :
             todo'[i].name = <<"work", "oof">> => todo'[i].content = started'
      BY <1>1 DEF Coming
    <2> QED
      BY <2>1, <2>3, <2>4 DEF Residuals
  <1>5. ASSUME NEW d \in Dirs PROVE InTurn(d, L!Parts)'
    <2>1. Ordered(d, L!Parts)'
      <3>1. Ordered(d, L!Parts)
        BY <1>2 DEF ZilnInv, InTurn
      <3> QED
        BY <1>1, <3>1, OrderedStays
    <2> QED
      BY <2>1 DEF InTurn
  <1>6. ASSUME NEW d \in Dirs PROVE Agree(d)'
    <2>1. SUFFICES ASSUME NEW x, NEW z, Held(x, <<d, "scale">>)', x.save = z.save
                   PROVE  /\ Held(z, <<d, "meta">>)' => x.content = z.content
                          /\ Held(z, <<d, "location">>)' => z.content <= x.content
      BY DEF Agree
    <2>2. ASSUME NEW u, NEW name, Held(u, name)'
          PROVE  \/ Held(u, name) /\ u.save < started'
                 \/ \E i \in 1 .. Len(writes) : /\ writes[i].name = name /\ u = writes[i]
                                                /\ u.save = started'
      <3>1. CASE name \in DOMAIN disk' /\ u = disk'[name]
        BY <1>1, <3>1 DEF Held
      <3>2. CASE \E i \in 1 .. Len(todo') : todo'[i].name = name /\ u = todo'[i]
        BY <1>1, <3>2 DEF Fresh
      <3> QED
        BY <2>2, <3>1, <3>2 DEF Held
    <2>3. \A u, name : Held(u, name) => u.save \in Nat
      BY <1>1 DEF Held
    <2>4. CASE Held(x, <<d, "scale">>) /\ x.save < started'
      <3>1. \A name : Held(z, name)' => Held(z, name)
        BY <1>1, <2>1, <2>2, <2>3, <2>4
      <3>2. Agree(d)
        BY <1>2 DEF ZilnInv
      <3> QED
        BY <2>1, <2>4, <3>1, <3>2 DEF Agree
    <2>5. CASE \E i \in 1 .. Len(writes) : /\ writes[i].name = <<d, "scale">> /\ x = writes[i]
                                           /\ x.save = started'
      <3>1. PICK i \in 1 .. Len(writes) : writes[i].name = <<d, "scale">> /\ x = writes[i]
                                          /\ x.save = started'
        BY <2>5
      <3>2. ASSUME NEW name, Held(z, name)'
            PROVE  \E j \in 1 .. Len(writes) : writes[j].name = name /\ z = writes[j]
        BY <1>1, <2>1, <2>2, <2>3, <3>1, <3>2
      <3>3. writes[i].name[1] = d /\ writes[i].name[2] = "scale"
        BY <3>1
      <3>4. ASSUME Held(z, <<d, "meta">>)' PROVE x.content = z.content
        <4>1. PICK j \in 1 .. Len(writes) : writes[j].name = <<d, "meta">> /\ z = writes[j]
          BY <3>2, <3>4
        <4>2. writes[j].name[1] = d /\ writes[j].name[2] = "meta"
          BY <4>1
        <4> QED
          BY <3>1, <3>3, <4>1, <4>2 DEF Coming
      <3>5. ASSUME Held(z, <<d, "location">>)' PROVE z.content <= x.content
        <4>1. PICK j \in 1 .. Len(writes) : writes[j].name = <<d, "location">> /\ z = writes[j]
          BY <3>2, <3>5
        <4>2. writes[j].name[1] = d /\ writes[j].name[2] = "location"
          BY <4>1
        <4> QED
          BY <3>1, <3>3, <4>1, <4>2 DEF Coming
      <3> QED
        BY <3>4, <3>5
    <2> QED
      BY <2>1, <2>2, <2>4, <2>5
  <1>7. ZilnInv'
    BY <1>4, <1>5, <1>6 DEF ZilnInv
  <1> QED
    BY <1>1, <1>3, <1>7, RunKeeps

LEMMA LoadedParts ==
  ASSUME NEW d, L!Loads(d)
  PROVE  \A part \in {"prep", "occurrence", "location", "meta"} : L!Has(d, part)
  BY DEF L!Loads, L!Whole

(* The five files of a save.                                                 *)
LEMMA FiveFiles ==
  ASSUME NEW s, s = [k \in 1 .. 5 |-> s[k]], \A k \in 1 .. 5 : s[k] \in FileSet
  PROVE  s \in Seq(FileSet) /\ Len(s) = 5
  <1>1. s \in [1 .. 5 -> FileSet]
    OBVIOUS
  <1> QED
    BY <1>1

LEMMA FourFiles ==
  ASSUME NEW s, s = [k \in 1 .. 4 |-> s[k]], \A k \in 1 .. 4 : s[k] \in FileSet
  PROVE  s \in Seq(FileSet) /\ Len(s) = 4
  <1>1. s \in [1 .. 4 -> FileSet]
    OBVIOUS
  <1> QED
    BY <1>1

LEMMA Joined ==
  ASSUME NEW pre \in Seq(FileSet), NEW saved \in Seq(FileSet)
  PROVE  /\ pre \o saved \in Seq(FileSet)
         /\ Len(pre \o saved) = Len(pre) + Len(saved)
         /\ \A i \in 1 .. Len(pre) : (pre \o saved)[i] = pre[i]
         /\ \A k \in 1 .. Len(saved) : (pre \o saved)[Len(pre) + k] = saved[k]
  <1>1. Len(pre \o saved) = Len(pre) + Len(saved) /\ Len(pre) \in Nat /\ Len(saved) \in Nat
    OBVIOUS
  <1>2. \A i \in 1 .. Len(pre) : (pre \o saved)[i] = pre[i]
    BY <1>1
  <1>3. \A k \in 1 .. Len(saved) : (pre \o saved)[Len(pre) + k] = saved[k]
    BY <1>1
  <1> QED
    BY <1>1, <1>2, <1>3

(* A save of one directory leaves the others alone.                          *)
LEMMA OnlyOne ==
  ASSUME NEW d \in Dirs, NEW writes, todo' = writes,
         \A i \in 1 .. Len(writes) :
             writes[i].name[1] = d \/ writes[i].name[2] \in {"assembled", "oof"},
         Saving(d, L!Parts)'
  PROVE  \A e \in Dirs : Untouched(e, L!Parts)' \/ Saving(e, L!Parts)'
  <1>1. ASSUME NEW e \in Dirs, e # d PROVE Untouched(e, L!Parts)'
    <2>1. ASSUME NEW i \in 1 .. Len(writes), NEW k \in 1 .. 5
          PROVE  writes[i].name # <<e, L!Parts[k]>>
      <3>1. L!Parts[k] \notin {"assembled", "oof"}
        BY OrdersAre
      <3>2. ASSUME writes[i].name = <<e, L!Parts[k]>> PROVE FALSE
        <4>1. writes[i].name[1] = e /\ writes[i].name[2] = L!Parts[k]
          BY <3>2
        <4> QED
          BY <1>1, <3>1, <4>1
      <3> QED
        BY <3>2
    <2> QED
      BY <2>1, OrdersAre DEF Untouched
  <1> QED
    BY <1>1

LEMMA TrainStep ==
  ASSUME LineageInv, NEW d \in Dirs, L!TrainZiln(d)
  PROVE  LineageInv'
  <1> DEFINE saved == L!Save(d, LAMBDA part : L!Fitted(d, part))
             pre == L!WorkFiles
  <1>0. /\ LineageTyped /\ L!Mine \in Nat /\ started \in Nat /\ "work" \in Places /\ d \in Places
        /\ {} \in SUBSET SourceSet /\ "assembled" \in PartNames /\ "oof" \in PartNames
    BY DEF LineageInv, LineageTyped, L!Mine, Places, PartNames
  <1>1. PICK mine \in Nat : mine = L!Mine
    BY <1>0
  <1>2. ASSUME NEW part \in PartNames
        PROVE  /\ L!Fitted(d, part) \in FileSet /\ L!Fitted(d, part).name = <<d, part>>
               /\ L!Fitted(d, part).save = mine /\ L!Fitted(d, part).content = mine
               /\ L!Fitted(d, part).from = {}
    <2>1. L!Fitted(d, part) = L!File(d, part, mine, {})
      BY <1>1 DEF L!Fitted
    <2> QED
      BY <1>0, <1>1, <2>1, FileIs
  <1>3. saved = [k \in 1 .. 5 |-> L!Fitted(d, L!Parts[k])]
    BY DEF L!Save, L!SaveOrder
  <1>4. /\ saved \in Seq(FileSet) /\ Len(saved) = 5
        /\ \A k \in 1 .. 5 : /\ saved[k].name = <<d, L!Parts[k]>> /\ saved[k].from = {}
                             /\ saved[k].save = mine /\ saved[k].content = mine
    <2>1. \A k \in 1 .. 5 : saved[k] = L!Fitted(d, L!Parts[k]) /\ L!Parts[k] \in PartNames
      BY <1>3, OrdersAre
    <2>2. saved = [k \in 1 .. 5 |-> saved[k]]
      BY <1>3
    <2> HIDE DEF saved
    <2>3. \A k \in 1 .. 5 : /\ saved[k] \in FileSet
                            /\ saved[k].name = <<d, L!Parts[k]>> /\ saved[k].from = {}
                            /\ saved[k].save = mine /\ saved[k].content = mine
      BY <1>2, <2>1
    <2> QED
      BY <2>2, <2>3, FiveFiles
  <1>5. /\ pre \in Seq(FileSet) /\ Len(pre) = 2
        /\ pre[1].name = <<"work", "assembled">> /\ pre[2].name = <<"work", "oof">>
        /\ \A i \in 1 .. 2 : pre[i].save = mine /\ pre[i].content = mine /\ pre[i].from = {}
    <2> DEFINE a == L!File("work", "assembled", mine, {})
               b == L!File("work", "oof", mine, {})
    <2>1. /\ a \in FileSet /\ a.name = <<"work", "assembled">> /\ a.save = L!Mine
          /\ a.content = mine /\ a.from = {}
          /\ b \in FileSet /\ b.name = <<"work", "oof">> /\ b.save = L!Mine
          /\ b.content = mine /\ b.from = {}
      BY <1>0, FileIs
    <2>2. pre = <<a, b>>
      BY <1>1 DEF L!WorkFiles
    <2> HIDE DEF a, b, pre
    <2> QED
      BY <1>1, <2>1, <2>2
  <1>6. line = "ziln" /\ L!Run(pre \o saved)
    BY DEF L!TrainZiln
  <1> HIDE DEF saved, pre
  <1> DEFINE w == pre \o saved
  <1>7. /\ w \in Seq(FileSet) /\ Len(w) = 7 /\ \A i \in 1 .. 2 : w[i] = pre[i]
        /\ \A k \in 1 .. 5 : w[2 + k] = saved[k]
    <2>1. /\ w \in Seq(FileSet) /\ Len(w) = Len(pre) + Len(saved)
          /\ \A i \in 1 .. Len(pre) : w[i] = pre[i]
          /\ \A k \in 1 .. Len(saved) : w[Len(pre) + k] = saved[k]
      BY <1>4, <1>5, Joined
    <2> HIDE DEF w
    <2> QED
      BY <1>4, <1>5, <2>1
  <1>8. line = "ziln" /\ L!Run(w)
    BY <1>6
  <1> HIDE DEF w
  <1>9. /\ w[1].name = <<"work", "assembled">> /\ w[2].name = <<"work", "oof">>
        /\ \A k \in 1 .. 5 : w[2 + k].name = <<d, L!Parts[k]>>
        /\ \A i \in 1 .. 7 : /\ i \in 1 .. 2 \/ (i - 2 \in 1 .. 5 /\ i = 2 + (i - 2))
                             /\ w[i].save = mine /\ w[i].content = mine /\ w[i].from = {}
    <2>1. \A i \in 1 .. 7 : i \in 1 .. 2 \/ (i - 2 \in 1 .. 5 /\ i = 2 + (i - 2))
      OBVIOUS
    <2> QED
      BY <1>4, <1>5, <1>7, <2>1
  <1>10. Fresh(w)
    BY <1>1, <1>7, <1>9 DEF Fresh
  <1>11. \A i \in 1 .. 7 :
            \/ i = 1 /\ w[i].name[2] = "assembled"
            \/ i = 2 /\ w[i].name[2] = "oof"
            \/ \E k \in 1 .. 5 : i = 2 + k /\ w[i].name[1] = d /\ w[i].name[2] = L!Parts[k]
    BY <1>9
  <1>12. \A k \in 1 .. 5 : L!Parts[k] \notin {"pred", "oof", "assembled"}
    BY OrdersAre
  <1>13. Coming(w)
    <2>1. \A i \in 1 .. 7 : w[i].name[2] # "pred"
      BY <1>11, <1>12
    <2>2. \A i \in 1 .. 7 : w[i].name[2] = "location" =>
              \E j \in 1 .. i - 1 : w[j].name = <<"work", "oof">>
      <3>1. SUFFICES ASSUME NEW i \in 1 .. 7, w[i].name[2] = "location" PROVE 2 \in 1 .. i - 1
        BY <1>9
      <3>2. i # 1 /\ i # 2
        BY <1>9, <3>1
      <3> QED
        BY <3>2
    <2>3. \A i \in 1 .. 7 : w[i].content = mine /\ mine <= L!Mine
      BY <1>1, <1>9
    <2> QED
      BY <1>1, <1>7, <2>1, <2>2, <2>3 DEF Coming
  <1>14. Saving(d, L!Parts)'
    <2>1. /\ Len(L!Parts) = 5 /\ \A k, i \in 1 .. 5 : L!Parts[k] = L!Parts[i] => k = i
      BY OrdersAre
    <2>2. \A k \in 1 .. Len(L!Parts) : w[Len(w) - Len(L!Parts) + k].name = <<d, L!Parts[k]>>
      BY <1>7, <1>9, <2>1
    <2>3. \A i \in 1 .. Len(w) - Len(L!Parts), k \in 1 .. Len(L!Parts) :
              w[i].name # <<d, L!Parts[k]>>
      <3>1. \A i \in 1 .. 2 : w[i].name[2] \in {"assembled", "oof"}
        BY <1>9
      <3> QED
        BY <1>7, <1>12, <2>1, <3>1
    <2>4. Len(L!Parts) \in Nat /\ Len(L!Parts) <= Len(w)
      BY <1>7, <2>1
    <2>5. \A k, i \in 1 .. Len(L!Parts) : L!Parts[k] = L!Parts[i] => k = i
      BY <2>1
    <2> QED
      BY <1>7, <1>8, <1>10, <2>2, <2>3, <2>4, <2>5, SavingStarts
  <1>15. \A e \in Dirs : Untouched(e, L!Parts)' \/ Saving(e, L!Parts)'
    <2>1. \A i \in 1 .. Len(w) : w[i].name[1] = d \/ w[i].name[2] \in {"assembled", "oof"}
      BY <1>7, <1>11
    <2>2. todo' = w
      BY <1>8 DEF L!Run
    <2> QED
      BY <1>14, <2>1, <2>2, OnlyOne
  <1> QED
    BY <1>7, <1>8, <1>10, <1>13, <1>15, ZilnRun

LEMMA RefitStep ==
  ASSUME LineageInv, NEW d \in Dirs, L!RefitVariance(d)
  PROVE  LineageInv'
  <1> DEFINE saved == L!Save(d, LAMBDA part : L!Refitted(d, part))
             oof == L!Content("work", "oof")
             from == L!Reading("work", {"oof"})
  <1>0. /\ LineageTyped /\ L!Mine \in Nat /\ started \in Nat /\ "work" \in Places /\ d \in Places
        /\ {} \in SUBSET SourceSet /\ {"oof"} \in SUBSET PartNames /\ L!Mine = started + 1
    BY DEF LineageInv, LineageTyped, L!Mine, Places, PartNames
  <1>1. /\ line = "ziln" /\ L!Loads(d) /\ L!Has("work", "oof") /\ L!Run(saved)
    BY DEF L!RefitVariance
  <1>2. /\ oof \in Nat
        /\ from \in SUBSET SourceSet /\ There(from)
        /\ \A s \in from : s.name[2] = "oof"
    BY <1>0, <1>1, ContentIs, ReadingIs
  <1>3. PICK rest \in Nat, mine \in Nat, known \in SUBSET SourceSet :
            rest = oof /\ mine = L!Mine /\ known = from
    BY <1>0, <1>2
  <1>4. ASSUME NEW k \in 1 .. 5
        PROVE  /\ L!Refitted(d, L!Parts[k]) \in FileSet
               /\ L!Refitted(d, L!Parts[k]).name = <<d, L!Parts[k]>>
               /\ L!Refitted(d, L!Parts[k]).save = mine
               /\ L!Refitted(d, L!Parts[k]).from \in {{}, known}
               /\ k \in {4, 5} => L!Refitted(d, L!Parts[k]).content = rest
               /\ k = 3 => L!Refitted(d, L!Parts[k]).content = L!Content(d, "location")
    <2> DEFINE q == L!Parts[k]
    <2>0. /\ q \in PartNames /\ (k = 1 \/ k = 2 \/ k = 3 \/ k = 4 \/ k = 5)
          /\ k = 3 => q = "location"
      BY OrdersAre
    <2>1. CASE k \in {4, 5}
      <3>1. q \in {"scale", "meta"}
        BY <2>1, OrdersAre
      <3>2. L!Refitted(d, q) = L!File(d, q, rest, known)
        BY <1>3, <3>1 DEF L!Refitted, L!OfResiduals
      <3> HIDE DEF q
      <3>3. /\ L!Refitted(d, q) \in FileSet /\ L!Refitted(d, q).name = <<d, q>>
            /\ L!Refitted(d, q).save = L!Mine /\ L!Refitted(d, q).content = rest
            /\ L!Refitted(d, q).from = known
        BY <1>0, <2>0, <3>2, FileIs
      <3> QED
        BY <1>3, <2>1, <3>3 DEF q
    <2>2. CASE k \notin {4, 5}
      <3>1. q \notin {"scale", "meta"} /\ q \in {"prep", "occurrence", "location"}
        BY <2>0, <2>2, OrdersAre
      <3> HIDE DEF q
      <3>2. L!Has(d, q)
        BY <1>1, <3>1, LoadedParts
      <3>3. L!Content(d, q) \in Nat
        BY <1>0, <3>2, ContentIs
      <3>4. PICK n \in Nat : n = L!Content(d, q)
        BY <3>3
      <3>5. L!Refitted(d, q) = L!File(d, q, n, {})
        BY <3>1, <3>4 DEF L!Refitted
      <3>6. /\ L!Refitted(d, q) \in FileSet /\ L!Refitted(d, q).name = <<d, q>>
            /\ L!Refitted(d, q).save = L!Mine /\ L!Refitted(d, q).content = n
            /\ L!Refitted(d, q).from = {}
        BY <1>0, <2>0, <3>5, FileIs
      <3> QED
        BY <1>3, <2>0, <2>2, <3>4, <3>6 DEF q
    <2> QED
      BY <2>1, <2>2
  <1>5. saved = [k \in 1 .. 5 |-> L!Refitted(d, L!Parts[k])]
    BY DEF L!Save, L!SaveOrder
  <1>6. /\ saved \in Seq(FileSet) /\ Len(saved) = 5
        /\ \A k \in 1 .. 5 : /\ saved[k].name = <<d, L!Parts[k]>> /\ saved[k].save = mine
                             /\ saved[k].from \in {{}, known}
                             /\ k \in {4, 5} => saved[k].content = rest
                             /\ k = 3 => saved[k].content = L!Content(d, "location")
    <2>1. /\ \A k \in 1 .. 5 : saved[k] = L!Refitted(d, L!Parts[k])
          /\ saved = [k \in 1 .. 5 |-> saved[k]]
      BY <1>5
    <2> HIDE DEF saved
    <2>2. \A k \in 1 .. 5 : saved[k] \in FileSet
      BY <1>4, <2>1
    <2>3. saved \in Seq(FileSet) /\ Len(saved) = 5
      BY <2>1, <2>2, FiveFiles
    <2>4. ASSUME NEW k \in 1 .. 5
          PROVE  /\ saved[k].name = <<d, L!Parts[k]>> /\ saved[k].save = mine
                 /\ saved[k].from \in {{}, known}
                 /\ k \in {4, 5} => saved[k].content = rest
                 /\ k = 3 => saved[k].content = L!Content(d, "location")
      BY <1>4, <2>1
    <2> QED
      BY <2>3, <2>4
  <1> HIDE DEF saved, oof, from
  <1>7. \A k \in 1 .. 5 :
            /\ saved[k].name[1] = d /\ saved[k].name[2] = L!Parts[k]
            /\ saved[k].name[2] \notin {"pred", "oof", "assembled"}
            /\ saved[k].name[2] = "location" => k = 3
            /\ saved[k].name[2] \in {"scale", "meta"} => k \in {4, 5}
    <2>1. \A k \in 1 .. 5 : L!Parts[k] \notin {"pred", "oof", "assembled"}
      BY OrdersAre
    <2>2. \A k \in 1 .. 5 : saved[k].name[1] = d /\ saved[k].name[2] = L!Parts[k]
      BY <1>6
    <2>3. \A k \in 1 .. 5 : /\ L!Parts[k] = "location" => k = 3
                            /\ L!Parts[k] \in {"scale", "meta"} => k \in {4, 5}
      BY OrdersAre
    <2> QED
      BY <2>1, <2>2, <2>3
  <1>8. Fresh(saved)
    <2>1. \A i \in 1 .. 5 : \A s \in saved[i].from :
             s.name[2] = "oof" /\ s.name \in DOMAIN disk /\ disk[s.name].save = s.save
      BY <1>2, <1>3, <1>6 DEF There
    <2>2. \A i, j \in 1 .. 5 : \A s \in saved[i].from : saved[j].name # s.name
      BY <1>7, <2>1
    <2> QED
      BY <1>3, <1>6, <2>1, <2>2 DEF Fresh
  <1>9. L!Content(d, "location") <= L!Content("work", "oof") /\ L!Content(d, "location") <= started
        /\ L!Content(d, "location") \in Nat
    <2>1. L!Has(d, "location") /\ Residuals
      BY <1>1, LoadedParts DEF LineageInv, ZilnInv
    <2> QED
      BY <1>0, <1>1, <2>1, ContentIs DEF Residuals
  <1>10. Coming(saved)
    <2>1. \A i \in 1 .. 5 : saved[i].name[2] = "location" =>
             saved[i].content <= L!Mine /\ saved[i].content <= L!Content("work", "oof")
      BY <1>0, <1>6, <1>7, <1>9
    <2>2. ASSUME NEW i \in 1 .. 5, NEW j \in 1 .. 5, saved[i].name[2] = "scale"
          PROVE  /\ saved[j].name[2] = "meta" => saved[i].content = saved[j].content
                 /\ saved[j].name[2] = "location" => saved[j].content <= saved[i].content
      BY <1>3, <1>6, <1>7, <1>9, <2>2 DEF oof
    <2>3. \A i \in 1 .. 5 : saved[i].name # <<"work", "oof">>
      BY <1>7
    <2> QED
      BY <1>6, <1>7, <2>1, <2>2, <2>3 DEF Coming
  <1>11. Saving(d, L!Parts)'
    <2>1. /\ Len(L!Parts) = 5 /\ \A k, i \in 1 .. 5 : L!Parts[k] = L!Parts[i] => k = i
      BY OrdersAre
    <2>2. \A k \in 1 .. Len(L!Parts) :
              saved[Len(saved) - Len(L!Parts) + k].name = <<d, L!Parts[k]>>
      BY <1>6, <2>1
    <2>3. Len(L!Parts) \in Nat /\ Len(L!Parts) <= Len(saved)
      BY <1>6, <2>1
    <2>4. \A i \in 1 .. Len(saved) - Len(L!Parts), k \in 1 .. Len(L!Parts) :
              saved[i].name # <<d, L!Parts[k]>>
      BY <1>6, <2>1
    <2>5. \A k, i \in 1 .. Len(L!Parts) : L!Parts[k] = L!Parts[i] => k = i
      BY <2>1
    <2>6. saved \in Seq(FileSet)
      BY <1>6
    <2> QED
      BY <1>1, <1>8, <2>2, <2>3, <2>4, <2>5, <2>6, SavingStarts
  <1>12. \A e \in Dirs : Untouched(e, L!Parts)' \/ Saving(e, L!Parts)'
    <2>1. todo' = saved
      BY <1>1 DEF L!Run
    <2>2. \A i \in 1 .. Len(saved) :
              saved[i].name[1] = d \/ saved[i].name[2] \in {"assembled", "oof"}
      BY <1>6, <1>7
    <2> QED
      BY <1>11, <2>1, <2>2, OnlyOne
  <1>13. saved \in Seq(FileSet)
    BY <1>6
  <1> QED
    BY <1>1, <1>8, <1>10, <1>12, <1>13, ZilnRun

(* A script that leaves the models and the residuals alone.                  *)
LEMMA ReportRun ==
  ASSUME LineageInv, line = "ziln", NEW writes \in Seq(FileSet), Fresh(writes), L!Run(writes),
         \A i \in 1 .. Len(writes) : writes[i].name[2] \in {"report", "scored"}
  PROVE  LineageInv'
  <1>1. Coming(writes)
    BY DEF Coming
  <1>2. ASSUME NEW d \in Dirs PROVE Untouched(d, L!Parts)'
    <2>1. ASSUME NEW i \in 1 .. Len(writes), NEW k \in 1 .. 5
          PROVE  writes[i].name # <<d, L!Parts[k]>>
      <3>1. L!Parts[k] \notin {"report", "scored"}
        BY OrdersAre
      <3>2. ASSUME writes[i].name = <<d, L!Parts[k]>> PROVE FALSE
        <4>1. writes[i].name[2] = L!Parts[k]
          BY <3>2
        <4> QED
          BY <3>1, <4>1
      <3> QED
        BY <3>2
    <2>2. todo' = writes
      BY DEF L!Run
    <2> QED
      BY <2>1, <2>2, OrdersAre DEF Untouched
  <1> QED
    BY <1>1, <1>2, ZilnRun

LEMMA EvaluateStep ==
  ASSUME LineageInv, NEW d \in Dirs, L!EvaluateZiln(d) \/ L!Diagnose(d)
  PROVE  LineageInv'
  <1>0. /\ LineageTyped /\ "work" \in Places /\ d \in Places
        /\ "report" \in PartNames /\ "scored" \in PartNames
        /\ {"prep", "occurrence", "location", "scale", "meta"} \in SUBSET PartNames
        /\ {"prep", "occurrence"} \in SUBSET PartNames /\ {"scored"} \in SUBSET PartNames
    BY DEF LineageInv, Places, PartNames
  <1>1. CASE L!EvaluateZiln(d)
    <2> DEFINE from == L!Loaded(d)
               f == L!File(d, "report", L!Content(d, "location"), from)
    <2>1. line = "ziln" /\ L!Run(<<f>>) /\ L!Has(d, "location")
      BY <1>1, LoadedParts DEF L!EvaluateZiln
    <2>2. /\ from \in SUBSET SourceSet /\ There(from)
          /\ \A s \in from : s.name[2] # "report"
      BY <1>0, ReadingIs DEF L!Loaded
    <2>3. PICK n \in Nat, known \in SUBSET SourceSet : n = L!Content(d, "location") /\ known = from
      BY <1>0, <2>1, <2>2, ContentIs
    <2>4. f = L!File(d, "report", n, known)
      BY <2>3
    <2> HIDE DEF f, from
    <2>5. f \in FileSet /\ f.name = <<d, "report">> /\ f.save = L!Mine /\ f.from = known
      BY <1>0, <2>4, FileIs
    <2>6. \A s \in f.from : s.name # f.name
      BY <2>2, <2>3, <2>5
    <2>7. <<f>> \in Seq(FileSet) /\ Fresh(<<f>>) /\ Len(<<f>>) = 1 /\ <<f>>[1] = f
      BY <2>2, <2>3, <2>5, <2>6, OneFile
    <2> DEFINE w == <<f>>
    <2>8. /\ w \in Seq(FileSet) /\ Fresh(w) /\ L!Run(w)
          /\ \A i \in 1 .. Len(w) : w[i].name[2] \in {"report", "scored"}
      BY <2>1, <2>5, <2>7
    <2> HIDE DEF w
    <2> QED
      BY <2>1, <2>8, ReportRun
  <1>2. CASE L!Diagnose(d) /\ L!Whole("work", "scored")
    <2> DEFINE from == L!Reading("work", {"scored"})
               f == L!File("work", "report", L!Content("work", "scored"), from)
    <2>1. line = "ziln" /\ L!Run(<<f>>) /\ L!Has("work", "scored")
      BY <1>2 DEF L!Diagnose, L!Whole
    <2>2. /\ from \in SUBSET SourceSet /\ There(from)
          /\ \A s \in from : s.name[2] # "report"
      BY <1>0, ReadingIs
    <2>3. PICK n \in Nat, known \in SUBSET SourceSet :
              n = L!Content("work", "scored") /\ known = from
      BY <1>0, <2>1, <2>2, ContentIs
    <2>4. f = L!File("work", "report", n, known)
      BY <2>3
    <2> HIDE DEF f, from
    <2>5. f \in FileSet /\ f.name = <<"work", "report">> /\ f.save = L!Mine /\ f.from = known
      BY <1>0, <2>4, FileIs
    <2>6. \A s \in f.from : s.name # f.name
      BY <2>2, <2>3, <2>5
    <2>7. <<f>> \in Seq(FileSet) /\ Fresh(<<f>>) /\ Len(<<f>>) = 1 /\ <<f>>[1] = f
      BY <2>2, <2>3, <2>5, <2>6, OneFile
    <2> DEFINE w == <<f>>
    <2>8. /\ w \in Seq(FileSet) /\ Fresh(w) /\ L!Run(w)
          /\ \A i \in 1 .. Len(w) : w[i].name[2] \in {"report", "scored"}
      BY <2>1, <2>5, <2>7
    <2> HIDE DEF w
    <2> QED
      BY <2>1, <2>8, ReportRun
  <1>3. CASE L!Diagnose(d) /\ ~L!Whole("work", "scored")
    <2> DEFINE from == L!Reading(d, {"prep", "occurrence"})
               f == L!Scored(d)
               g == [L!Scored(d) EXCEPT !.name = <<"work", "report">>]
    <2>1. line = "ziln" /\ L!Run(<<f, g>>) /\ L!Has(d, "occurrence")
      BY <1>3, LoadedParts DEF L!Diagnose
    <2>2. /\ from \in SUBSET SourceSet /\ There(from)
          /\ \A s \in from : s.name[2] \notin {"report", "scored"}
      BY <1>0, ReadingIs
    <2>3. PICK n \in Nat, known \in SUBSET SourceSet :
              n = L!Content(d, "occurrence") /\ known = from
      BY <1>0, <2>1, <2>2, ContentIs
    <2>4. f = L!File("work", "scored", n, known)
      BY <2>3 DEF L!Scored
    <2>5. g = [f EXCEPT !.name = <<"work", "report">>]
      OBVIOUS
    <2> HIDE DEF f, g, from
    <2>6. f \in FileSet /\ f.name = <<"work", "scored">> /\ f.save = L!Mine /\ f.from = known
      BY <1>0, <2>4, FileIs
    <2>7. g \in FileSet /\ g.name = <<"work", "report">> /\ g.save = L!Mine /\ g.from = known
      BY <1>0, <2>5, <2>6 DEF FileSet
    <2>8. \A s \in f.from \cup g.from : s.name # f.name /\ s.name # g.name
      BY <2>2, <2>3, <2>6, <2>7
    <2>9. /\ <<f, g>> \in Seq(FileSet) /\ Fresh(<<f, g>>) /\ Len(<<f, g>>) = 2
          /\ <<f, g>>[1] = f /\ <<f, g>>[2] = g
      BY <2>2, <2>3, <2>6, <2>7, <2>8, TwoFiles
    <2> DEFINE w == <<f, g>>
    <2>10. /\ w \in Seq(FileSet) /\ Fresh(w) /\ L!Run(w) /\ Len(w) = 2
           /\ \A i \in 1 .. 2 : w[i].name[2] \in {"report", "scored"}
      BY <2>1, <2>6, <2>7, <2>9
    <2> HIDE DEF w
    <2> QED
      BY <2>1, <2>10, ReportRun
  <1> QED
    BY <1>1, <1>2, <1>3

-----------------------------------------------------------------------------
(* The distributional experiment *)

LEMMA DistRun ==
  ASSUME LineageInv, line = "dist", NEW writes \in Seq(FileSet), Fresh(writes), L!Run(writes),
         \A i \in 1 .. Len(writes) :
             /\ writes[i].name[2] # "meta"
             /\ writes[i].name[2] = "pred" => YearsInOrder(writes[i].from),
         Untouched("tables", L!Years)' \/ Saving("tables", L!Years)'
  PROVE  LineageInv'
  <1>1. /\ todo' = writes /\ line' = line /\ disk' = disk
    BY RunBasics
  <1>2. Parted(writes)
    BY DEF Parted
  <1>3. InTurn("tables", L!Years)'
    <2>1. Ordered("tables", L!Years)
      BY DEF LineageInv, DistInv, InTurn
    <2>2. Ordered("tables", L!Years)'
      BY <1>1, <2>1, OrderedStays
    <2> QED
      BY <2>2 DEF InTurn
  <1>4. DistInv'
    <2>1. \A from : YearsInOrder(from)' = YearsInOrder(from)
      BY DEF YearsInOrder
    <2>2. \A f \in DOMAIN disk' : f[2] = "pred" => YearsInOrder(disk'[f].from)
      BY <1>1 DEF LineageInv, DistInv
    <2>3. \A i \in 1 .. Len(todo') : todo'[i].name[2] = "pred" => YearsInOrder(todo'[i].from)
      BY <1>1
    <2> QED
      BY <1>3, <2>1, <2>2, <2>3 DEF DistInv
  <1> QED
    BY <1>1, <1>2, <1>4, RunKeeps

LEMMA OtherTables ==
  ASSUME NEW writes, todo' = writes,
         \A i \in 1 .. Len(writes) : writes[i].name[2] \notin L!YearSet
  PROVE  Untouched("tables", L!Years)'
  <1>1. ASSUME NEW i \in 1 .. Len(writes), NEW k \in 1 .. 4
        PROVE  writes[i].name # <<"tables", L!Years[k]>>
    <2>1. L!Years[k] \in L!YearSet
      BY OrdersAre
    <2>2. ASSUME writes[i].name = <<"tables", L!Years[k]>> PROVE FALSE
      <3>1. writes[i].name[2] = L!Years[k]
        BY <2>2
      <3> QED
        BY <2>1, <3>1
    <2> QED
      BY <2>2
  <1> QED
    BY <1>1, OrdersAre DEF Untouched

LEMMA RebuildStep ==
  ASSUME LineageInv, L!Rebuild
  PROVE  LineageInv'
  <1>0. LineageTyped /\ "tables" \in Places /\ {} \in SUBSET SourceSet
    BY DEF LineageInv, Places
  <1>1. PICK rows \in {1, 2} : L!Run([i \in 1 .. 4 |-> L!File("tables", L!Years[i], rows, {})])
    BY DEF L!Rebuild
  <1> DEFINE w == [i \in 1 .. 4 |-> L!File("tables", L!Years[i], rows, {})]
  <1>2. ASSUME NEW k \in 1 .. 4
        PROVE  /\ w[k] \in FileSet /\ w[k].name = <<"tables", L!Years[k]>>
               /\ w[k].save = L!Mine /\ w[k].from = {}
    <2>1. L!Years[k] \in PartNames /\ rows \in Nat
      BY OrdersAre DEF PartNames
    <2>2. w[k] = L!File("tables", L!Years[k], rows, {})
      OBVIOUS
    <2> HIDE DEF w
    <2> QED
      BY <1>0, <2>1, <2>2, FileIs
  <1>3. w \in Seq(FileSet) /\ Len(w) = 4
    <2>1. w = [k \in 1 .. 4 |-> w[k]]
      OBVIOUS
    <2> HIDE DEF w
    <2>2. \A k \in 1 .. 4 : w[k] \in FileSet
      BY <1>2
    <2> QED
      BY <2>1, <2>2, FourFiles
  <1>4. line = "dist" /\ L!Run(w)
    BY <1>1 DEF L!Rebuild
  <1> HIDE DEF w
  <1>5. Fresh(w)
    BY <1>2, <1>3 DEF Fresh
  <1>6. \A k \in 1 .. 4 : L!Years[k] \notin {"meta", "pred"}
    BY OrdersAre DEF L!YearSet
  <1>7. \A i \in 1 .. Len(w) : /\ w[i].name[2] # "meta"
                               /\ w[i].name[2] = "pred" => YearsInOrder(w[i].from)
    BY <1>2, <1>3, <1>6
  <1>8. Saving("tables", L!Years)'
    <2>1. /\ Len(L!Years) = 4 /\ \A k, i \in 1 .. 4 : L!Years[k] = L!Years[i] => k = i
      BY OrdersAre
    <2>2. \A k \in 1 .. Len(L!Years) :
              w[Len(w) - Len(L!Years) + k].name = <<"tables", L!Years[k]>>
      BY <1>2, <1>3, <2>1
    <2>3. Len(L!Years) \in Nat /\ Len(L!Years) <= Len(w)
      BY <1>3, <2>1
    <2>4. \A i \in 1 .. Len(w) - Len(L!Years), k \in 1 .. Len(L!Years) :
              w[i].name # <<"tables", L!Years[k]>>
      BY <1>3, <2>1
    <2>5. \A k, i \in 1 .. Len(L!Years) : L!Years[k] = L!Years[i] => k = i
      BY <2>1
    <2>6. w \in Seq(FileSet)
      BY <1>3
    <2> QED
      BY <1>4, <1>5, <2>2, <2>3, <2>4, <2>5, <2>6, SavingStarts
  <1>9. w \in Seq(FileSet)
    BY <1>3
  <1> QED
    BY <1>4, <1>5, <1>7, <1>8, <1>9, DistRun

(* What is read of the tables is in the order of the years.                  *)
LEMMA TablesInOrder ==
  ASSUME LineageInv, line = "dist", L!HasTables
  PROVE  YearsInOrder(L!Reading("tables", L!YearSet))
  <1>1. Ordered("tables", L!Years) /\ LineageTyped
    BY DEF LineageInv, DistInv, InTurn
  <1>2. SUFFICES ASSUME NEW i \in 1 .. 4, NEW j \in 1 .. 4, i <= j,
                        NEW r \in L!Reading("tables", L!YearSet),
                        NEW s \in L!Reading("tables", L!YearSet),
                        r.name[2] = L!Years[i], s.name[2] = L!Years[j]
                 PROVE  s.save <= r.save
    BY DEF YearsInOrder
  <1>3. ASSUME NEW u \in L!Reading("tables", L!YearSet)
        PROVE  /\ L!Has("tables", u.name[2]) /\ u.save = L!SavedBy("tables", u.name[2])
               /\ u.save \in Nat
    <2>1. PICK part \in L!YearSet :
              /\ L!Has("tables", part)
              /\ u = [name |-> <<"tables", part>>, save |-> L!SavedBy("tables", part)]
      BY DEF L!Reading
    <2>2. u.name[2] = part /\ u.save = L!SavedBy("tables", part)
      BY <2>1
    <2>3. u.save \in Nat
      BY <1>1, <2>1, <2>2, ContentIs
    <2> QED
      BY <2>1, <2>2, <2>3
  <1>4. /\ L!Has("tables", L!Years[i]) /\ r.save = L!SavedBy("tables", L!Years[i])
        /\ L!Has("tables", L!Years[j]) /\ s.save = L!SavedBy("tables", L!Years[j])
        /\ s.save \in Nat /\ r.save \in Nat
    BY <1>2, <1>3
  <1>5. CASE i = j
    BY <1>4, <1>5
  <1>6. CASE i < j
    BY <1>1, <1>4, <1>6, OrdersAre DEF Ordered
  <1> QED
    BY <1>2, <1>5, <1>6

(* A file of the present tables.                                             *)
LEMMA OfTablesIs ==
  ASSUME LineageInv, line = "dist", L!HasTables, NEW where \in Places,
         NEW part \in {"model", "pred"}
  PROVE  /\ L!OfTables(where, part) \in FileSet
         /\ L!OfTables(where, part).name = <<where, part>>
         /\ L!OfTables(where, part).save = L!Mine
         /\ L!OfTables(where, part).from = L!Reading("tables", L!YearSet)
         /\ There(L!Reading("tables", L!YearSet))
         /\ \A s \in L!Reading("tables", L!YearSet) : s.name[2] \in L!YearSet
         /\ L!Content("tables", "2024") \in Nat
         /\ L!Reading("tables", L!YearSet) \in SUBSET SourceSet
  <1>1. /\ LineageTyped /\ "tables" \in Places /\ part \in PartNames
        /\ L!YearSet \in SUBSET PartNames
    BY DEF LineageInv, Places, PartNames
  <1>2. L!Has("tables", "2024")
    BY DEF L!HasTables, L!Whole, L!YearSet
  <1>3. /\ L!Reading("tables", L!YearSet) \in SUBSET SourceSet
        /\ There(L!Reading("tables", L!YearSet))
        /\ \A s \in L!Reading("tables", L!YearSet) : s.name[2] \in L!YearSet
    BY <1>1, ReadingIs
  <1>4. L!Content("tables", "2024") \in Nat
    BY <1>1, <1>2, ContentIs
  <1>5. PICK n \in Nat, known \in SUBSET SourceSet :
            n = L!Content("tables", "2024") /\ known = L!Reading("tables", L!YearSet)
    BY <1>3, <1>4
  <1>6. L!OfTables(where, part) = L!File(where, part, n, known)
    BY <1>5 DEF L!OfTables
  <1> QED
    BY <1>1, <1>3, <1>4, <1>5, <1>6, FileIs

LEMMA FamilyStep ==
  ASSUME LineageInv, NEW family \in Families, L!TrainFamily(family)
  PROVE  LineageInv'
  <1> DEFINE f == L!OfTables(family, "model")
             g == L!OfTables(family, "pred")
             from == L!Reading("tables", L!YearSet)
  <1>1. line = "dist" /\ L!HasTables /\ L!Run(<<f, g>>) /\ family \in Places
    BY DEF L!TrainFamily, Places
  <1>2. /\ f \in FileSet /\ f.name = <<family, "model">> /\ f.save = L!Mine /\ f.from = from
        /\ g \in FileSet /\ g.name = <<family, "pred">> /\ g.save = L!Mine /\ g.from = from
        /\ There(from) /\ \A s \in from : s.name[2] \in L!YearSet
    BY <1>1, OfTablesIs
  <1>3. YearsInOrder(from)
    BY <1>1, TablesInOrder
  <1> HIDE DEF f, g, from
  <1>4. \A s \in f.from \cup g.from : s.name # f.name /\ s.name # g.name
    BY <1>2 DEF L!YearSet
  <1>5. /\ <<f, g>> \in Seq(FileSet) /\ Fresh(<<f, g>>) /\ Len(<<f, g>>) = 2
        /\ <<f, g>>[1] = f /\ <<f, g>>[2] = g
    BY <1>2, <1>4, TwoFiles
  <1> DEFINE w == <<f, g>>
  <1>6. /\ w \in Seq(FileSet) /\ Fresh(w) /\ L!Run(w) /\ Len(w) = 2
        /\ w[1].name[2] = "model" /\ w[2].name[2] = "pred" /\ w[2].from = from
    BY <1>1, <1>2, <1>5
  <1> HIDE DEF w
  <1>7. \A i \in 1 .. Len(w) : i = 1 \/ i = 2
    BY <1>6
  <1>8. \A i \in 1 .. Len(w) : /\ w[i].name[2] # "meta"
                               /\ w[i].name[2] = "pred" => YearsInOrder(w[i].from)
                               /\ w[i].name[2] \notin L!YearSet
    BY <1>3, <1>6, <1>7 DEF L!YearSet
  <1>9. todo' = w
    BY <1>6 DEF L!Run
  <1>10. Untouched("tables", L!Years)'
    BY <1>8, <1>9, OtherTables
  <1> QED
    BY <1>1, <1>6, <1>8, <1>10, DistRun

LEMMA BinnedStep ==
  ASSUME LineageInv, L!TrainBinned
  PROVE  LineageInv'
  <1> DEFINE f == L!OfTables("binned", "model")
             known == L!Reading("tables", L!YearSet) \cup L!Reading("ziln", {"pred"})
             g == L!File("binned", "comparison", L!Content("tables", "2024"), known)
  <1>1. /\ line = "dist" /\ L!HasTables /\ "binned" \in Places
        /\ LineageTyped /\ "comparison" \in PartNames /\ {"pred"} \in SUBSET PartNames
    BY DEF L!TrainBinned, Places, LineageInv, PartNames
  <1>2. \/ L!Run(<<f, g>>) /\ L!Whole("ziln", "pred")
        \/ L!Run(<<f>>)
    BY DEF L!TrainBinned
  <1>3. /\ f \in FileSet /\ f.name = <<"binned", "model">> /\ f.save = L!Mine
        /\ f.from = L!Reading("tables", L!YearSet) /\ There(f.from)
        /\ \A s \in f.from : s.name[2] \in L!YearSet
        /\ L!Content("tables", "2024") \in Nat
        /\ L!Reading("tables", L!YearSet) \in SUBSET SourceSet
    BY <1>1, OfTablesIs
  <1>4. CASE L!Run(<<f>>)
    <2> HIDE DEF f, g, known
    <2>1. \A s \in f.from : s.name # f.name
      BY <1>3 DEF L!YearSet
    <2>2. <<f>> \in Seq(FileSet) /\ Fresh(<<f>>) /\ Len(<<f>>) = 1 /\ <<f>>[1] = f
      BY <1>3, <2>1, OneFile
    <2> DEFINE w == <<f>>
    <2>3. /\ w \in Seq(FileSet) /\ Fresh(w) /\ L!Run(w)
          /\ \A i \in 1 .. Len(w) : w[i].name[2] = "model"
      BY <1>3, <1>4, <2>2
    <2> HIDE DEF w
    <2>4. todo' = w
      BY <2>3 DEF L!Run
    <2>5. Untouched("tables", L!Years)'
      BY <2>3, <2>4, OtherTables DEF L!YearSet
    <2> QED
      BY <1>1, <2>3, <2>5, DistRun
  <1>5. CASE L!Run(<<f, g>>) /\ L!Whole("ziln", "pred")
    <2>2. /\ L!Reading("ziln", {"pred"}) \in SUBSET SourceSet
          /\ There(L!Reading("ziln", {"pred"}))
          /\ \A s \in L!Reading("ziln", {"pred"}) : s.name[2] = "pred"
      <3>1. "ziln" \in Places
        BY DEF Places
      <3> QED
        BY <1>1, <3>1, ReadingIs
    <2>3. /\ known \in SUBSET SourceSet /\ There(known)
          /\ \A s \in known : s.name[2] \in L!YearSet \cup {"pred"}
      BY <1>3, <2>2 DEF There
    <2>4. PICK n \in Nat, fixed \in SUBSET SourceSet :
              n = L!Content("tables", "2024") /\ fixed = known
      BY <1>3, <2>3
    <2>5. g = L!File("binned", "comparison", n, fixed)
      BY <2>4
    <2> HIDE DEF f, g, known
    <2>6. /\ g \in FileSet /\ g.name = <<"binned", "comparison">> /\ g.save = L!Mine
          /\ g.from = known
      BY <1>1, <2>4, <2>5, FileIs
    <2>7. \A s \in f.from \cup g.from : s.name # f.name /\ s.name # g.name
      BY <1>3, <2>3, <2>6 DEF L!YearSet
    <2>8. /\ <<f, g>> \in Seq(FileSet) /\ Fresh(<<f, g>>) /\ Len(<<f, g>>) = 2
          /\ <<f, g>>[1] = f /\ <<f, g>>[2] = g
      BY <1>3, <2>3, <2>6, <2>7, TwoFiles
    <2> DEFINE w == <<f, g>>
    <2>9. /\ w \in Seq(FileSet) /\ Fresh(w) /\ L!Run(w) /\ Len(w) = 2
          /\ \A i \in 1 .. 2 : w[i].name[2] \in {"model", "comparison"}
      BY <1>3, <1>5, <2>6, <2>8
    <2> HIDE DEF w
    <2>10. todo' = w
      BY <2>9 DEF L!Run
    <2>11. Untouched("tables", L!Years)'
      BY <2>9, <2>10, OtherTables DEF L!YearSet
    <2> QED
      BY <1>1, <2>9, <2>11, DistRun
  <1> QED
    BY <1>2, <1>4, <1>5

LEMMA FamiliesStep ==
  ASSUME LineageInv, L!EvaluateFamilies
  PROVE  LineageInv'
  <1>0. /\ line = "dist" /\ LineageTyped /\ "results" \in Places /\ "report" \in PartNames
        /\ {"pred"} \in SUBSET PartNames
    BY DEF L!EvaluateFamilies, LineageInv, Places, PartNames
  <1>p. PICK S \in SUBSET {family \in Families : L!Whole(family, "pred")} :
            \E family \in S :
                L!Run(<<L!File("results", "report", L!Content(family, "pred"),
                               UNION {L!Reading(f, {"pred"}) : f \in S})>>)
    BY DEF L!EvaluateFamilies
  <1>1. PICK one \in S : L!Run(<<L!File("results", "report", L!Content(one, "pred"),
                                        UNION {L!Reading(f, {"pred"}) : f \in S})>>)
    BY <1>p
  <1> DEFINE from == UNION {L!Reading(f, {"pred"}) : f \in S}
             g == L!File("results", "report", L!Content(one, "pred"), from)
  <1>2. from \in SUBSET SourceSet /\ There(from) /\ \A s \in from : s.name[2] = "pred"
    <2>1. ASSUME NEW s \in from
          PROVE  /\ s \in SourceSet /\ s.name \in DOMAIN disk /\ disk[s.name].save = s.save
                 /\ s.name[2] = "pred"
      <3>1. PICK f \in S : s \in L!Reading(f, {"pred"})
        OBVIOUS
      <3>2. f \in Places
        BY DEF Places
      <3> QED
        BY <1>0, <3>1, <3>2, ReadingIs DEF There
    <2> QED
      BY <2>1 DEF There
  <1>3. L!Content(one, "pred") \in Nat
    BY <1>0, <1>1, ContentIs DEF L!Whole
  <1>4. PICK n \in Nat, fixed \in SUBSET SourceSet : n = L!Content(one, "pred") /\ fixed = from
    BY <1>2, <1>3
  <1>5. g = L!File("results", "report", n, fixed) /\ L!Run(<<g>>)
    BY <1>1, <1>4
  <1> HIDE DEF g, from
  <1>6. g \in FileSet /\ g.name = <<"results", "report">> /\ g.save = L!Mine /\ g.from = from
    BY <1>0, <1>4, <1>5, FileIs
  <1>7. \A s \in g.from : s.name # g.name
    BY <1>2, <1>6
  <1>8. <<g>> \in Seq(FileSet) /\ Fresh(<<g>>) /\ Len(<<g>>) = 1 /\ <<g>>[1] = g
    BY <1>2, <1>6, <1>7, OneFile
  <1> DEFINE w == <<g>>
  <1>9. /\ w \in Seq(FileSet) /\ Fresh(w) /\ L!Run(w)
        /\ \A i \in 1 .. Len(w) : w[i].name[2] = "report"
    BY <1>5, <1>6, <1>8
  <1> HIDE DEF w
  <1>10. todo' = w
    BY <1>9 DEF L!Run
  <1>11. Untouched("tables", L!Years)'
    BY <1>9, <1>10, OtherTables DEF L!YearSet
  <1> QED
    BY <1>0, <1>9, <1>11, DistRun

-----------------------------------------------------------------------------
(* A write, or a kill in one *)

(* The next file is written, whole or cut, or nothing is under its name; and *)
(* the script goes on or ends.                                               *)
OneWritten(h) ==
    \/ /\ DOMAIN disk' = DOMAIN disk \cup {h.name}
       /\ disk'[h.name].save = h.save /\ disk'[h.name].content = h.content
       /\ disk'[h.name].from = h.from /\ disk'[h.name] \in FileSet
    \/ DOMAIN disk' = DOMAIN disk \ {h.name}
    \/ DOMAIN disk' = DOMAIN disk /\ (h.name \in DOMAIN disk => disk'[h.name] = disk[h.name])

Step(h) ==
    /\ todo # << >> /\ h = Head(todo)
    /\ line' = line /\ started' = started
    /\ OneWritten(h)
    /\ \A f \in DOMAIN disk \ {h.name} : f \in DOMAIN disk' /\ disk'[f] = disk[f]
    /\ \/ todo' = << >>
       \/ /\ todo' = Tail(todo)
          /\ h.name \in DOMAIN disk' /\ disk'[h.name] = h

LEMMA WritesAreSteps ==
  ASSUME LineageInv, L!Write \/ L!Kill
  PROVE  \E h \in FileSet : Step(h)
  <1>1. todo # << >> /\ todo \in Seq(FileSet)
    BY DEF L!Write, L!Kill, LineageInv, LineageTyped
  <1>2. PICK h \in FileSet : h = Head(todo)
    BY <1>1
  <1>3. CASE L!Write
    <2>1. disk' = L!Put(h) /\ todo' = Tail(todo) /\ line' = line /\ started' = started
      BY <1>2, <1>3 DEF L!Write
    <2>2. /\ DOMAIN disk' = DOMAIN disk \cup {h.name} /\ disk'[h.name] = h
          /\ \A f \in DOMAIN disk \ {h.name} : disk'[f] = disk[f]
      BY <2>1 DEF L!Put
    <2> QED
      BY <1>1, <1>2, <2>1, <2>2 DEF Step, OneWritten
  <1>4. CASE L!Kill
    <2>1. todo' = << >> /\ line' = line /\ started' = started
      BY <1>4 DEF L!Kill
    <2>2. CASE disk' = disk
      BY <1>1, <1>2, <2>1, <2>2 DEF Step, OneWritten
    <2>3. CASE disk' = L!Put([h EXCEPT !.whole = FALSE])
      <3> DEFINE c == [h EXCEPT !.whole = FALSE]
      <3>1. /\ c \in FileSet /\ c.name = h.name /\ c.save = h.save /\ c.content = h.content
            /\ c.from = h.from
        BY DEF FileSet
      <3>2. disk' = L!Put(c)
        BY <2>3
      <3> HIDE DEF c
      <3>3. /\ DOMAIN disk' = DOMAIN disk \cup {h.name} /\ disk'[h.name] = c
            /\ \A f \in DOMAIN disk \ {h.name} : disk'[f] = disk[f]
        BY <3>1, <3>2 DEF L!Put
      <3> QED
        BY <1>1, <1>2, <2>1, <3>1, <3>3 DEF Step, OneWritten
    <2>4. CASE disk' = L!Without(h.name)
      <3>1. /\ DOMAIN disk' = DOMAIN disk \ {h.name}
            /\ \A f \in DOMAIN disk \ {h.name} : disk'[f] = disk[f]
        BY <2>4 DEF L!Without
      <3> QED
        BY <1>1, <1>2, <2>1, <3>1 DEF Step, OneWritten
    <2> QED
      BY <1>2, <1>4, <2>2, <2>3, <2>4 DEF L!Kill
  <1> QED
    BY <1>2, <1>3, <1>4

LEMMA StepBasics ==
  ASSUME LineageInv, NEW h \in FileSet, Step(h)
  PROVE  /\ Len(todo) \in Nat \ {0} /\ h = todo[1] /\ h.save = started /\ started \in Nat
         /\ started' = started /\ line' = line
         /\ \/ todo' = << >> /\ Len(todo') = 0
            \/ /\ Len(todo') = Len(todo) - 1
               /\ \A i \in 1 .. Len(todo') : todo'[i] = todo[i + 1] /\ i + 1 \in 1 .. Len(todo)
               /\ h.name \in DOMAIN disk' /\ disk'[h.name] = h
         /\ \A f \in DOMAIN disk' : \/ f \in DOMAIN disk /\ disk'[f] = disk[f]
                                    \/ /\ f = h.name /\ disk'[f].save = started
                                       /\ disk'[f].content = h.content /\ disk'[f].from = h.from
                                       /\ disk'[f] \in FileSet
         /\ \A f \in DOMAIN disk : f # h.name => f \in DOMAIN disk' /\ disk'[f] = disk[f]
         /\ LineageTyped'
  <1>1. /\ todo \in Seq(FileSet) /\ todo # << >> /\ h = Head(todo) /\ started \in Nat
        /\ \A i \in 1 .. Len(todo) : todo[i].save = started
    BY DEF LineageInv, LineageTyped, Step
  <1>2. /\ Len(todo) \in Nat \ {0} /\ h = todo[1] /\ 1 \in 1 .. Len(todo)
    BY <1>1
  <1>3. h.save = started
    BY <1>1, <1>2
  <1>4. \/ todo' = << >> /\ Len(todo') = 0
        \/ /\ Len(todo') = Len(todo) - 1 /\ todo' \in Seq(FileSet)
           /\ \A i \in 1 .. Len(todo') : todo'[i] = todo[i + 1] /\ i + 1 \in 1 .. Len(todo)
           /\ h.name \in DOMAIN disk' /\ disk'[h.name] = h
    <2>1. CASE todo' = << >>
      BY <2>1
    <2>2. CASE todo' = Tail(todo) /\ h.name \in DOMAIN disk' /\ disk'[h.name] = h
      <3>1. /\ Len(Tail(todo)) = Len(todo) - 1 /\ Tail(todo) \in Seq(FileSet)
            /\ \A i \in 1 .. Len(Tail(todo)) :
                  Tail(todo)[i] = todo[i + 1] /\ i + 1 \in 1 .. Len(todo)
        BY <1>1, <1>2
      <3> QED
        BY <2>2, <3>1, Zenon
    <2> QED
      BY <2>1, <2>2 DEF Step
  <1>5. \A f \in DOMAIN disk' : \/ f \in DOMAIN disk /\ disk'[f] = disk[f]
                                \/ /\ f = h.name /\ disk'[f].save = started
                                   /\ disk'[f].content = h.content /\ disk'[f].from = h.from
                                   /\ disk'[f] \in FileSet
    BY <1>3 DEF Step, OneWritten
  <1>6. \A f \in DOMAIN disk : f # h.name => f \in DOMAIN disk' /\ disk'[f] = disk[f]
    BY DEF Step
  <1>7. started' = started /\ line' = line
    BY DEF Step
  <1>8. LineageTyped'
    <2>1. \A f \in DOMAIN disk' : disk'[f] \in FileSet /\ disk'[f].save <= started'
      BY <1>1, <1>5, <1>7 DEF LineageInv, LineageTyped
    <2>2. todo' \in Seq(FileSet)
      <3>1. << >> \in Seq(FileSet)
        OBVIOUS
      <3> QED
        BY <1>4, <3>1, Zenon
    <2>3. ASSUME NEW i \in 1 .. Len(todo') PROVE todo'[i].save = started'
      <3>1. todo'[i] = todo[i + 1] /\ i + 1 \in 1 .. Len(todo)
        BY <1>4, <2>3
      <3> QED
        BY <1>1, <1>7, <3>1
    <2> QED
      BY <1>7, <2>1, <2>2, <2>3 DEF LineageInv, LineageTyped
  <1> QED
    BY <1>2, <1>3, <1>4, <1>5, <1>6, <1>7, <1>8, <1>1

LEMMA StepTraced ==
  ASSUME LineageInv, NEW h \in FileSet, Step(h)
  PROVE  Traced' /\ Apart'
  <1>1. /\ Len(todo) \in Nat \ {0} /\ h = todo[1] /\ h.save = started /\ started \in Nat
        /\ started' = started /\ line' = line
        /\ \/ todo' = << >> /\ Len(todo') = 0
           \/ /\ Len(todo') = Len(todo) - 1
              /\ \A i \in 1 .. Len(todo') : todo'[i] = todo[i + 1] /\ i + 1 \in 1 .. Len(todo)
        /\ \A f \in DOMAIN disk' : \/ f \in DOMAIN disk /\ disk'[f] = disk[f]
                                   \/ /\ f = h.name /\ disk'[f].save = started
                                      /\ disk'[f].content = h.content /\ disk'[f].from = h.from
        /\ \A f \in DOMAIN disk : f # h.name => f \in DOMAIN disk' /\ disk'[f] = disk[f]
    BY StepBasics
  <1>2. Traced /\ \A f \in DOMAIN disk : disk[f].save \in Nat /\ disk[f].save <= started
    BY DEF LineageInv, LineageTyped, FileSet
  <1>3. 1 \in 1 .. Len(todo)
    BY <1>1
  <1>4. ASSUME NEW f \in DOMAIN disk', NEW s \in disk'[f].from,
               s.name \in DOMAIN disk', disk'[s.name].save <= disk'[f].save
        PROVE  disk'[s.name].save = s.save
    <2>1. CASE f \in DOMAIN disk /\ disk'[f] = disk[f]
      <3>1. CASE s.name \in DOMAIN disk /\ disk'[s.name] = disk[s.name]
        BY <1>2, <1>4, <2>1, <3>1 DEF Traced, L!CurrentUnlessOlder
      <3>2. CASE s.name = h.name /\ disk'[s.name].save = started
        <4>1. disk[f].save = started
          BY <1>1, <1>2, <1>4, <2>1, <3>2
        <4> QED
          BY <1>1, <1>2, <1>3, <1>4, <2>1, <3>2, <4>1 DEF Traced
      <3> QED
        BY <1>1, <1>4, <3>1, <3>2
    <2>2. CASE disk'[f].from = h.from
      <3>1. s.name \in DOMAIN disk /\ disk[s.name].save = s.save /\ s.name # h.name
        BY <1>1, <1>2, <1>3, <1>4, <2>2 DEF Traced
      <3> QED
        BY <1>1, <3>1
    <2> QED
      BY <1>1, <1>4, <2>1, <2>2
  <1>5. \A f \in DOMAIN disk' : L!CurrentUnlessOlder(disk[f])'
    BY <1>4 DEF L!CurrentUnlessOlder
  <1>6. ASSUME NEW f \in DOMAIN disk', disk'[f].save = started', NEW s \in disk'[f].from,
               NEW i \in 1 .. Len(todo')
        PROVE  todo'[i].name # s.name
    <2>1. todo'[i] = todo[i + 1] /\ i + 1 \in 1 .. Len(todo)
      BY <1>1, <1>6
    <2>2. CASE f \in DOMAIN disk /\ disk'[f] = disk[f]
      BY <1>1, <1>2, <1>6, <2>1, <2>2 DEF Traced
    <2>3. CASE disk'[f].from = h.from
      BY <1>1, <1>2, <1>3, <1>6, <2>1, <2>3 DEF Traced
    <2> QED
      BY <1>1, <1>6, <2>2, <2>3
  <1>7. ASSUME NEW i \in 1 .. Len(todo'), NEW j \in 1 .. Len(todo'), NEW s \in todo'[i].from
        PROVE  /\ s.name \in DOMAIN disk' /\ disk'[s.name].save = s.save
               /\ todo'[j].name # s.name
    <2>1. /\ todo'[i] = todo[i + 1] /\ i + 1 \in 1 .. Len(todo)
          /\ todo'[j] = todo[j + 1] /\ j + 1 \in 1 .. Len(todo)
      BY <1>1, <1>7
    <2>2. /\ s.name \in DOMAIN disk /\ disk[s.name].save = s.save
          /\ todo[j + 1].name # s.name /\ todo[1].name # s.name
      BY <1>2, <1>3, <1>7, <2>1 DEF Traced
    <2> QED
      BY <1>1, <2>1, <2>2
  <1>8. Traced'
    <2>1. \A f \in DOMAIN disk' : disk'[f].save = started' =>
             \A s \in disk'[f].from : \A i \in 1 .. Len(todo') : todo'[i].name # s.name
      BY <1>6
    <2>2. \A i, j \in 1 .. Len(todo') : \A s \in todo'[i].from :
             /\ s.name \in DOMAIN disk' /\ disk'[s.name].save = s.save
             /\ todo'[j].name # s.name
      BY <1>7
    <2> QED
      BY <1>5, <2>1, <2>2 DEF Traced
  <1>9. Apart'
    <2>1. Apart
      BY DEF LineageInv
    <2>2. \A f \in DOMAIN disk' : f \in DOMAIN disk \/ f = todo[1].name
      BY <1>1
    <2>3. \A i \in 1 .. Len(todo') : \E j \in 1 .. Len(todo) : todo'[i] = todo[j]
      BY <1>1
    <2> QED
      BY <1>1, <1>3, <2>1, <2>2, <2>3 DEF Apart
  <1> QED
    BY <1>8, <1>9

(* An order stays one, whatever comes of its next file.                      *)
LEMMA StepInTurn ==
  ASSUME LineageInv, NEW h \in FileSet, Step(h),
         NEW where, NEW order, Len(order) \in Nat,
         \A k, i \in 1 .. Len(order) : order[k] = order[i] => k = i,
         InTurn(where, order)
  PROVE  InTurn(where, order)'
  <1> DEFINE m == Len(order)
             n == Len(todo)
             Is(k) == L!Has(where, order[k])
             By(k) == L!SavedBy(where, order[k])
  <1>1. /\ n \in Nat \ {0} /\ h = todo[1] /\ h.save = started /\ started \in Nat
        /\ started' = started /\ m \in Nat
        /\ \/ todo' = << >> /\ Len(todo') = 0
           \/ /\ Len(todo') = n - 1
              /\ \A i \in 1 .. Len(todo') : todo'[i] = todo[i + 1] /\ i + 1 \in 1 .. n
              /\ h.name \in DOMAIN disk' /\ disk'[h.name] = h
    BY StepBasics
  <1>2. /\ \A f \in DOMAIN disk' : \/ f \in DOMAIN disk /\ disk'[f] = disk[f]
                                   \/ f = h.name /\ disk'[f].save = started
        /\ \A f \in DOMAIN disk : f # h.name => f \in DOMAIN disk' /\ disk'[f] = disk[f]
    BY StepBasics
  <1>3. ASSUME NEW k \in 1 .. m, h.name # <<where, order[k]>>
        PROVE  Is(k)' = Is(k) /\ (Is(k) => By(k)' = By(k))
    BY <1>2, <1>3 DEF L!Has, L!SavedBy
  <1>4. ASSUME NEW k \in 1 .. m, Is(k)'
        PROVE  \/ Is(k) /\ By(k)' = By(k)
               \/ h.name = <<where, order[k]>> /\ By(k)' = started
    BY <1>2, <1>4 DEF L!Has, L!SavedBy
  <1>5. \A k \in 1 .. m : Is(k) => By(k) \in Nat
    BY ContentIs DEF LineageInv
  <1>6. Ordered(where, order)
    BY DEF InTurn
  <1>7. CASE Untouched(where, order)
    <2>1. \A k \in 1 .. m : h.name # <<where, order[k]>>
      BY <1>1, <1>7 DEF Untouched
    <2>2. \A k \in 1 .. m : Is(k)' = Is(k) /\ (Is(k) => By(k)' = By(k))
      BY <1>3, <2>1
    <2>3. Ordered(where, order)'
      <3>1. SUFFICES ASSUME NEW i \in 1 .. m, NEW j \in 1 .. m, i < j, Is(i)', Is(j)'
                     PROVE  /\ By(j)' <= By(i)'
                            /\ By(j)' = By(i)' => \A k \in i .. j : Is(k)' /\ By(k)' = By(i)'
        BY DEF Ordered
      <3>2. /\ By(j) <= By(i) /\ Is(i) /\ Is(j)
            /\ By(j) = By(i) => \A k \in i .. j : Is(k) /\ By(k) = By(i)
        BY <1>6, <2>2, <3>1 DEF Ordered
      <3>3. \A k \in i .. j : k \in 1 .. m
        BY <1>1, <3>1
      <3> HIDE DEF Is, By
      <3> QED
        BY <2>2, <3>1, <3>2, <3>3
    <2>4. Untouched(where, order)'
      <3>1. ASSUME NEW i \in 1 .. Len(todo'), NEW k \in 1 .. m
            PROVE  todo'[i].name # <<where, order[k]>>
        <4>1. todo'[i] = todo[i + 1] /\ i + 1 \in 1 .. n
          BY <1>1
        <4> QED
          BY <1>7, <4>1 DEF Untouched
      <3> QED
        BY <3>1 DEF Untouched
    <2> QED
      BY <2>3, <2>4 DEF InTurn
  <1>8. CASE Saving(where, order)
    <2>1. /\ \A k \in 1 .. m : k > m - n =>
                /\ todo[n - m + k].name = <<where, order[k]>>
                /\ Is(k) => By(k) < started
          /\ \A k \in 1 .. m : k <= m - n => Is(k) /\ By(k) = started
          /\ \A i \in 1 .. n, k \in 1 .. m :
                todo[i].name = <<where, order[k]>> => i = n - m + k
      BY <1>8 DEF Saving
    <2>2. \A k \in 1 .. m : h.name = <<where, order[k]>> => k = m - n + 1
      <3> HIDE DEF m, n, Is, By
      <3>0. h = todo[1] /\ 1 \in 1 .. n
        BY <1>1
      <3>1. \A k \in 1 .. m : h.name = <<where, order[k]>> => 1 = n - m + k
        BY <2>1, <3>0
      <3> QED
        BY <1>1, <3>1
    <2>3. ASSUME NEW k \in 1 .. m, k # m - n + 1
          PROVE  Is(k)' = Is(k) /\ (Is(k) => By(k)' = By(k))
      BY <1>3, <2>2, <2>3
    <2>4. ASSUME NEW k \in 1 .. m, k <= m - n PROVE Is(k)' /\ By(k)' = started
      <3>1. k # m - n + 1
        <4> HIDE DEF m, n
        <4> QED
          BY <1>1, <2>4
      <3> QED
        BY <2>1, <2>3, <2>4, <3>1
    <2>5. ASSUME NEW k \in 1 .. m, k > m - n, Is(k)'
          PROVE  \/ Is(k) /\ By(k)' = By(k) /\ By(k) < started
                 \/ k = m - n + 1 /\ By(k)' = started
      BY <1>4, <2>1, <2>2, <2>5
    <2>6. Ordered(where, order)'
      <3>1. SUFFICES ASSUME NEW i \in 1 .. m, NEW j \in 1 .. m, i < j, Is(i)', Is(j)'
                     PROVE  /\ By(j)' <= By(i)'
                            /\ By(j)' = By(i)' => \A k \in i .. j : Is(k)' /\ By(k)' = By(i)'
        BY DEF Ordered
      <3>2. \A k \in i .. j : k \in 1 .. m
        BY <1>1, <3>1
      <3>3. Is(i) /\ Is(j) => /\ By(j) <= By(i)
                              /\ By(j) = By(i) => \A k \in i .. j : Is(k) /\ By(k) = By(i)
        BY <1>6, <3>1 DEF Ordered
      <3> HIDE DEF Is, By, m, n
      <3>4. CASE j <= m - n
        <4>1. \A k \in i .. j : k <= m - n
          BY <1>1, <3>1, <3>4
        <4> QED
          BY <1>1, <2>4, <3>1, <3>2, <3>4, <4>1
      <3>5. CASE i <= m - n /\ j > m - n
        <4>1. By(i)' = started
          BY <2>4, <3>5
        <4>2. CASE Is(j) /\ By(j)' = By(j) /\ By(j) < started
          BY <1>1, <1>5, <4>1, <4>2
        <4>3. CASE j = m - n + 1 /\ By(j)' = started
          <5>1. \A k \in i .. j : k = j \/ k <= m - n
            BY <1>1, <3>1, <4>3
          <5>2. \A k \in i .. j : Is(k)' /\ By(k)' = started
            BY <2>4, <3>1, <3>2, <4>3, <5>1
          <5> QED
            BY <1>1, <4>1, <4>3, <5>2
        <4> QED
          BY <2>5, <3>1, <3>5, <4>2, <4>3
      <3>6. CASE i > m - n
        <4>1. j > m - n /\ j # m - n + 1
          BY <1>1, <3>1, <3>6
        <4>2. Is(j) /\ By(j)' = By(j) /\ By(j) < started
          BY <2>5, <3>1, <4>1
        <4>3. CASE By(i)' = started
          BY <1>1, <1>5, <4>2, <4>3
        <4>4. CASE Is(i) /\ By(i)' = By(i)
          <5>1. \A k \in i .. j : k = i \/ k # m - n + 1
            BY <1>1, <3>1, <3>6
          <5>2. ASSUME NEW k \in i .. j, Is(k) PROVE Is(k)' /\ By(k)' = By(k)
            <6>1. CASE k = i
              BY <3>1, <4>4, <6>1
            <6>2. CASE k # m - n + 1
              BY <2>3, <3>2, <5>2, <6>2
            <6> QED
              BY <5>1, <6>1, <6>2
          <5> QED
            BY <3>3, <4>2, <4>4, <5>2
        <4> QED
          BY <2>5, <3>1, <3>6, <4>3, <4>4
      <3> QED
        BY <1>1, <3>1, <3>4, <3>5, <3>6
    <2>7. CASE Len(todo') = 0
      BY <2>6, <2>7 DEF InTurn, Untouched
    <2>8. CASE /\ Len(todo') = n - 1
               /\ \A i \in 1 .. Len(todo') : todo'[i] = todo[i + 1] /\ i + 1 \in 1 .. n
               /\ h.name \in DOMAIN disk' /\ disk'[h.name] = h
      <3>1. ASSUME NEW i \in 1 .. Len(todo'), NEW k \in 1 .. m,
                   todo'[i].name = <<where, order[k]>>
            PROVE  i = Len(todo') - m + k
        <4>1. todo[i + 1].name = <<where, order[k]>> /\ i + 1 \in 1 .. n
          BY <2>8, <3>1
        <4>2. i + 1 = n - m + k
          BY <2>1, <4>1
        <4> HIDE DEF m, n
        <4> QED
          BY <1>1, <2>8, <4>2
      <3>2. ASSUME NEW k \in 1 .. m, k > m - Len(todo')
            PROVE  /\ todo'[Len(todo') - m + k].name = <<where, order[k]>>
                   /\ Is(k)' => By(k)' < started
        <4>1. /\ k > m - n /\ k # m - n + 1 /\ Len(todo') - m + k \in 1 .. Len(todo')
              /\ Len(todo') - m + k + 1 = n - m + k
          <5> HIDE DEF m, n
          <5> QED
            BY <1>1, <2>8, <3>2
        <4>2. todo'[Len(todo') - m + k] = todo[n - m + k]
          BY <2>8, <4>1
        <4>3. Is(k)' => By(k)' < started
          BY <2>1, <2>3, <4>1
        <4> QED
          BY <2>1, <4>1, <4>2, <4>3
      <3>3. ASSUME NEW k \in 1 .. m, k <= m - Len(todo')
            PROVE  Is(k)' /\ By(k)' = started
        <4>1. k <= m - n \/ (k = m - n + 1 /\ k > m - n /\ n - m + k = 1)
          <5> HIDE DEF m, n
          <5> QED
            BY <1>1, <2>8, <3>3
        <4>2. CASE k <= m - n
          BY <2>4, <4>2
        <4>3. CASE k = m - n + 1 /\ k > m - n /\ n - m + k = 1
          <5>1. todo[n - m + k].name = <<where, order[k]>>
            BY <2>1, <4>3
          <5>2. h.name = <<where, order[k]>>
            BY <1>1, <4>3, <5>1
          <5> QED
            BY <1>1, <2>8, <5>2 DEF L!Has, L!SavedBy
        <4> QED
          BY <4>1, <4>2, <4>3
      <3>4. Saving(where, order)'
        BY <1>1, <3>1, <3>2, <3>3 DEF Saving
      <3> QED
        BY <2>6, <3>4 DEF InTurn
    <2> QED
      BY <1>1, <2>7, <2>8
  <1> QED
    BY <1>7, <1>8 DEF InTurn

LEMMA StepZiln ==
  ASSUME LineageInv, line = "ziln", NEW h \in FileSet, Step(h)
  PROVE  ZilnInv'
  <1>1. /\ Len(todo) \in Nat \ {0} /\ h = todo[1] /\ h.save = started /\ started \in Nat
        /\ started' = started
        /\ \/ todo' = << >> /\ Len(todo') = 0
           \/ /\ Len(todo') = Len(todo) - 1
              /\ \A i \in 1 .. Len(todo') : todo'[i] = todo[i + 1] /\ i + 1 \in 1 .. Len(todo)
              /\ h.name \in DOMAIN disk' /\ disk'[h.name] = h
    BY StepBasics
  <1>2. /\ \A f \in DOMAIN disk' : \/ f \in DOMAIN disk /\ disk'[f] = disk[f]
                                   \/ /\ f = h.name /\ disk'[f].save = started
                                      /\ disk'[f].content = h.content
        /\ \A f \in DOMAIN disk : f # h.name => f \in DOMAIN disk' /\ disk'[f] = disk[f]
    BY StepBasics
  <1>3. ZilnInv /\ LineageTyped /\ 1 \in 1 .. Len(todo)
    BY <1>1 DEF LineageInv
  <1>4. ASSUME NEW d \in Dirs PROVE InTurn(d, L!Parts)'
    <2>1. /\ Len(L!Parts) \in Nat /\ InTurn(d, L!Parts)
          /\ \A k, i \in 1 .. Len(L!Parts) : L!Parts[k] = L!Parts[i] => k = i
      BY <1>3, OrdersAre DEF ZilnInv
    <2> QED
      BY <2>1, StepInTurn
  <1>5. ASSUME NEW x, NEW name, Held(x, name)'
        PROVE  \E u : Held(u, name) /\ u.save = x.save /\ u.content = x.content
    <2>1. CASE name \in DOMAIN disk' /\ x = disk'[name]
      <3>1. CASE name \in DOMAIN disk /\ disk'[name] = disk[name]
        BY <2>1, <3>1 DEF Held
      <3>2. CASE name = h.name /\ x.save = started /\ x.content = h.content
        <4>1. Held(h, name)
          BY <1>1, <1>3, <3>2 DEF Held
        <4> QED
          BY <1>1, <3>2, <4>1
      <3> QED
        BY <1>2, <2>1, <3>1, <3>2
    <2>2. CASE \E i \in 1 .. Len(todo') : todo'[i].name = name /\ x = todo'[i]
      <3>1. PICK i \in 1 .. Len(todo') : todo'[i].name = name /\ x = todo'[i]
        BY <2>2
      <3>2. todo'[i] = todo[i + 1] /\ i + 1 \in 1 .. Len(todo)
        BY <1>1, <3>1
      <3>3. Held(x, name)
        BY <3>1, <3>2 DEF Held
      <3> QED
        BY <3>3
    <2> QED
      BY <1>5, <2>1, <2>2 DEF Held
  <1>6. ASSUME NEW d \in Dirs PROVE Agree(d)'
    <2>1. SUFFICES ASSUME NEW x, NEW z, Held(x, <<d, "scale">>)', x.save = z.save
                   PROVE  /\ Held(z, <<d, "meta">>)' => x.content = z.content
                          /\ Held(z, <<d, "location">>)' => z.content <= x.content
      BY DEF Agree
    <2>2. PICK u : Held(u, <<d, "scale">>) /\ u.save = x.save /\ u.content = x.content
      BY <1>5, <2>1
    <2>3. ASSUME NEW part, Held(z, <<d, part>>)'
          PROVE  \E v : Held(v, <<d, part>>) /\ v.save = z.save /\ v.content = z.content
      BY <1>5, <2>3
    <2>4. Agree(d)
      BY <1>3 DEF ZilnInv
    <2>5. ASSUME Held(z, <<d, "meta">>)' PROVE x.content = z.content
      <3>1. PICK v : Held(v, <<d, "meta">>) /\ v.save = z.save /\ v.content = z.content
        BY <2>3, <2>5
      <3> QED
        BY <2>1, <2>2, <2>4, <3>1 DEF Agree
    <2>6. ASSUME Held(z, <<d, "location">>)' PROVE z.content <= x.content
      <3>1. PICK v : Held(v, <<d, "location">>) /\ v.save = z.save /\ v.content = z.content
        BY <2>3, <2>6
      <3> QED
        BY <2>1, <2>2, <2>4, <3>1 DEF Agree
    <2> QED
      BY <2>5, <2>6
  <1>7. Residuals'
    <2> DEFINE o == <<"work", "oof">>
               Loc(d) == <<d, "location">>
    <2>0. /\ \A d \in Dirs : Loc(d) \in DOMAIN disk =>
                /\ disk[Loc(d)].content <= started
                /\ o \in DOMAIN disk => disk[Loc(d)].content <= disk[o].content
          /\ \A i \in 1 .. Len(todo) : todo[i].name[2] = "location" =>
                /\ todo[i].content <= started
                /\ \/ \E j \in 1 .. i - 1 : todo[j].name = o
                   \/ o \in DOMAIN disk => todo[i].content <= disk[o].content
          /\ \A i \in 1 .. Len(todo) : todo[i].name = o => todo[i].content = started
      BY <1>3 DEF ZilnInv, Residuals, L!Has, L!Content
    <2>1. \A d \in Dirs : Loc(d)[2] = "location" /\ Loc(d) # o
      OBVIOUS
    <2>2. h.name = o => h.content = started
      BY <1>1, <1>3, <2>0
    <2>3. h.name[2] = "location" =>
             /\ h.content <= started
             /\ o \in DOMAIN disk => h.content <= disk[o].content
      BY <1>1, <1>3, <2>0
    <2> HIDE DEF o, Loc
    <2>4. ASSUME NEW d \in Dirs, Loc(d) \in DOMAIN disk'
          PROVE  /\ disk'[Loc(d)].content <= started
                 /\ o \in DOMAIN disk' => disk'[Loc(d)].content <= disk'[o].content
      <3>1. /\ disk'[Loc(d)].content <= started
            /\ o \in DOMAIN disk => disk'[Loc(d)].content <= disk[o].content
        BY <1>2, <2>0, <2>1, <2>3, <2>4
      <3>2. ASSUME o \in DOMAIN disk'
            PROVE  \/ o \in DOMAIN disk /\ disk'[o] = disk[o]
                   \/ disk'[o].content = started
        BY <1>2, <2>2, <3>2
      <3> QED
        BY <3>1, <3>2
    <2>5. ASSUME NEW i \in 1 .. Len(todo'), todo'[i].name[2] = "location"
          PROVE  /\ todo'[i].content <= started
                 /\ \/ \E j \in 1 .. i - 1 : todo'[j].name = o
                    \/ o \in DOMAIN disk' => todo'[i].content <= disk'[o].content
      <3>1. /\ todo'[i] = todo[i + 1] /\ i + 1 \in 1 .. Len(todo)
            /\ h.name \in DOMAIN disk' /\ disk'[h.name] = h
            /\ \A j \in 1 .. Len(todo') : todo'[j] = todo[j + 1]
        BY <1>1, <2>5
      <3>2. /\ todo'[i].content <= started
            /\ \/ \E j \in 1 .. i : todo[j].name = o
               \/ o \in DOMAIN disk => todo'[i].content <= disk[o].content
        BY <2>0, <2>5, <3>1
      <3>3. CASE h.name = o
        BY <2>2, <3>1, <3>2, <3>3
      <3>4. CASE h.name # o /\ \E j \in 1 .. i : todo[j].name = o
        <4>1. PICK j \in 1 .. i : todo[j].name = o
          BY <3>4
        <4>2. j # 1
          BY <1>1, <3>4, <4>1
        <4>3. j - 1 \in 1 .. i - 1 /\ j - 1 \in 1 .. Len(todo') /\ j - 1 + 1 = j
          BY <1>1, <2>5, <4>2
        <4>4. todo'[j - 1].name = o
          BY <3>1, <4>1, <4>3
        <4> QED
          BY <3>2, <4>3, <4>4
      <3>5. CASE h.name # o /\ (o \in DOMAIN disk => todo'[i].content <= disk[o].content)
        BY <1>2, <3>2, <3>5
      <3> QED
        BY <3>2, <3>3, <3>4, <3>5
    <2>6. ASSUME NEW i \in 1 .. Len(todo'), todo'[i].name = o PROVE todo'[i].content = started
      BY <1>1, <2>0, <2>6
    <2> QED
      BY <1>1, <2>4, <2>5, <2>6 DEF Residuals, L!Has, L!Content, o, Loc
  <1> QED
    BY <1>4, <1>6, <1>7 DEF ZilnInv

LEMMA StepDist ==
  ASSUME LineageInv, line = "dist", NEW h \in FileSet, Step(h)
  PROVE  DistInv'
  <1>1. /\ Len(todo) \in Nat \ {0} /\ h = todo[1]
        /\ \/ todo' = << >> /\ Len(todo') = 0
           \/ \A i \in 1 .. Len(todo') : todo'[i] = todo[i + 1] /\ i + 1 \in 1 .. Len(todo)
        /\ \A f \in DOMAIN disk' : \/ f \in DOMAIN disk /\ disk'[f] = disk[f]
                                   \/ f = h.name /\ disk'[f].from = h.from
    BY StepBasics
  <1>2. DistInv /\ 1 \in 1 .. Len(todo)
    BY <1>1 DEF LineageInv
  <1>3. InTurn("tables", L!Years)'
    <2>1. /\ Len(L!Years) \in Nat /\ InTurn("tables", L!Years)
          /\ \A k, i \in 1 .. Len(L!Years) : L!Years[k] = L!Years[i] => k = i
      BY <1>2, OrdersAre DEF DistInv
    <2> QED
      BY <2>1, StepInTurn
  <1>4. \A from : YearsInOrder(from)' = YearsInOrder(from)
    BY DEF YearsInOrder
  <1>5. \A f \in DOMAIN disk' : f[2] = "pred" => YearsInOrder(disk'[f].from)
    BY <1>1, <1>2 DEF DistInv
  <1>6. \A i \in 1 .. Len(todo') : todo'[i].name[2] = "pred" => YearsInOrder(todo'[i].from)
    BY <1>1, <1>2 DEF DistInv
  <1> QED
    BY <1>3, <1>4, <1>5, <1>6 DEF DistInv

LEMMA LineageStep ==
  ASSUME LineageInv, L!Next \/ UNCHANGED lineageVars
  PROVE  LineageInv'
  <1>1. CASE UNCHANGED lineageVars
    <2>1. /\ LineageTyped' = LineageTyped /\ Traced' = Traced /\ Apart' = Apart
          /\ Residuals' = Residuals
      BY <1>1 DEF lineageVars, LineageTyped, Traced, Apart, Residuals, L!CurrentUnlessOlder,
                  L!Has, L!Content
    <2>2. \A where, order : InTurn(where, order)' = InTurn(where, order)
      BY <1>1 DEF lineageVars, InTurn, Ordered, Untouched, Saving, L!Has, L!SavedBy
    <2>3. \A d : Agree(d)' = Agree(d)
      BY <1>1 DEF lineageVars, Agree, Held
    <2>4. DistInv' = DistInv
      BY <1>1, <2>2 DEF lineageVars, DistInv, YearsInOrder
    <2> QED
      BY <1>1, <2>1, <2>2, <2>3, <2>4 DEF lineageVars, LineageInv, ZilnInv
  <1>2. CASE L!Write \/ L!Kill
    <2>1. PICK h \in FileSet : Step(h)
      BY <1>2, WritesAreSteps
    <2>2. LineageTyped' /\ line' = line /\ Traced' /\ Apart'
      BY <2>1, StepBasics, StepTraced
    <2>3. line = "ziln" => ZilnInv'
      BY <2>1, StepZiln
    <2>4. line = "dist" => DistInv'
      BY <2>1, StepDist
    <2> QED
      BY <2>2, <2>3, <2>4 DEF LineageInv
  <1>3. CASE \/ L!TrainLogistic \/ L!TrainTree \/ L!TrainMlp
             \/ L!SelectThreshold \/ L!CalibratePlatt \/ L!EvaluateProbabilities
    BY <1>3, BinaryStep
  <1>4. CASE \E d \in Dirs : L!TrainZiln(d) \/ L!RefitVariance(d) \/ L!EvaluateZiln(d) \/ L!Diagnose(d)
    BY <1>4, TrainStep, RefitStep, EvaluateStep
  <1>5. CASE L!Rebuild \/ L!TrainBinned \/ L!EvaluateFamilies
    BY <1>5, RebuildStep, BinnedStep, FamiliesStep
  <1>6. CASE \E family \in Families : L!TrainFamily(family)
    BY <1>6, FamilyStep
  <1> QED
    BY <1>1, <1>2, <1>3, <1>4, <1>5, <1>6 DEF L!Next

(* A directory whose first and last part are of one save is of that save.    *)
LEMMA EndsTell ==
  ASSUME LineageInv, todo = << >>, NEW d \in Dirs
  PROVE  L!WholeIfEndsAgree(d)
  <1>1. SUFFICES ASSUME L!Loads(d), L!SavedBy(d, "prep") = L!SavedBy(d, "meta")
                 PROVE  /\ \A i \in 1 .. 5 : /\ L!Has(d, L!Parts[i])
                                             /\ L!SavedBy(d, L!Parts[i]) = L!SavedBy(d, "meta")
                        /\ L!Content(d, "scale") = L!Content(d, "meta")
                        /\ L!Content(d, "scale") >= L!Content(d, "location")
    BY DEF L!WholeIfEndsAgree
  <1>2. line = "ziln"
    <2>1. <<d, "meta">> \in DOMAIN disk
      BY <1>1, LoadedParts DEF L!Has
    <2>2. <<d, "meta">>[2] = "meta"
      OBVIOUS
    <2> QED
      BY <2>1, <2>2 DEF LineageInv, Apart
  <1>3. /\ InTurn(d, L!Parts) /\ Agree(d) /\ LineageTyped
    BY <1>2 DEF LineageInv, ZilnInv
  <1>4. \A i \in 1 .. 5 : /\ L!Has(d, L!Parts[i])
                          /\ L!SavedBy(d, L!Parts[i]) = L!SavedBy(d, L!Parts[1])
    <2>1. L!Has(d, L!Parts[1]) /\ L!Has(d, L!Parts[5])
      BY <1>1, LoadedParts, OrdersAre
    <2>2. L!SavedBy(d, L!Parts[5]) = L!SavedBy(d, L!Parts[1])
      BY <1>1, OrdersAre
    <2>3. 1 \in 1 .. Len(L!Parts) /\ 5 \in 1 .. Len(L!Parts) /\ 1 < 5
      BY OrdersAre
    <2> QED
      BY <1>3, <2>1, <2>2, <2>3 DEF InTurn, Ordered
  <1>5. /\ L!Has(d, "scale") /\ L!Has(d, "meta") /\ L!Has(d, "location")
        /\ L!SavedBy(d, "scale") = L!SavedBy(d, "meta")
        /\ L!SavedBy(d, "scale") = L!SavedBy(d, "location")
    BY <1>1, <1>4, OrdersAre
  <1>6. /\ L!Content(d, "scale") = L!Content(d, "meta")
        /\ L!Content(d, "location") <= L!Content(d, "scale")
    <2>1. /\ Held(disk[<<d, "scale">>], <<d, "scale">>)
          /\ Held(disk[<<d, "meta">>], <<d, "meta">>)
          /\ Held(disk[<<d, "location">>], <<d, "location">>)
      BY <1>5 DEF Held, L!Has
    <2> QED
      BY <1>3, <1>5, <2>1 DEF Agree, L!SavedBy, L!Content
  <1>7. L!Content(d, "location") \in Nat /\ L!Content(d, "scale") \in Nat
    BY <1>3, <1>5, ContentIs
  <1>8. \A i \in 1 .. 5 : L!SavedBy(d, L!Parts[i]) = L!SavedBy(d, "meta")
    BY <1>1, <1>4, OrdersAre
  <1> QED
    BY <1>4, <1>6, <1>7, <1>8

(* The dates of the files tell mixtures, other builds and stale results, for *)
(* any number of directories, families, scripts and kills (ziln.py, prep.py, *)
(* the scripts that train, tune and score models).                           *)
THEOREM FileOrder == JobSpec => []FileOrderTells
  <1>1. JobInit => (job = "lineage" => LineageInv)
    BY LineageStart, JobStarts
  <1>2. (job = "lineage" => LineageInv) /\ [JobNext]_jobVars => (job = "lineage" => LineageInv)'
    BY LineageStep, JobSteps
  <1>3. (job = "lineage" => LineageInv) => FileOrderTells
    <2>1. SUFFICES ASSUME job = "lineage", LineageInv PROVE L!FileOrderTells
      BY DEF FileOrderTells
    <2>2. todo = << >> => \A d \in Dirs : L!WholeIfEndsAgree(d)
      BY <2>1, EndsTell
    <2>3. \A f \in DOMAIN disk : L!CurrentUnlessOlder(disk[f])
      BY <2>1 DEF LineageInv, Traced
    <2>4. ASSUME NEW family \in Families PROVE L!TestedOnNoNewer(family)
      <3>1. SUFFICES ASSUME L!Has(family, "pred"), NEW i \in 1 .. 4, NEW j \in 1 .. 4, i <= j,
                            NEW r \in disk[<<family, "pred">>].from,
                            NEW s \in disk[<<family, "pred">>].from,
                            r.name[2] = L!Years[i], s.name[2] = L!Years[j]
                     PROVE  r.save >= s.save
        BY DEF L!TestedOnNoNewer
      <3>2. <<family, "pred">> \in DOMAIN disk /\ <<family, "pred">>[2] = "pred"
        BY <3>1 DEF L!Has
      <3>3. line = "dist"
        BY <2>1, <3>2 DEF LineageInv, Apart
      <3>4. s.save <= r.save
        BY <2>1, <3>1, <3>2, <3>3 DEF LineageInv, DistInv, YearsInOrder
      <3>5. s.save \in Nat /\ r.save \in Nat
        BY <2>1, <3>1, <3>2 DEF LineageInv, LineageTyped, FileSet, SourceSet
      <3> QED
        BY <3>4, <3>5
    <2> QED
      BY <2>2, <2>3, <2>4 DEF L!FileOrderTells
  <1> QED
    BY <1>1, <1>2, <1>3, PTL DEF JobSpec

-----------------------------------------------------------------------------
(* qc.py, qc_rainfall.py *)

QualityConstants ==
    /\ Days \in Nat /\ NewYear \in Int /\ StuckMinWetDays \in Nat
    /\ RepeatMinDays \in Nat \ {0} /\ RepeatMaxGapDays \in Nat /\ DayBuffer \in Nat

Passed == Q!Flagged \ ds

(* From a to b no flag is too far from the one after it.                     *)
Chained(a, b) ==
    \A x \in (a .. b) \cap Q!Flagged : x # b => \E z \in Q!Flagged : x < z /\ z - x <= RepeatMaxGapDays

Repeated(a, b) ==
    /\ a \in Q!Flagged /\ b \in Q!Flagged /\ Chained(a, b)
    /\ Cardinality((a .. b) \cap Q!Flagged) >= RepeatMinDays

(* The chain in hand: the last days passed, after a gap that is too wide.    *)
InHand(lo, hi) ==
    /\ lo \in linked /\ hi \in linked
    /\ linked = {f \in Passed : lo <= f}
    /\ \A f \in Passed : f <= hi
    /\ \A f \in Passed : f < lo => lo - f > RepeatMaxGapDays
    /\ \A x \in linked : x # hi => \E z \in linked : x < z /\ z - x <= RepeatMaxGapDays

(* Every chain that is long enough and ends in S lies in a span.             *)
Spanned(S) == \A a \in Q!Flagged, b \in S : Repeated(a, b) => \E s \in spans : s[1] <= a /\ b <= s[2]

Kept ==
    CASE masking \in {"repeat", "first"} -> {}
      [] masking = "second" -> {r \in Q!Readings : Q!YearOf(r) = "first" /\ ~Q!InSpan(r[1])}
      [] masking = "done"   -> {r \in Q!Readings : ~Q!InSpan(r[1])}

QualityInv ==
    /\ masking \in {"repeat", "first", "second", "done"}
    /\ ds \subseteq Q!Flagged /\ linked \subseteq Passed
    /\ \A a \in Passed, b \in ds : a < b
    /\ linked = {} => Passed = {}
    /\ linked # {} => \E lo \in linked, hi \in linked : InHand(lo, hi)
    /\ \A s \in spans : s \in Q!Day \X Q!Day /\ Repeated(s[1], s[2])
    /\ Spanned(Passed \ linked)
    /\ masking # "repeat" => ds = {} /\ Spanned(linked)
    /\ kept = Kept

LEMMA QCardinality ==
  ASSUME NEW S
  PROVE  Q!Cardinality(S) = Cardinality(S)
  BY Zenon DEF Q!Cardinality, Cardinality

LEMMA QMinIs ==
  ASSUME NEW S, S \subseteq Int, NEW m \in S, \A z \in S : m <= z
  PROVE  Q!Min(S) = m
  <1>1. \A x \in S : (\A z \in S : x <= z) => x = m
    OBVIOUS
  <1> QED
    BY <1>1 DEF Q!Min

LEMMA QMaxIs ==
  ASSUME NEW S, S \subseteq Int, NEW m \in S, \A z \in S : z <= m
  PROVE  Q!Max(S) = m
  <1>1. \A x \in S : (\A z \in S : x >= z) => x = m
    OBVIOUS
  <1>2. \A z \in S : m >= z
    OBVIOUS
  <1> QED
    BY <1>1, <1>2 DEF Q!Max

LEMMA DaysAre ==
  ASSUME Days \in Nat
  PROVE  /\ Q!Day \subseteq Nat /\ Q!Flagged \subseteq Q!Day /\ Q!Zero \subseteq Q!Day
         /\ Q!Rainy \subseteq Q!Day /\ Q!Of({"wet"}) \subseteq Q!Day
  BY DEF Q!Day, Q!Flagged, Q!Zero, Q!Rainy, Q!Of

LEMMA DaysCount ==
  ASSUME Days \in Nat, NEW S, S \subseteq Q!Day
  PROVE  /\ IsFiniteSet(S) /\ Cardinality(S) \in Nat
         /\ \A T \in SUBSET S : Cardinality(T) <= Cardinality(S)
         /\ \A T \in SUBSET S : Cardinality(T) = Cardinality(S) => T = S
  <1>1. IsFiniteSet(Q!Day)
    BY FS_Interval DEF Q!Day
  <1>2. IsFiniteSet(S)
    BY <1>1, FS_Subset
  <1> QED
    BY <1>2, FS_Subset, FS_CardinalityType

LEMMA FirstDay ==
  ASSUME Days \in Nat, NEW S, S \subseteq Q!Day, S # {}
  PROVE  \E x \in S : \A w \in S : x <= w
  BY DaysAre, LeastExists

LEMMA LastDay ==
  ASSUME Days \in Nat, NEW S, S \subseteq Q!Day, S # {}
  PROVE  \E x \in S : \A w \in S : w <= x
  <1> DEFINE T == {Days - x : x \in S}
  <1>5. \A w \in S : w \in Int /\ w <= Days
    BY DEF Q!Day
  <1>1. T \subseteq Nat /\ T # {}
    <2>1. \A w \in S : Days - w \in Nat
      BY <1>5
    <2> QED
      BY <2>1
  <1>2. PICK m \in T : \A w \in T : m <= w
    BY <1>1, LeastExists
  <1>3. PICK x \in S : m = Days - x
    OBVIOUS
  <1>4. \A w \in S : Days - x <= Days - w
    BY <1>2, <1>3
  <1> QED
    BY <1>3, <1>4, <1>5

-----------------------------------------------------------------------------
(* Rule D.                                                                   *)

(* The days of the chain in hand are those from its first to its last flag.  *)
LEMMA HandIs ==
  ASSUME QualityConstants, QualityInv, NEW lo \in linked, NEW hi \in linked, InHand(lo, hi)
  PROVE  /\ Q!Min(linked) = lo /\ Q!Max(linked) = hi
         /\ linked = (lo .. hi) \cap Q!Flagged /\ linked \subseteq Q!Day
         /\ Q!Cardinality(linked) = Cardinality(linked)
  <1>1. /\ Passed \subseteq Q!Flagged /\ Q!Flagged \subseteq Q!Day /\ Q!Day \subseteq Nat
        /\ linked \subseteq Passed
    BY DaysAre DEF QualityConstants, QualityInv, Passed
  <1>2. linked = {f \in Passed : lo <= f} /\ (\A f \in Passed : f <= hi)
    BY DEF InHand
  <1>3. Q!Min(linked) = lo
    <2>1. linked \subseteq Int
      BY <1>1
    <2>2. \A z \in linked : lo <= z
      BY <1>2
    <2> QED
      BY <2>1, <2>2, QMinIs
  <1>4. Q!Max(linked) = hi
    <2>1. linked \subseteq Int
      BY <1>1
    <2>2. \A z \in linked : z <= hi
      BY <1>1, <1>2
    <2> QED
      BY <2>1, <2>2, QMaxIs
  <1>5. ASSUME NEW f \in Q!Flagged, f <= hi PROVE f \in Passed
    BY <1>1, <1>5 DEF QualityInv, Passed
  <1>6. linked = (lo .. hi) \cap Q!Flagged
    <2>1. ASSUME NEW f \in linked PROVE f \in (lo .. hi) \cap Q!Flagged
      <3>1. f \in Int /\ lo \in Int /\ hi \in Int /\ lo <= f /\ f <= hi /\ f \in Q!Flagged
        BY <1>1, <1>2
      <3> QED
        BY <3>1
    <2>2. ASSUME NEW f \in (lo .. hi) \cap Q!Flagged PROVE f \in linked
      <3>1. lo <= f /\ f <= hi /\ f \in Q!Flagged
        OBVIOUS
      <3> QED
        BY <1>2, <1>5, <3>1
    <2> QED
      BY <2>1, <2>2
  <1> QED
    BY <1>1, <1>3, <1>4, <1>6, QCardinality

(* A chain that is long enough and ends in the one in hand is part of it:    *)
(* nothing links across the gap before.                                      *)
LEMMA ChainStaysInHand ==
  ASSUME QualityConstants, QualityInv, NEW lo \in linked, NEW hi \in linked, InHand(lo, hi),
         NEW a \in Q!Flagged, NEW b \in linked, Repeated(a, b)
  PROVE  lo <= a /\ b <= hi /\ Cardinality(linked) >= RepeatMinDays
  <1>1. /\ Passed \subseteq Q!Flagged /\ Q!Flagged \subseteq Q!Day /\ Q!Day \subseteq Nat
        /\ linked \subseteq Passed
    BY DaysAre DEF QualityConstants, QualityInv, Passed
  <1>2. /\ linked = {f \in Passed : lo <= f} /\ b <= hi /\ lo <= b
        /\ \A f \in Passed : f < lo => lo - f > RepeatMaxGapDays
    BY DEF InHand
  <1>3. /\ a \in Nat /\ b \in Nat /\ lo \in Nat /\ hi \in Nat
        /\ RepeatMaxGapDays \in Nat /\ RepeatMinDays \in Nat \ {0} /\ Days \in Nat
    BY <1>1 DEF QualityConstants
  <1>4. lo <= a
    <2> SUFFICES ASSUME ~(lo <= a) PROVE FALSE
      OBVIOUS
    <2> DEFINE S == {f \in Q!Flagged : a <= f /\ f < lo}
    <2>1. PICK x \in S : \A w \in S : w <= x
      <3>1. S \subseteq Q!Day
        BY <1>1
      <3>2. a < lo /\ a <= a
        BY <1>3
      <3>3. a \in S
        BY <3>2
      <3> HIDE DEF S
      <3> QED
        BY <1>3, <3>1, <3>3, LastDay
    <2>2. x \in Q!Flagged /\ x \in Nat /\ a <= x /\ x < lo
      BY <1>1, <2>1
    <2>3. x \in (a .. b) \cap Q!Flagged /\ x # b
      BY <1>2, <1>3, <2>2
    <2>4. PICK z \in Q!Flagged : x < z /\ z - x <= RepeatMaxGapDays
      BY <2>3 DEF Repeated, Chained
    <2>5. z \in Nat /\ lo <= z
      <3>1. z \in Nat
        BY <1>1
      <3>2. z \notin S
        BY <2>1, <2>2, <2>4, <3>1
      <3> QED
        BY <1>3, <2>2, <2>4, <3>1, <3>2
    <2>6. x \in Passed
      BY <1>1, <1>3, <2>2 DEF QualityInv, Passed
    <2>7. lo - x > RepeatMaxGapDays
      BY <1>2, <2>2, <2>6
    <2> QED
      BY <1>3, <2>2, <2>4, <2>5, <2>7
  <1>5. (a .. b) \cap Q!Flagged \in SUBSET linked
    <2>1. linked = (lo .. hi) \cap Q!Flagged
      BY HandIs
    <2>2. a .. b \subseteq lo .. hi
      BY <1>2, <1>3, <1>4
    <2> QED
      BY <2>1, <2>2
  <1>6. /\ Cardinality((a .. b) \cap Q!Flagged) <= Cardinality(linked) /\ Cardinality(linked) \in Nat
        /\ Cardinality((a .. b) \cap Q!Flagged) \in Nat
    <2>1. linked \subseteq Q!Day /\ (a .. b) \cap Q!Flagged \subseteq Q!Day
      BY <1>1
    <2> QED
      BY <1>3, <1>5, <2>1, DaysCount
  <1>7. Cardinality((a .. b) \cap Q!Flagged) >= RepeatMinDays
    BY DEF Repeated
  <1> QED
    BY <1>2, <1>3, <1>4, <1>6, <1>7

(* The end of a chain: its span is one of repeated flags, and every chain    *)
(* that ends in the days passed is in a span.                                *)
LEMMA CloseSpans ==
  ASSUME QualityConstants, QualityInv, linked # {}, Q!Close
  PROVE  /\ \A s \in spans' : s \in Q!Day \X Q!Day /\ Repeated(s[1], s[2])
         /\ \A a \in Q!Flagged, b \in Passed :
                Repeated(a, b) => \E s \in spans' : s[1] <= a /\ b <= s[2]
  <1>1. PICK lo \in linked, hi \in linked : InHand(lo, hi)
    BY DEF QualityInv
  <1>2. /\ Q!Min(linked) = lo /\ Q!Max(linked) = hi
        /\ linked = (lo .. hi) \cap Q!Flagged /\ linked \subseteq Q!Day
        /\ Q!Cardinality(linked) = Cardinality(linked)
    BY <1>1, HandIs
  <1>3. spans' = spans \cup IF Cardinality(linked) >= RepeatMinDays THEN {<<lo, hi>>} ELSE {}
    BY <1>2 DEF Q!Close
  <1>4. ASSUME Cardinality(linked) >= RepeatMinDays PROVE Repeated(lo, hi)
    <2>1. lo \in Q!Flagged /\ hi \in Q!Flagged
      BY <1>2
    <2>2. Chained(lo, hi)
      BY <1>1, <1>2 DEF InHand, Chained
    <2> QED
      BY <1>2, <1>4, <2>1, <2>2 DEF Repeated
  <1>5. \A s \in spans' : s \in Q!Day \X Q!Day /\ Repeated(s[1], s[2])
    <2>1. \A s \in spans : s \in Q!Day \X Q!Day /\ Repeated(s[1], s[2])
      BY DEF QualityInv
    <2> TAKE s \in spans'
    <2>2. CASE s \in spans
      BY <2>1, <2>2
    <2>3. CASE s = <<lo, hi>> /\ Cardinality(linked) >= RepeatMinDays
      <3>1. s \in Q!Day \X Q!Day
        BY <1>2, <2>3
      <3>2. s[1] = lo /\ s[2] = hi
        BY <2>3
      <3> QED
        BY <1>4, <2>3, <3>1, <3>2
    <2> QED
      BY <1>3, <2>2, <2>3
  <1>6. ASSUME NEW a \in Q!Flagged, NEW b \in Passed, Repeated(a, b)
        PROVE  \E s \in spans' : s[1] <= a /\ b <= s[2]
    <2>1. CASE b \in linked
      <3>1. lo <= a /\ b <= hi /\ Cardinality(linked) >= RepeatMinDays
        BY <1>1, <1>6, <2>1, ChainStaysInHand
      <3> DEFINE s == <<lo, hi>>
      <3>2. s \in spans' /\ s[1] = lo /\ s[2] = hi
        BY <1>3, <3>1
      <3> QED
        BY <3>1, <3>2
    <2>2. CASE b \notin linked
      <3>1. PICK s \in spans : s[1] <= a /\ b <= s[2]
        BY <1>6, <2>2 DEF QualityInv, Spanned
      <3> QED
        BY <1>3, <3>1
    <2> QED
      BY <2>1, <2>2
  <1> QED
    BY <1>5, <1>6

(* The next day of the loop.                                                 *)
LEMMA NextFlag ==
  ASSUME QualityConstants, QualityInv, ds # {}
  PROVE  /\ Q!Min(ds) \in ds /\ Q!Min(ds) \in Q!Flagged /\ Q!Min(ds) \in Nat
         /\ \A w \in ds : w \in Nat /\ Q!Min(ds) <= w
         /\ \A a \in Passed : a \in Nat /\ a < Q!Min(ds)
  <1>1. ds \subseteq Q!Flagged /\ Q!Flagged \subseteq Q!Day /\ Q!Day \subseteq Nat /\ Days \in Nat
    BY DaysAre DEF QualityConstants, QualityInv
  <1>2. PICK m \in ds : \A w \in ds : m <= w
    BY <1>1, FirstDay
  <1>3. Q!Min(ds) = m
    <2>1. ds \subseteq Int
      BY <1>1
    <2> QED
      BY <1>2, <2>1, QMinIs
  <1>4. \A a \in Passed : a \in Nat /\ a < m
    BY <1>1 DEF QualityInv, Passed
  <1> QED
    BY <1>1, <1>2, <1>3, <1>4

(* The flags are what they were.                                             *)
LEMMA SameFlags ==
  ASSUME kind' = kind
  PROVE  /\ Q!Flagged' = Q!Flagged /\ Q!Readings' = Q!Readings
         /\ \A a, b : Repeated(a, b)' <=> Repeated(a, b)
  <1>1. Q!Flagged' = Q!Flagged
    BY DEF Q!Flagged, Q!Of, Q!Day
  <1>2. Q!Readings' = Q!Readings
    BY DEF Q!Readings, Q!Of, Q!Day
  <1>3. ASSUME NEW a, NEW b PROVE Repeated(a, b)' <=> Repeated(a, b)
    BY <1>1 DEF Repeated, Chained
  <1> QED
    BY <1>1, <1>2, <1>3

(* A day within the largest gap joins the chain.                             *)
LEMMA LinkStep ==
  ASSUME QualityConstants, QualityInv, masking = "repeat", ds # {},
         linked # {} => Q!Linked(Q!Min(ds)),
         linked' = linked \cup {Q!Min(ds)}, ds' = ds \ {Q!Min(ds)},
         UNCHANGED <<kind, masking, spans, kept>>
  PROVE  QualityInv'
  <1>0. PICK m \in ds : m = Q!Min(ds)
    BY NextFlag
  <1>1. /\ m \in ds /\ m \in Q!Flagged /\ m \in Nat
        /\ \A w \in ds : w \in Nat /\ m <= w
        /\ \A a \in Passed : a \in Nat /\ a < m
    BY <1>0, NextFlag
  <1>2. linked' = linked \cup {m} /\ ds' = ds \ {m} /\ (linked # {} => Q!Linked(m))
    BY <1>0
  <1>3. Q!Flagged' = Q!Flagged /\ Q!Readings' = Q!Readings /\ \A a, b : Repeated(a, b)' <=> Repeated(a, b)
    BY SameFlags
  <1>4. Passed' = Passed \cup {m} /\ linked \subseteq Passed /\ m \notin linked
    BY <1>1, <1>2, <1>3 DEF Passed, QualityInv
  <1>5. ds' \subseteq Q!Flagged' /\ linked' \subseteq Passed' /\ linked' # {}
    BY <1>2, <1>3, <1>4 DEF QualityInv
  <1>6. \A a \in Passed', b \in ds' : a < b
    BY <1>1, <1>2, <1>4
  <1>7. \E lo \in linked', hi \in linked' : InHand(lo, hi)'
    <2>1. CASE linked = {}
      <3>1. Passed = {} /\ linked' = {m} /\ Passed' = {m}
        BY <1>2, <1>4, <2>1 DEF QualityInv
      <3>2. InHand(m, m)'
        BY <1>1, <3>1 DEF InHand
      <3> QED
        BY <3>1, <3>2
    <2>2. CASE linked # {}
      <3>1. PICK lo \in linked, hi \in linked : InHand(lo, hi)
        BY <2>2 DEF QualityInv
      <3>2. /\ linked = {f \in Passed : lo <= f}
            /\ \A f \in Passed : f <= hi
            /\ \A f \in Passed : f < lo => lo - f > RepeatMaxGapDays
            /\ \A x \in linked : x # hi => \E z \in linked : x < z /\ z - x <= RepeatMaxGapDays
        BY <3>1 DEF InHand
      <3>3. lo \in Nat /\ hi \in Nat /\ lo < m /\ hi < m
        BY <1>1, <1>4
      <3>4. m - hi <= RepeatMaxGapDays
        <4>1. Q!Max(linked) = hi
          BY <3>1, HandIs
        <4> QED
          BY <1>2, <2>2, <4>1 DEF Q!Linked
      <3>5. lo \in linked' /\ m \in linked'
        BY <1>2
      <3>6. linked' = {f \in Passed' : lo <= f}
        <4>1. \A f : f \in linked <=> f \in Passed /\ lo <= f
          BY <3>2
        <4>2. lo <= m
          BY <1>1, <3>3
        <4>3. \A f : f \in linked' <=> f \in Passed' /\ lo <= f
          BY <1>2, <1>4, <4>1, <4>2
        <4> QED
          BY <4>3
      <3>7. \A f \in Passed' : f <= m
        BY <1>1, <1>4
      <3>8. \A f \in Passed' : f < lo => lo - f > RepeatMaxGapDays
        BY <1>1, <1>4, <3>2, <3>3
      <3>9. \A x \in linked' : x # m => \E z \in linked' : x < z /\ z - x <= RepeatMaxGapDays
        <4> SUFFICES ASSUME NEW x \in linked, x # m
                     PROVE  \E z \in linked' : x < z /\ z - x <= RepeatMaxGapDays
          BY <1>2
        <4>1. CASE x = hi
          BY <3>3, <3>4, <3>5, <4>1
        <4>2. CASE x # hi
          <5>1. PICK z \in linked : x < z /\ z - x <= RepeatMaxGapDays
            BY <3>2, <4>2
          <5> QED
            BY <1>2, <5>1
        <4> QED
          BY <4>1, <4>2
      <3>10. InHand(lo, m)'
        BY <3>5, <3>6, <3>7, <3>8, <3>9 DEF InHand
      <3> QED
        BY <3>5, <3>10
    <2> QED
      BY <2>1, <2>2
  <1>8. \A s \in spans' : s \in Q!Day \X Q!Day /\ Repeated(s[1], s[2])'
    BY <1>3 DEF QualityInv
  <1>9. Spanned(Passed \ linked)'
    <2>1. (Passed \ linked)' = Passed \ linked
      <3>1. m \notin Passed
        BY <1>1 DEF Passed
      <3>2. Passed' \ linked' = Passed \ linked
        BY <1>2, <1>4, <3>1
      <3> QED
        BY <3>2
    <2>2. \A a \in Q!Flagged, b \in Passed \ linked : Repeated(a, b) => \E s \in spans : s[1] <= a /\ b <= s[2]
      BY DEF QualityInv, Spanned
    <2> QED
      BY <1>3, <2>1, <2>2 DEF Spanned
  <1>10. (kept = Kept)'
    BY DEF QualityInv, Kept
  <1> QED
    BY <1>5, <1>6, <1>7, <1>8, <1>9, <1>10 DEF QualityInv, Q!Day

(* A day beyond the largest gap closes the chain and starts the next.        *)
LEMMA BreakStep ==
  ASSUME QualityConstants, QualityInv, masking = "repeat", ds # {}, linked # {},
         ~Q!Linked(Q!Min(ds)), Q!Close,
         linked' = {Q!Min(ds)}, ds' = ds \ {Q!Min(ds)},
         UNCHANGED <<kind, masking, kept>>
  PROVE  QualityInv'
  <1>0. PICK m \in ds : m = Q!Min(ds)
    BY NextFlag
  <1>1. /\ m \in ds /\ m \in Q!Flagged /\ m \in Nat
        /\ \A w \in ds : w \in Nat /\ m <= w
        /\ \A a \in Passed : a \in Nat /\ a < m
    BY <1>0, NextFlag
  <1>2. linked' = {m} /\ ds' = ds \ {m} /\ ~Q!Linked(m)
    BY <1>0
  <1>3. Q!Flagged' = Q!Flagged /\ Q!Readings' = Q!Readings /\ \A a, b : Repeated(a, b)' <=> Repeated(a, b)
    BY SameFlags
  <1>4. Passed' = Passed \cup {m} /\ linked \subseteq Passed /\ m \notin Passed
    BY <1>1, <1>2, <1>3 DEF Passed, QualityInv
  <1>5. ds' \subseteq Q!Flagged' /\ linked' \subseteq Passed' /\ linked' # {}
    BY <1>2, <1>3, <1>4 DEF QualityInv
  <1>6. \A a \in Passed', b \in ds' : a < b
    BY <1>1, <1>2, <1>4
  <1>7. InHand(m, m)'
    <2>1. PICK lo \in linked, hi \in linked : InHand(lo, hi)
      BY DEF QualityInv
    <2>2. Q!Max(linked) = hi /\ hi \in Nat /\ RepeatMaxGapDays \in Nat
      BY <1>1, <1>4, <2>1, HandIs DEF QualityConstants
    <2>3. m - hi > RepeatMaxGapDays
      BY <1>1, <1>2, <2>2 DEF Q!Linked
    <2>4. \A f \in Passed : f <= hi
      BY <2>1 DEF InHand
    <2>5. \A f \in Passed' : f < m => m - f > RepeatMaxGapDays
      BY <1>1, <1>4, <2>2, <2>3, <2>4
    <2>6. linked' = {f \in Passed' : m <= f}
      <3>1. \A f \in Passed : ~(m <= f)
        BY <1>1
      <3>2. \A f : f \in linked' <=> f \in Passed' /\ m <= f
        BY <1>1, <1>2, <1>4, <3>1
      <3> QED
        BY <3>2
    <2>7. \A f \in Passed' : f <= m
      BY <1>1, <1>4
    <2>8. m \in linked' /\ \A x \in linked' : x = m
      BY <1>2
    <2> QED
      BY <2>5, <2>6, <2>7, <2>8 DEF InHand
  <1>8. \A s \in spans' : s \in Q!Day \X Q!Day /\ Repeated(s[1], s[2])'
    BY <1>3, CloseSpans
  <1>9. Spanned(Passed \ linked)'
    <2>1. Passed' \ linked' = Passed
      BY <1>2, <1>4
    <2>2. \A a \in Q!Flagged, b \in Passed : Repeated(a, b) => \E s \in spans' : s[1] <= a /\ b <= s[2]
      BY CloseSpans
    <2> QED
      BY <1>3, <2>1, <2>2 DEF Spanned
  <1>10. (kept = Kept)'
    BY DEF QualityInv, Kept
  <1> QED
    BY <1>2, <1>5, <1>6, <1>7, <1>8, <1>9, <1>10 DEF QualityInv, Q!Day

(* After the last day.                                                       *)
LEMMA EndStep ==
  ASSUME QualityConstants, QualityInv, masking = "repeat", ds = {},
         \/ linked = {} /\ UNCHANGED spans
         \/ linked # {} /\ Q!Close,
         masking' = "first", UNCHANGED <<kind, ds, linked, kept>>
  PROVE  QualityInv'
  <1>1. Q!Flagged' = Q!Flagged /\ Q!Readings' = Q!Readings /\ \A a, b : Repeated(a, b)' <=> Repeated(a, b)
    BY SameFlags
  <1>2. Passed' = Passed /\ linked' = linked /\ ds' = {} /\ linked \subseteq Passed
    BY <1>1 DEF Passed, QualityInv
  <1>3. linked # {} => \E lo \in linked, hi \in linked : InHand(lo, hi)
    BY DEF QualityInv
  <1>4. \A lo, hi : InHand(lo, hi) => InHand(lo, hi)'
    BY <1>2 DEF InHand
  <1>5. /\ \A s \in spans' : s \in Q!Day \X Q!Day /\ Repeated(s[1], s[2])
        /\ \A a \in Q!Flagged, b \in Passed :
               Repeated(a, b) => \E s \in spans' : s[1] <= a /\ b <= s[2]
    <2>1. CASE linked = {} /\ UNCHANGED spans
      BY <2>1 DEF QualityInv, Spanned
    <2>2. CASE linked # {} /\ Q!Close
      BY <2>2, CloseSpans
    <2> QED
      BY <2>1, <2>2
  <1>6. Spanned(Passed \ linked)' /\ Spanned(linked)'
    <2>1. \A b \in Passed \ linked : b \in Passed
      OBVIOUS
    <2>2. \A b \in linked : b \in Passed
      BY <1>2
    <2>3. (Passed \ linked)' = Passed \ linked
      BY <1>2
    <2> QED
      BY <1>1, <1>2, <1>5, <2>1, <2>2, <2>3 DEF Spanned
  <1>7. (kept = Kept)'
    BY DEF QualityInv, Kept
  <1>8. \A s \in spans' : s \in Q!Day \X Q!Day /\ Repeated(s[1], s[2])'
    BY <1>1, <1>5
  <1>9. linked = {} => Passed = {}
    BY DEF QualityInv
  <1> QED
    BY <1>2, <1>3, <1>4, <1>6, <1>7, <1>8, <1>9 DEF QualityInv, Q!Day

LEMMA RepeatStep ==
  ASSUME QualityConstants, QualityInv, Q!Repeat
  PROVE  QualityInv'
  <1>1. masking = "repeat" /\ UNCHANGED <<kind, kept>>
    BY DEF Q!Repeat
  <1>2. CASE ds = {} /\ linked = {} /\ masking' = "first" /\ UNCHANGED <<ds, linked, spans>>
    BY <1>1, <1>2, EndStep
  <1>3. CASE /\ ds # {} /\ (linked # {} => Q!Linked(Q!Min(ds)))
             /\ linked' = linked \cup {Q!Min(ds)} /\ ds' = ds \ {Q!Min(ds)}
             /\ UNCHANGED <<masking, spans>>
    BY <1>1, <1>3, LinkStep
  <1>4. CASE /\ ds # {} /\ linked # {} /\ ~Q!Linked(Q!Min(ds)) /\ Q!Close
             /\ linked' = {Q!Min(ds)} /\ ds' = ds \ {Q!Min(ds)}
             /\ UNCHANGED masking
    BY <1>1, <1>4, BreakStep
  <1>5. CASE ds = {} /\ linked # {} /\ Q!Close /\ masking' = "first" /\ UNCHANGED <<ds, linked>>
    BY <1>1, <1>5, EndStep
  <1> QED
    BY <1>2, <1>3, <1>4, <1>5 DEF Q!Repeat

(* A year is written with every reading of it that no mask covers.           *)
LEMMA WriteYearStep ==
  ASSUME QualityConstants, QualityInv, Q!WriteYear
  PROVE  QualityInv'
  <1>1. /\ UNCHANGED <<kind, ds, linked, spans>> /\ masking \in {"first", "second"}
        /\ masking' = IF masking = "first" THEN "second" ELSE "done"
        /\ kept' = kept \cup {r \in Q!Readings : Q!YearOf(r) = masking /\ ~Q!InSpan(r[1])}
    BY DEF Q!WriteYear
  <1>2. Q!Flagged' = Q!Flagged /\ Q!Readings' = Q!Readings /\ \A a, b : Repeated(a, b)' <=> Repeated(a, b)
    BY <1>1, SameFlags
  <1>3. Passed' = Passed
    BY <1>1, <1>2 DEF Passed
  <1>4. \A d : Q!InSpan(d)' <=> Q!InSpan(d)
    BY <1>1 DEF Q!InSpan, Q!DayMasks, Q!StuckRuns, Q!Runs, Q!RunOf, Q!Zero, Q!Rainy, Q!Flagged, Q!Of, Q!Day
  <1>5. \A r : Q!YearOf(r) \in {"first", "second"}
    BY DEF Q!YearOf
  <1>6. (kept = Kept)'
    <2>1. CASE masking = "first"
      <3>1. kept = {}
        BY <2>1 DEF QualityInv, Kept
      <3>2. kept' = {r \in Q!Readings : Q!YearOf(r) = "first" /\ ~Q!InSpan(r[1])}
        BY <1>1, <2>1, <3>1
      <3>3. masking' = "second"
        BY <1>1, <2>1
      <3>4. kept' = {r \in Q!Readings' : Q!YearOf(r) = "first" /\ ~Q!InSpan(r[1])'}
        BY <1>2, <1>4, <3>2
      <3> QED
        BY <3>3, <3>4 DEF Kept, Q!YearOf
    <2>2. CASE masking = "second"
      <3>1. kept = {r \in Q!Readings : Q!YearOf(r) = "first" /\ ~Q!InSpan(r[1])}
        BY <2>2 DEF QualityInv, Kept
      <3>2. kept' = {r \in Q!Readings : ~Q!InSpan(r[1])}
        BY <1>1, <1>5, <2>2, <3>1
      <3>3. masking' = "done"
        BY <1>1, <2>2
      <3>4. kept' = {r \in Q!Readings' : ~Q!InSpan(r[1])'}
        BY <1>2, <1>4, <3>2
      <3> QED
        BY <3>3, <3>4 DEF Kept
    <2> QED
      BY <1>1, <2>1, <2>2
  <1>7. \A lo, hi : InHand(lo, hi) => InHand(lo, hi)'
    BY <1>1, <1>3 DEF InHand
  <1>8. Spanned(Passed \ linked)' /\ Spanned(linked)'
    BY <1>1, <1>2, <1>3 DEF QualityInv, Spanned
  <1>9. \A s \in spans' : s \in Q!Day \X Q!Day /\ Repeated(s[1], s[2])'
    BY <1>1, <1>2 DEF QualityInv
  <1>10. masking' \in {"second", "done"} /\ ds = {}
    BY <1>1 DEF QualityInv
  <1>11. linked # {} => \E lo \in linked', hi \in linked' : InHand(lo, hi)'
    BY <1>1, <1>7 DEF QualityInv
  <1>12. ds' \subseteq Q!Flagged' /\ linked' \subseteq Passed' /\ (linked' = {} => Passed' = {})
    BY <1>1, <1>2, <1>3 DEF QualityInv
  <1> QED
    BY <1>1, <1>6, <1>8, <1>9, <1>10, <1>11, <1>12 DEF QualityInv, Q!Day

LEMMA QualityStart ==
  ASSUME Q!Init
  PROVE  QualityInv
  <1>1. /\ masking = "repeat" /\ ds = Q!Flagged /\ linked = {} /\ spans = {} /\ kept = {}
    BY DEF Q!Init
  <1>2. Passed = {}
    BY <1>1 DEF Passed
  <1> QED
    BY <1>1, <1>2 DEF QualityInv, Spanned, Kept

LEMMA QualityStep ==
  ASSUME QualityConstants, QualityInv, Q!Next \/ UNCHANGED qualityVars
  PROVE  QualityInv'
  <1>1. CASE Q!Repeat
    BY <1>1, RepeatStep
  <1>2. CASE Q!WriteYear
    BY <1>2, WriteYearStep
  <1>3. CASE UNCHANGED qualityVars
    <2>1. UNCHANGED <<kind, masking, ds, linked, spans, kept>>
      BY <1>3 DEF qualityVars
    <2>2. /\ Q!Flagged' = Q!Flagged /\ Q!Readings' = Q!Readings
          /\ \A a, b : Repeated(a, b)' <=> Repeated(a, b)
      BY <2>1, SameFlags
    <2>3. Passed' = Passed
      BY <2>1, <2>2 DEF Passed
    <2>4. \A d : Q!InSpan(d)' <=> Q!InSpan(d)
      BY <2>1 DEF Q!InSpan, Q!DayMasks, Q!StuckRuns, Q!Runs, Q!RunOf, Q!Zero, Q!Rainy, Q!Flagged, Q!Of, Q!Day
    <2>5. Kept' = Kept
      BY <2>1, <2>2, <2>4 DEF Kept, Q!YearOf
    <2>6. \A lo, hi : InHand(lo, hi) => InHand(lo, hi)'
      BY <2>1, <2>3 DEF InHand
    <2>7. Spanned(Passed \ linked)' /\ (Spanned(linked) => Spanned(linked)')
      BY <2>1, <2>2, <2>3 DEF QualityInv, Spanned
    <2>8. \A s \in spans' : s \in Q!Day \X Q!Day /\ Repeated(s[1], s[2])'
      BY <2>1, <2>2 DEF QualityInv
    <2>9. linked # {} => \E lo \in linked', hi \in linked' : InHand(lo, hi)'
      BY <2>1, <2>6 DEF QualityInv
    <2>10. ds' \subseteq Q!Flagged' /\ linked' \subseteq Passed' /\ (linked' = {} => Passed' = {})
      BY <2>1, <2>2, <2>3 DEF QualityInv
    <2>11. \A a \in Passed', b \in ds' : a < b
      BY <2>1, <2>3 DEF QualityInv
    <2> QED
      BY <2>1, <2>5, <2>7, <2>8, <2>9, <2>10, <2>11 DEF QualityInv, Q!Day
  <1> QED
    BY <1>1, <1>2, <1>3 DEF Q!Next

-----------------------------------------------------------------------------
(* Rule A: the runs of zero days are those with the same rainy days before   *)
(* them.                                                                     *)

LEMMA SameRun ==
  ASSUME Days \in Nat, NEW a \in Q!Zero, NEW b \in Q!Zero, a <= b
  PROVE  Q!RunOf(a) = Q!RunOf(b) <=> (a .. b) \cap Q!Rainy = {}
  <1> DEFINE ByA == {r \in Q!Rainy : r <= a}
             ByB == {r \in Q!Rainy : r <= b}
  <1>1. /\ Q!Rainy \subseteq Q!Day /\ Q!Zero \subseteq Q!Day /\ Q!Day \subseteq Nat
        /\ a \in Nat /\ b \in Nat
    BY DaysAre
  <1>2. Q!RunOf(a) = Cardinality(ByA) /\ Q!RunOf(b) = Cardinality(ByB)
    BY QCardinality DEF Q!RunOf
  <1>3. ByA \subseteq ByB
    <2>1. ASSUME NEW r \in Q!Rainy, r <= a PROVE r <= b
      BY <1>1, <2>1
    <2> QED
      BY <2>1
  <1>4. Cardinality(ByA) = Cardinality(ByB) => ByA = ByB
    <2>1. ByB \subseteq Q!Day
      BY <1>1
    <2> HIDE DEF ByA, ByB
    <2> QED
      BY <1>3, <2>1, DaysCount
  <1>5. a \notin Q!Rainy
    BY DEF Q!Zero, Q!Rainy, Q!Of
  <1>6. ByA = ByB <=> (a .. b) \cap Q!Rainy = {}
    <2>1. ASSUME ByA = ByB, NEW r \in (a .. b) \cap Q!Rainy PROVE FALSE
      <3>1. a <= r /\ r <= b /\ r \in Q!Rainy /\ r \in Nat
        BY <1>1
      <3>2. r \in ByA
        BY <2>1, <3>1
      <3>3. r = a
        BY <1>1, <3>1, <3>2
      <3> QED
        BY <1>5, <3>1, <3>3
    <2>2. ASSUME (a .. b) \cap Q!Rainy = {}, NEW r \in ByB PROVE r \in ByA
      <3>1. r \in Q!Rainy /\ r \in Nat /\ r <= b
        BY <1>1
      <3>2. r \notin a .. b
        BY <2>2, <3>1
      <3>3. r <= a
        BY <1>1, <3>1, <3>2
      <3> QED
        BY <3>1, <3>3
    <2> QED
      BY <1>3, <2>1, <2>2
  <1> QED
    BY <1>2, <1>4, <1>6

(* A run lies between its first and its last day.                            *)
LEMMA RunBounds ==
  ASSUME Days \in Nat, NEW e \in Q!Zero, NEW run, run = {z \in Q!Zero : Q!RunOf(z) = Q!RunOf(e)}
  PROVE  /\ Q!Min(run) \in run /\ Q!Max(run) \in run
         /\ \A z \in run : Q!Min(run) <= z /\ z <= Q!Max(run)
  <1>1. run \subseteq Q!Day /\ run # {} /\ Q!Day \subseteq Nat
    <2>1. e \in run /\ run \subseteq Q!Zero
      OBVIOUS
    <2> QED
      BY <2>1, DaysAre
  <1>2. PICK m \in run : \A z \in run : m <= z
    BY <1>1, FirstDay
  <1>3. PICK n \in run : \A z \in run : z <= n
    BY <1>1, LastDay
  <1>4. run \subseteq Int
    <2>1. \A x \in Nat : x \in Int
      OBVIOUS
    <2> QED
      BY <1>1, <2>1, Zenon
  <1>5. Q!Min(run) = m
    BY <1>2, <1>4, QMinIs
  <1>6. Q!Max(run) = n
    BY <1>3, <1>4, QMaxIs
  <1> QED
    BY <1>2, <1>3, <1>5, <1>6

LEMMA RunsAreStuck ==
  ASSUME Days \in Nat, StuckMinWetDays \in Nat, NEW d \in Int
  PROVE  (\E m \in Q!StuckRuns : m[1] <= d /\ d <= m[2]) <=> Q!StuckZero(d)
  <1> DEFINE Wet == Q!Of({"wet"})
  <1>1. /\ Q!Zero \subseteq Q!Day /\ Q!Day \subseteq Nat /\ Wet \subseteq Q!Day /\ Wet \subseteq Q!Zero
    <2>1. Wet \subseteq Q!Zero
      BY DEF Q!Zero, Q!Of
    <2> QED
      BY <2>1, DaysAre
  <1>2. ASSUME NEW m \in Q!StuckRuns, m[1] <= d, d <= m[2] PROVE Q!StuckZero(d)
    <2>1. PICK run \in Q!Runs : /\ Q!Cardinality(run \cap Wet) >= StuckMinWetDays
                                /\ m = <<Q!Min(run), Q!Max(run)>>
      BY DEF Q!StuckRuns
    <2>2. PICK e \in Q!Zero : run = {z \in Q!Zero : Q!RunOf(z) = Q!RunOf(e)}
      BY DEF Q!Runs
    <2>3. PICK a \in run, b \in run : a = Q!Min(run) /\ b = Q!Max(run) /\ \A z \in run : a <= z /\ z <= b
      BY <2>2, RunBounds
    <2>4. m[1] = a /\ m[2] = b
      BY <2>1, <2>3
    <2>5. a \in Q!Zero /\ b \in Q!Zero /\ a <= b /\ Q!RunOf(a) = Q!RunOf(b)
      BY <2>2, <2>3
    <2>6. (a .. b) \cap Q!Rainy = {}
      BY <2>5, SameRun
    <2>7. run \cap Wet \in SUBSET ((a .. b) \cap Wet)
      <3>1. \A z \in run : z \in Nat /\ a \in Nat /\ b \in Nat /\ a <= z /\ z <= b
        BY <1>1, <2>2, <2>3, <2>5
      <3> QED
        BY <3>1
    <2>8. (a .. b) \cap Wet \subseteq Q!Day
      BY <1>1
    <2> DEFINE S == (a .. b) \cap Wet
               T == run \cap Wet
    <2> HIDE DEF Wet
    <2>9. /\ Cardinality(T) <= Cardinality(S)
          /\ Cardinality(S) \in Nat /\ Cardinality(T) \in Nat
      <3>1. S \subseteq Q!Day /\ T \in SUBSET S /\ T \subseteq Q!Day
        BY <2>7, <2>8
      <3> HIDE DEF S, T
      <3> QED
        BY <3>1, DaysCount
    <2>10. Cardinality(T) >= StuckMinWetDays
      BY <2>1, QCardinality
    <2>11. Q!Cardinality((a .. b) \cap Wet) >= StuckMinWetDays
      <3>1. Cardinality(S) >= StuckMinWetDays
        BY <2>9, <2>10
      <3> QED
        BY <3>1, QCardinality
    <2> QED
      BY <1>2, <2>4, <2>5, <2>6, <2>11 DEF Q!StuckZero, Wet
  <1>3. ASSUME Q!StuckZero(d) PROVE \E m \in Q!StuckRuns : m[1] <= d /\ d <= m[2]
    <2>1. PICK a \in Q!Zero, b \in Q!Zero :
                /\ a <= d /\ d <= b /\ (a .. b) \cap Q!Rainy = {}
                /\ Q!Cardinality((a .. b) \cap Wet) >= StuckMinWetDays
      BY <1>3 DEF Q!StuckZero
    <2>2. a \in Nat /\ b \in Nat /\ a <= b
      BY <1>1, <2>1
    <2> DEFINE run == {z \in Q!Zero : Q!RunOf(z) = Q!RunOf(a)}
    <2>3. ASSUME NEW z \in Q!Zero, z \in a .. b PROVE z \in run
      <3>1. a <= z /\ z <= b /\ z \in Nat
        BY <1>1, <2>2, <2>3
      <3>2. a .. z \subseteq a .. b
        BY <2>2, <3>1
      <3>3. (a .. z) \cap Q!Rainy = {}
        BY <2>1, <3>2
      <3>4. Q!RunOf(a) = Q!RunOf(z)
        BY <3>1, <3>3, SameRun
      <3> QED
        BY <3>4
    <2>4. a \in run /\ b \in run
      <3>1. a \in a .. b /\ b \in a .. b
        BY <2>2
      <3> QED
        BY <2>3, <3>1
    <2>5. /\ Q!Min(run) \in run /\ Q!Max(run) \in run
          /\ \A z \in run : Q!Min(run) <= z /\ z <= Q!Max(run)
      BY RunBounds
    <2>6. run \in Q!Runs /\ run \subseteq Q!Day
      BY <1>1 DEF Q!Runs
    <2> DEFINE S == run \cap Wet
               T == (a .. b) \cap Wet
    <2>7. S \subseteq Q!Day /\ T \subseteq Q!Day /\ T \in SUBSET S
      BY <1>1, <2>3
    <2> HIDE DEF run, Wet
    <2>8. /\ Cardinality(T) <= Cardinality(S) /\ Cardinality(S) \in Nat /\ Cardinality(T) \in Nat
      <3> HIDE DEF S, T
      <3> QED
        BY <2>7, DaysCount
    <2>9. Cardinality(T) >= StuckMinWetDays
      BY <2>1, QCardinality
    <2>10. Q!Cardinality(run \cap Wet) >= StuckMinWetDays
      <3>1. Cardinality(S) >= StuckMinWetDays
        BY <2>8, <2>9
      <3> QED
        BY <3>1, QCardinality
    <2> DEFINE m == <<Q!Min(run), Q!Max(run)>>
    <2>11. m \in Q!StuckRuns
      BY <2>6, <2>10 DEF Q!StuckRuns, Wet
    <2>12. m[1] = Q!Min(run) /\ m[2] = Q!Max(run)
      OBVIOUS
    <2>13. Q!Min(run) <= d /\ d <= Q!Max(run)
      <3>1. Q!Min(run) \in Nat /\ Q!Max(run) \in Nat
        BY <1>1, <2>5, <2>6
      <3>2. Q!Min(run) <= a /\ b <= Q!Max(run)
        BY <2>4, <2>5
      <3> QED
        BY <2>1, <2>2, <3>1, <3>2
    <2> HIDE DEF m
    <2> QED
      BY <2>11, <2>12, <2>13
  <1> QED
    BY <1>2, <1>3

-----------------------------------------------------------------------------
(* The spans found and the chains of the rule mask the same days.            *)
LEMMA SpansAreRepeated ==
  ASSUME QualityConstants, QualityInv, masking = "done", NEW d \in Int
  PROVE  (\E s \in spans : s[1] - DayBuffer <= d /\ d <= s[2] + DayBuffer) <=> Q!RepeatedFlags(d)
  <1>1. Q!Flagged \subseteq Nat /\ DayBuffer \in Nat
    BY DaysAre DEF QualityConstants
  <1>2. /\ \A s \in spans : s \in Q!Day \X Q!Day /\ Repeated(s[1], s[2])
        /\ \A a, b \in Q!Flagged : Repeated(a, b) => \E s \in spans : s[1] <= a /\ b <= s[2]
    <2>1. ds = {} /\ Spanned(linked) /\ Spanned(Passed \ linked) /\ Passed = Q!Flagged
      BY DEF QualityInv, Passed
    <2> QED
      BY <2>1 DEF QualityInv, Spanned
  <1>3. Q!RepeatedFlags(d) <=> \E a, b \in Q!Flagged :
            a - DayBuffer <= d /\ d <= b + DayBuffer /\ Repeated(a, b)
    BY QCardinality DEF Q!RepeatedFlags, Repeated, Chained
  <1>4. ASSUME NEW s \in spans, s[1] - DayBuffer <= d, d <= s[2] + DayBuffer
        PROVE  Q!RepeatedFlags(d)
    <2>1. Repeated(s[1], s[2]) /\ s[1] \in Q!Flagged /\ s[2] \in Q!Flagged
      BY <1>2 DEF Repeated
    <2> QED
      BY <1>3, <1>4, <2>1
  <1>5. ASSUME NEW a \in Q!Flagged, NEW b \in Q!Flagged,
               a - DayBuffer <= d, d <= b + DayBuffer, Repeated(a, b)
        PROVE  \E s \in spans : s[1] - DayBuffer <= d /\ d <= s[2] + DayBuffer
    <2>1. PICK s \in spans : s[1] <= a /\ b <= s[2]
      BY <1>2, <1>5
    <2>2. s[1] \in Nat /\ s[2] \in Nat
      BY <1>1, <1>2 DEF Repeated
    <2>3. s[1] - DayBuffer <= d /\ d <= s[2] + DayBuffer
      BY <1>1, <1>5, <2>1, <2>2
    <2> QED
      BY <2>3
  <1> QED
    BY <1>3, <1>4, <1>5

LEMMA InSpanIs ==
  ASSUME QualityConstants, QualityInv, masking = "done", NEW d \in Int
  PROVE  Q!InSpan(d) <=> \/ Q!StuckZero(d) \/ Q!RepeatedFlags(d)
                         \/ \E f \in Q!Flagged : d \in f - DayBuffer .. f + DayBuffer
  <1>1. Q!InSpan(d) <=> \/ \E m \in Q!StuckRuns : m[1] <= d /\ d <= m[2]
                        \/ \E f \in Q!Flagged : f - DayBuffer <= d /\ d <= f + DayBuffer
                        \/ \E s \in spans : s[1] - DayBuffer <= d /\ d <= s[2] + DayBuffer
    <2>1. \A f \in Q!Flagged : /\ <<f - DayBuffer, f + DayBuffer>>[1] = f - DayBuffer
                               /\ <<f - DayBuffer, f + DayBuffer>>[2] = f + DayBuffer
      OBVIOUS
    <2>2. \A s \in spans : /\ <<s[1] - DayBuffer, s[2] + DayBuffer>>[1] = s[1] - DayBuffer
                           /\ <<s[1] - DayBuffer, s[2] + DayBuffer>>[2] = s[2] + DayBuffer
      OBVIOUS
    <2> DEFINE Near == {<<f - DayBuffer, f + DayBuffer>> : f \in Q!Flagged}
               Wide == {<<s[1] - DayBuffer, s[2] + DayBuffer>> : s \in spans}
    <2>3. (\E m \in Near : m[1] <= d /\ d <= m[2]) <=>
              \E f \in Q!Flagged : f - DayBuffer <= d /\ d <= f + DayBuffer
      BY <2>1
    <2>4. (\E m \in Wide : m[1] <= d /\ d <= m[2]) <=>
              \E s \in spans : s[1] - DayBuffer <= d /\ d <= s[2] + DayBuffer
      BY <2>2
    <2>5. Q!InSpan(d) <=> \E m \in Q!StuckRuns \cup Near \cup Wide : m[1] <= d /\ d <= m[2]
      BY DEF Q!InSpan, Q!DayMasks
    <2> HIDE DEF Near, Wide
    <2> QED
      BY <2>3, <2>4, <2>5
  <1>2. ASSUME NEW f \in Q!Flagged
        PROVE  f - DayBuffer <= d /\ d <= f + DayBuffer <=> d \in f - DayBuffer .. f + DayBuffer
    BY DaysAre DEF QualityConstants
  <1>3. (\E m \in Q!StuckRuns : m[1] <= d /\ d <= m[2]) <=> Q!StuckZero(d)
    BY RunsAreStuck DEF QualityConstants
  <1> QED
    BY <1>1, <1>2, <1>3, SpansAreRepeated

LEMMA QualityMatches ==
  ASSUME QualityConstants, QualityInv
  PROVE  Q!MaskIsRules
  <1> SUFFICES ASSUME masking = "done"
               PROVE  kept = {r \in Q!Readings :
                                 /\ ~Q!StuckZero(r[1]) /\ ~Q!RepeatedFlags(r[1])
                                 /\ \A d \in Q!Flagged : r[1] \notin (d - DayBuffer .. d + DayBuffer)}
    BY DEF Q!MaskIsRules
  <1>1. kept = {r \in Q!Readings : ~Q!InSpan(r[1])}
    BY DEF QualityInv, Kept
  <1>2. \A r \in Q!Readings : r[1] \in Int
    BY DEF Q!Readings, Q!Day
  <1>3. ASSUME NEW r \in Q!Readings
        PROVE  ~Q!InSpan(r[1]) <=>
                   /\ ~Q!StuckZero(r[1]) /\ ~Q!RepeatedFlags(r[1])
                   /\ \A d \in Q!Flagged : r[1] \notin (d - DayBuffer .. d + DayBuffer)
    BY <1>2, InSpanIs
  <1> QED
    BY <1>1, <1>3

(* What is written is every reading that no rule of the file's head masks,   *)
(* however the flags lie, over gaps and across the end of a year.            *)
THEOREM MasksAreRules ==
  ASSUME QualityConstants
  PROVE  JobSpec => []MaskIsRules
  <1>1. JobInit => (job = "quality" => QualityInv)
    BY JobStarts, QualityStart
  <1>2. (job = "quality" => QualityInv) /\ [JobNext]_jobVars => (job = "quality" => QualityInv)'
    BY QualityStep, JobSteps
  <1>3. (job = "quality" => QualityInv) => MaskIsRules
    BY QualityMatches DEF MaskIsRules
  <1> QED
    BY <1>1, <1>2, <1>3, PTL DEF JobSpec

-----------------------------------------------------------------------------
(* amount_models.py, train_binned.py *)

AmountConstants == IsFiniteSet(Sample) /\ J \in Nat

Over(k) == {r \in Sample : y[r] > 2 * k}

(* A fraction is a share of some rows.                                       *)
IsShareOf(q, part, whole) ==
    /\ q = <<q[1], q[2]>> /\ q[1] \in Nat /\ q[2] \in Nat \ {0}
    /\ q[1] * Cardinality(whole) = Cardinality(part) * q[2]

AmountInv ==
    /\ y \in [Sample -> Nat] /\ Over(0) # {}
    /\ bin \in 0 .. J
    /\ \A j \in 1 .. bin : IsShareOf(s_pos[j], Over(j), Over(0))

LEMMA ACardinality ==
  ASSUME NEW S
  PROVE  A!Cardinality(S) = Cardinality(S)
  BY Zenon DEF A!Cardinality, Cardinality

LEMMA AmountsAre ==
  ASSUME AmountConstants, y \in [Sample -> Nat]
  PROVE  /\ A!Wet = Over(0)
         /\ \A r \in Sample : y[r] \in Nat
         /\ \A k : Over(k) \subseteq Sample
         /\ \A S \in SUBSET Sample : IsFiniteSet(S) /\ Cardinality(S) \in Nat
         /\ \A S \in SUBSET Sample : S # {} => Cardinality(S) > 0
         /\ \A S \in SUBSET Sample : \A T \in SUBSET S : Cardinality(T) <= Cardinality(S)
         /\ \A S \in SUBSET Sample : \A T \in SUBSET S :
                Cardinality(S \ T) = Cardinality(S) - Cardinality(T)
  <1>1. \A r \in Sample : y[r] \in Nat
    OBVIOUS
  <1>2. A!Wet = Over(0)
    BY <1>1 DEF A!Wet, Over
  <1>3. \A k : Over(k) \subseteq Sample
    BY DEF Over
  <1>4. ASSUME NEW S \in SUBSET Sample
        PROVE  /\ IsFiniteSet(S) /\ Cardinality(S) \in Nat /\ (S # {} => Cardinality(S) > 0)
               /\ \A T \in SUBSET S : /\ Cardinality(T) <= Cardinality(S)
                                      /\ Cardinality(S \ T) = Cardinality(S) - Cardinality(T)
    <2>1. IsFiniteSet(S)
      BY FS_Subset DEF AmountConstants
    <2>2. Cardinality(S) \in Nat
      BY <2>1, FS_CardinalityType
    <2>3. S # {} => Cardinality(S) > 0
      BY <2>1, <2>2, FS_EmptySet
    <2>4. ASSUME NEW T \in SUBSET S
          PROVE  /\ Cardinality(T) <= Cardinality(S)
                 /\ Cardinality(S \ T) = Cardinality(S) - Cardinality(T)
      <3>1. Cardinality(T) <= Cardinality(S)
        BY <2>1, FS_Subset
      <3>2. Cardinality(S \ T) = Cardinality(S) - Cardinality(S \cap T)
        BY <2>1, FS_Difference
      <3>3. S \cap T = T
        OBVIOUS
      <3> QED
        BY <3>1, <3>2, <3>3
    <2> QED
      BY <2>1, <2>2, <2>3, <2>4
  <1> QED
    BY <1>1, <1>2, <1>3, <1>4

(* The class of an amount is the last edge below it.                         *)
LEMMA WetClassIs ==
  ASSUME AmountConstants, y \in [Sample -> Nat], NEW r \in Sample
  PROVE  /\ A!WetClass(r) \in 0 .. J
         /\ \A j \in 1 .. J : A!WetClass(r) >= j <=> y[r] > 2 * j
         /\ A!BinnedClass(r) = A!ClassOf(r)
  <1> DEFINE k0 == IF y[r] = 0 THEN 0 ELSE (y[r] - 1) \div 2
             k == IF k0 <= J THEN k0 ELSE J
  <1>1. y[r] \in Nat /\ J \in Nat
    BY DEF AmountConstants
  <1>2. k0 \in Nat /\ \A j \in Nat \ {0} : y[r] > 2 * j <=> j <= k0
    BY <1>1
  <1> HIDE DEF k0
  <1>3. k \in 0 .. J /\ \A j \in 1 .. J : y[r] > 2 * j <=> j <= k
    BY <1>1, <1>2
  <1> HIDE DEF k
  <1>4. {j \in 1 .. J : y[r] > A!Edge(j)} = 1 .. k
    BY <1>1, <1>3 DEF A!Edge
  <1>5. Cardinality(1 .. k) = k
    BY <1>3, FS_Interval
  <1>6. A!WetClass(r) = k
    BY <1>4, <1>5, ACardinality DEF A!WetClass
  <1>7. {j \in 1 .. J : A!Edge(j) < y[r]} = {j \in 1 .. J : y[r] > A!Edge(j)}
    BY <1>1 DEF A!Edge
  <1>8. A!BinnedClass(r) = A!ClassOf(r)
    BY <1>3, <1>6, <1>7 DEF A!BinnedClass, A!ClassOf, A!WetClass
  <1> QED
    BY <1>3, <1>6, <1>8

(* A row is asked about the edges it passes and the next.                    *)
LEMMA AskedIs ==
  ASSUME AmountConstants, y \in [Sample -> Nat], NEW j \in 1 .. J
  PROVE  /\ A!Asked(j) = Over(j - 1)
         /\ {r \in A!Asked(j) : A!WetClass(r) >= j} = Over(j)
  <1>1. J \in Nat /\ j \in Nat /\ 1 <= j /\ j <= J
    BY DEF AmountConstants
  <1>2. ASSUME NEW r \in Sample
        PROVE  /\ r \in A!Asked(j) <=> y[r] > 2 * (j - 1)
               /\ A!WetClass(r) >= j <=> y[r] > 2 * j
    <2>1. A!WetClass(r) \in 0 .. J /\ \A i \in 1 .. J : A!WetClass(r) >= i <=> y[r] > 2 * i
      BY WetClassIs
    <2>2. y[r] \in Nat
      OBVIOUS
    <2>3. ASSUME NEW u \in Int, NEW w \in Int PROVE A!Min({u, w}) = IF u <= w THEN u ELSE w
      BY <2>3 DEF A!Min
    <2>4. j \in A!BinsOf(r) <=> j <= A!WetClass(r) + 1
      <3>1. A!WetClass(r) + 1 \in Int
        BY <2>1
      <3>2. A!Min({A!WetClass(r) + 1, J}) = IF A!WetClass(r) + 1 <= J THEN A!WetClass(r) + 1 ELSE J
        BY <1>1, <2>3, <3>1
      <3> QED
        BY <1>1, <3>1, <3>2 DEF A!BinsOf
    <2>5. r \in A!Wet <=> y[r] > 0
      BY DEF A!Wet
    <2>6. r \in A!Asked(j) <=> y[r] > 0 /\ j <= A!WetClass(r) + 1
      BY <2>4, <2>5 DEF A!Asked
    <2>7. CASE j = 1
      BY <2>1, <2>2, <2>6, <2>7
    <2>8. CASE j # 1
      <3>1. j - 1 \in 1 .. J
        BY <1>1, <2>8
      <3>2. A!WetClass(r) >= j - 1 <=> y[r] > 2 * (j - 1)
        BY <2>1, <3>1
      <3> QED
        BY <1>1, <2>1, <2>2, <2>6, <3>1, <3>2
    <2> QED
      BY <2>7, <2>8
  <1>3. A!Asked(j) \subseteq Sample
    BY DEF A!Asked, A!Wet
  <1>4. ASSUME NEW r \in Sample, y[r] > 2 * j PROVE y[r] > 2 * (j - 1)
    BY <1>1, <1>4
  <1> QED
    BY <1>2, <1>3, <1>4 DEF Over

-----------------------------------------------------------------------------
(* Fractions.                                                                *)

LEMMA TimesIs ==
  ASSUME NEW a \in Int, NEW b \in Int, NEW w \in Int, NEW u \in Int, NEW d \in Int,
         u * w = a * d
  PROVE  (u * b) * w = b * (d * a)
  <1>1. (u * b) * w = b * (u * w)
    OBVIOUS
  <1>2. b * (a * d) = b * (d * a)
    OBVIOUS
  <1> QED
    BY <1>1, <1>2

LEMMA MinusIs ==
  ASSUME NEW u \in Int, NEW d \in Int, NEW v \in Int, NEW e \in Int,
         NEW a \in Int, NEW b \in Int, NEW w \in Int, u * w = a * d, v * w = b * e
  PROVE  (u * e - v * d) * w = (a - b) * (d * e)
  <1>1. (u * e - v * d) * w = (u * w) * e - (v * w) * d
    OBVIOUS
  <1>2. (a * d) * e - (b * e) * d = (a - b) * (d * e)
    OBVIOUS
  <1> QED
    BY <1>1, <1>2

LEMMA EqualMinus ==
  ASSUME NEW u \in Int, NEW d \in Int, NEW v \in Int, NEW e \in Int,
         NEW a \in Int, NEW b \in Int, NEW w \in Int,
         A!Equal(<<u, d>>, <<a, w>>), A!Equal(<<v, e>>, <<b, w>>)
  PROVE  A!Equal(A!Minus(<<u, d>>, <<v, e>>), <<a - b, w>>)
  <1>1. u * w = a * d /\ v * w = b * e
    BY DEF A!Equal
  <1>2. (u * e - v * d) * w = (a - b) * (d * e)
    BY <1>1, MinusIs
  <1> QED
    BY <1>2 DEF A!Equal, A!Minus

-----------------------------------------------------------------------------
(* One hazard more: the product stays the share of the rows above the edge.  *)
LEMMA AmountMultiply ==
  ASSUME AmountConstants, AmountInv, A!Multiply
  PROVE  AmountInv'
  <1> DEFINE j == bin + 1
  <1>1. /\ J \in Nat /\ bin \in Nat /\ bin < J /\ bin' = j /\ y' = y /\ j \in 1 .. J
        /\ y \in [Sample -> Nat]
    BY DEF A!Multiply, AmountInv, AmountConstants
  <1>2. PICK h \in A!Hazards(j) : s_pos' = [i \in 1 .. j |->
                IF i < j THEN s_pos[i] ELSE IF bin = 0 THEN h ELSE A!Times(s_pos[bin], h)]
    BY <1>1 DEF A!Multiply
  <1>3. /\ \A k : Over(k) \subseteq Sample /\ Cardinality(Over(k)) \in Nat
        /\ Over(j) \subseteq Over(j - 1)
        /\ Cardinality(Over(j)) <= Cardinality(Over(j - 1))
        /\ \A k : Over(k) # {} => Cardinality(Over(k)) > 0
    <2>1. Over(j) \subseteq Over(j - 1)
      BY <1>1 DEF Over
    <2> QED
      BY <1>1, <2>1, AmountsAre
  <1>4. A!Asked(j) = Over(j - 1) /\ {r \in A!Asked(j) : A!WetClass(r) >= j} = Over(j)
    BY <1>1, AskedIs
  <1>5. ASSUME Over(j - 1) # {} PROVE IsShareOf(s_pos'[j], Over(j), Over(0))
    <2>1. h = <<Cardinality(Over(j)), Cardinality(Over(j - 1))>>
      BY <1>2, <1>4, <1>5, ACardinality DEF A!Hazards, A!Share
    <2>2. IsShareOf(s_pos'[j], Over(j), Over(0))
      <3>1. CASE bin = 0
        <4>1. s_pos'[j] = h /\ j - 1 = 0
          BY <1>1, <1>2, <3>1
        <4> QED
          BY <1>3, <1>5, <2>1, <4>1 DEF IsShareOf
      <3>2. CASE bin # 0
        <4> DEFINE q == s_pos[bin]
        <4>1. s_pos'[j] = A!Times(q, h)
          BY <1>1, <1>2, <3>2
        <4>2. bin \in 1 .. bin /\ j - 1 = bin
          BY <1>1, <3>2
        <4>3. IsShareOf(q, Over(bin), Over(0))
          BY <4>2 DEF AmountInv
        <4> HIDE DEF q, j
        <4>4. A!Times(q, h) = <<q[1] * Cardinality(Over(j)), q[2] * Cardinality(Over(j - 1))>>
          BY <2>1 DEF A!Times
        <4>5. /\ q[1] \in Nat /\ q[2] \in Nat \ {0}
              /\ q[1] * Cardinality(Over(0)) = Cardinality(Over(j - 1)) * q[2]
          BY <4>2, <4>3 DEF IsShareOf
        <4>6. (q[1] * Cardinality(Over(j))) * Cardinality(Over(0))
                 = Cardinality(Over(j)) * (q[2] * Cardinality(Over(j - 1)))
          BY <1>3, <4>5, TimesIs
        <4>7. /\ q[1] * Cardinality(Over(j)) \in Nat
              /\ q[2] * Cardinality(Over(j - 1)) \in Nat \ {0}
          <5>1. \A m, n \in Nat : m * n \in Nat /\ (m # 0 /\ n # 0 => m * n # 0)
            OBVIOUS
          <5> QED
            BY <1>3, <1>5, <4>5, <5>1
        <4> QED
          BY <4>1, <4>4, <4>6, <4>7 DEF IsShareOf
      <3> QED
        BY <3>1, <3>2
    <2> QED
      BY <2>2
  <1>6. ASSUME Over(j - 1) = {} PROVE IsShareOf(s_pos'[j], Over(j), Over(0))
    <2>1. h \in {<<0, 1>>, <<1, 2>>, <<1, 1>>}
      BY <1>2, <1>4, <1>6 DEF A!Hazards
    <2>2. bin # 0 /\ bin \in 1 .. bin /\ j - 1 = bin
      BY <1>1, <1>6 DEF AmountInv
    <2> DEFINE q == s_pos[bin]
    <2>3. s_pos'[j] = A!Times(q, h)
      BY <1>1, <1>2, <2>2
    <2>4. IsShareOf(q, Over(bin), Over(0))
      BY <2>2 DEF AmountInv
    <2> HIDE DEF q, j
    <2>5. Cardinality({}) = 0 /\ Over(j) = {}
      BY <1>3, <1>6, FS_EmptySet
    <2>6. q[1] \in Nat /\ q[2] \in Nat \ {0} /\ q[1] * Cardinality(Over(0)) = 0 * q[2]
      BY <1>6, <2>2, <2>4, <2>5 DEF IsShareOf
    <2>7. q[1] = 0
      <3>1. Cardinality(Over(0)) \in Nat /\ Cardinality(Over(0)) > 0
        BY <1>3 DEF AmountInv
      <3>2. q[1] * Cardinality(Over(0)) = 0
        BY <2>6
      <3> QED
        BY <2>6, <3>1, <3>2
    <2>8. A!Times(q, h) = <<0, q[2] * h[2]>> /\ q[2] * h[2] \in Nat \ {0}
      <3>1. h[1] \in Nat /\ h[2] \in {1, 2}
        BY <2>1
      <3>2. 0 * h[1] = 0 /\ q[2] * h[2] \in Nat \ {0}
        BY <2>6, <3>1
      <3> QED
        BY <2>7, <3>2 DEF A!Times
    <2>9. IsShareOf(s_pos'[j], Over(j), Over(0))
      <3>1. Cardinality(Over(0)) \in Nat
        BY <1>3
      <3>2. 0 * Cardinality(Over(0)) = 0 /\ Cardinality(Over(j)) * (q[2] * h[2]) = 0
        BY <2>5, <2>8, <3>1
      <3> QED
        BY <2>3, <2>8, <3>2 DEF IsShareOf
    <2> QED
      BY <2>9
  <1>7. ASSUME NEW i \in 1 .. j PROVE IsShareOf(s_pos'[i], Over(i), Over(0))
    <2>1. CASE i = j
      BY <1>5, <1>6, <2>1
    <2>2. CASE i # j
      <3>1. i \in 1 .. bin /\ s_pos'[i] = s_pos[i]
        BY <1>1, <1>2, <2>2
      <3> QED
        BY <3>1 DEF AmountInv
    <2> QED
      BY <2>1, <2>2
  <1>8. \A k : Over(k)' = Over(k)
    BY <1>1 DEF Over
  <1>9. \A i \in 1 .. bin' : IsShareOf(s_pos[i], Over(i), Over(0))'
    <2>1. \A i \in 1 .. bin' : IsShareOf(s_pos'[i], Over(i)', Over(0)')
      BY <1>1, <1>7, <1>8
    <2> QED
      BY <2>1 DEF IsShareOf
  <1> QED
    BY <1>1, <1>8, <1>9 DEF AmountInv

LEMMA AmountStep ==
  ASSUME AmountConstants, AmountInv, A!Next \/ UNCHANGED amountVars
  PROVE  AmountInv'
  <1>1. CASE A!Multiply
    BY <1>1, AmountMultiply
  <1>2. CASE UNCHANGED amountVars
    BY <1>2 DEF amountVars, AmountInv, IsShareOf, Over
  <1> QED
    BY <1>1, <1>2 DEF A!Next

LEMMA AmountStart ==
  ASSUME AmountConstants, A!Init
  PROVE  AmountInv
  <1>1. /\ y \in [Sample -> 0 .. A!Edge(J) + 1] /\ A!Wet # {} /\ bin = 0 /\ J \in Nat
    BY DEF A!Init, AmountConstants
  <1>2. y \in [Sample -> Nat]
    <2>1. 0 .. A!Edge(J) + 1 \subseteq Nat
      BY <1>1 DEF A!Edge
    <2> QED
      BY <1>1, <2>1
  <1>3. Over(0) # {}
    BY <1>1, <1>2, AmountsAre
  <1> QED
    BY <1>1, <1>2, <1>3 DEF AmountInv

-----------------------------------------------------------------------------
(* After the last hazard.                                                    *)
LEMMA WithPiIs ==
  ASSUME AmountConstants, AmountInv, bin = J, NEW k \in 0 .. J
  PROVE  /\ A!WithPi(k) = <<A!WithPi(k)[1], A!WithPi(k)[2]>>
         /\ A!WithPi(k)[1] \in Int /\ A!WithPi(k)[2] \in Int
         /\ A!Equal(A!WithPi(k), <<Cardinality(Over(k)), Cardinality(Sample)>>)
  <1> DEFINE W == Cardinality(Over(0))
             N0 == Cardinality(Sample)
             Ak == Cardinality(Over(k))
  <1>1. W \in Nat /\ N0 \in Nat /\ Ak \in Nat /\ A!Wet = Over(0)
    BY AmountsAre DEF AmountInv
  <1>2. A!Share(A!Wet, Sample) = <<W, N0>>
    BY <1>1, ACardinality DEF A!Share
  <1>3. CASE k = 0
    <2>1. A!WithPi(k) = <<W, N0>>
      BY <1>2, <1>3 DEF A!WithPi
    <2> QED
      BY <1>1, <1>3, <2>1 DEF A!Equal
  <1>4. CASE k # 0
    <2> DEFINE q == s_pos[k]
    <2>1. k \in 1 .. bin
      BY <1>4 DEF AmountConstants
    <2>2. q[1] \in Nat /\ q[2] \in Nat /\ q[1] * W = Ak * q[2]
      BY <2>1 DEF AmountInv, IsShareOf
    <2>3. A!WithPi(k) = <<q[1] * W, q[2] * N0>>
      BY <1>2, <1>4 DEF A!WithPi, A!Times
    <2> HIDE DEF q, W, N0, Ak
    <2>4. (q[1] * W) * N0 = Ak * (q[2] * N0)
      BY <1>1, <2>2
    <2>5. q[1] * W \in Int /\ q[2] * N0 \in Int
      BY <1>1, <2>2
    <2>6. A!Equal(A!WithPi(k), <<Ak, N0>>)
      BY <2>3, <2>4 DEF A!Equal
    <2> QED
      BY <2>3, <2>5, <2>6 DEF N0, Ak
  <1> QED
    BY <1>3, <1>4

LEMMA BinnedSurvivalIs ==
  ASSUME AmountConstants, AmountInv, NEW k \in 0 .. J
  PROVE  /\ A!Equal(A!BinnedSurvival(k), A!Share(Over(k), Sample))
         /\ \A r \in Sample : r \in Over(k) <=> A!BinnedObserved(r, k)
  <1>1. J \in Nat /\ k \in Nat /\ k <= J /\ y \in [Sample -> Nat]
    BY DEF AmountConstants, AmountInv
  <1>2. ASSUME NEW r \in Sample PROVE A!BinnedClass(r) \in Int /\ (A!BinnedClass(r) > k <=> y[r] > 2 * k)
    <2>1. /\ A!WetClass(r) \in 0 .. J /\ A!BinnedClass(r) = A!ClassOf(r) /\ y[r] \in Nat
          /\ \A j \in 1 .. J : A!WetClass(r) >= j <=> y[r] > 2 * j
      BY <1>1, WetClassIs
    <2>2. A!ClassOf(r) = IF y[r] <= 0 THEN 0 ELSE A!WetClass(r) + 1
      BY DEF A!ClassOf
    <2>3. CASE k = 0
      BY <2>1, <2>2, <2>3
    <2>4. CASE k # 0
      <3>1. A!WetClass(r) >= k <=> y[r] > 2 * k
        BY <1>1, <2>1, <2>4
      <3> QED
        BY <1>1, <2>1, <2>2, <2>4, <3>1
    <2> QED
      BY <2>3, <2>4
  <1> DEFINE Under == {r \in Sample : A!BinnedClass(r) <= k}
             N0 == Cardinality(Sample)
             U0 == Cardinality(Under)
  <1>3. Under = Sample \ Over(k)
    BY <1>1, <1>2 DEF Over
  <1>4. N0 \in Nat /\ U0 \in Nat /\ Cardinality(Over(k)) = N0 - U0
    <2>1. Over(k) = Sample \ Under /\ Under \subseteq Sample
      BY <1>3 DEF Over
    <2> HIDE DEF Under
    <2> QED
      BY <1>1, <2>1, AmountsAre
  <1>5. A!BinnedSurvival(k) = A!Minus(<<1, 1>>, <<U0, N0>>)
    BY ACardinality DEF A!BinnedSurvival, A!Share
  <1> HIDE DEF N0, U0, Under
  <1>6. A!Equal(A!Minus(<<1, 1>>, <<U0, N0>>), <<N0 - U0, N0>>)
    <2>1. A!Equal(<<1, 1>>, <<N0, N0>>) /\ A!Equal(<<U0, N0>>, <<U0, N0>>)
      BY <1>4 DEF A!Equal
    <2> QED
      BY <1>4, <2>1, EqualMinus
  <1>7. A!Share(Over(k), Sample) = <<N0 - U0, N0>>
    BY <1>4, ACardinality DEF A!Share, N0
  <1> QED
    BY <1>2, <1>5, <1>6, <1>7 DEF A!BinnedObserved, Over

(* The rows of a class lie between two edges.                                *)
LEMMA ClassIs ==
  ASSUME AmountConstants, AmountInv, NEW r \in Sample
  PROVE  LET c == A!ClassOf(r)
             mine == {q \in Sample : A!ClassOf(q) = c}
         IN  /\ c \in 0 .. J + 1
             /\ c = 0 => mine = Sample \ Over(0)
             /\ c = J + 1 => mine = Over(J)
             /\ c \in 1 .. J => mine = Over(c - 1) \ Over(c) /\ Over(c) \subseteq Over(c - 1)
  <1> DEFINE c == A!ClassOf(r)
             mine == {q \in Sample : A!ClassOf(q) = c}
  <1>1. J \in Nat /\ y \in [Sample -> Nat]
    BY DEF AmountConstants, AmountInv
  <1>2. ASSUME NEW q \in Sample
        PROVE  /\ y[q] \in Nat /\ A!ClassOf(q) \in 0 .. J + 1
               /\ \A k \in 0 .. J : A!ClassOf(q) > k <=> y[q] > 2 * k
    <2>1. /\ A!WetClass(q) \in 0 .. J /\ y[q] \in Nat
          /\ \A j \in 1 .. J : A!WetClass(q) >= j <=> y[q] > 2 * j
      BY <1>1, WetClassIs
    <2>2. A!ClassOf(q) = IF y[q] <= 0 THEN 0 ELSE A!WetClass(q) + 1
      BY DEF A!ClassOf
    <2>3. ASSUME NEW k \in 0 .. J PROVE A!ClassOf(q) > k <=> y[q] > 2 * k
      <3>1. CASE k = 0
        BY <2>1, <2>2, <3>1
      <3>2. CASE k # 0
        <4>1. A!WetClass(q) >= k <=> y[q] > 2 * k
          BY <1>1, <2>1, <3>2
        <4> QED
          BY <1>1, <2>1, <2>2, <3>2, <4>1
      <3> QED
        BY <3>1, <3>2
    <2> QED
      BY <1>1, <2>1, <2>2, <2>3
  <1>3. c \in 0 .. J + 1
    BY <1>2
  <1> HIDE DEF c
  <1>4. ASSUME c = 0 PROVE mine = Sample \ Over(0)
    <2>1. ASSUME NEW q \in Sample PROVE A!ClassOf(q) = c <=> ~(y[q] > 2 * 0)
      BY <1>1, <1>2, <1>4
    <2> QED
      BY <2>1 DEF Over
  <1>5. ASSUME c = J + 1 PROVE mine = Over(J)
    <2>1. ASSUME NEW q \in Sample PROVE A!ClassOf(q) = c <=> y[q] > 2 * J
      BY <1>1, <1>2, <1>5
    <2> QED
      BY <2>1 DEF Over
  <1>6. ASSUME c \in 1 .. J PROVE mine = Over(c - 1) \ Over(c) /\ Over(c) \subseteq Over(c - 1)
    <2>1. c - 1 \in 0 .. J /\ c \in 0 .. J
      BY <1>1, <1>6
    <2>2. ASSUME NEW q \in Sample
          PROVE  /\ A!ClassOf(q) = c <=> y[q] > 2 * (c - 1) /\ ~(y[q] > 2 * c)
                 /\ y[q] > 2 * c => y[q] > 2 * (c - 1)
      <3>1. /\ A!ClassOf(q) > c - 1 <=> y[q] > 2 * (c - 1)
            /\ A!ClassOf(q) > c <=> y[q] > 2 * c
        BY <1>2, <2>1
      <3>2. A!ClassOf(q) \in Int /\ c \in Int /\ y[q] \in Nat
        BY <1>2, <1>6
      <3> QED
        BY <3>1, <3>2
    <2> QED
      BY <2>2 DEF Over
  <1> QED
    BY <1>3, <1>4, <1>5, <1>6 DEF c

LEMMA ClassProbabilityIs ==
  ASSUME AmountConstants, AmountInv, bin = J, NEW r \in Sample
  PROVE  A!Equal(A!ClassProbability(A!ClassOf(r)),
                 A!Share({q \in Sample : A!ClassOf(q) = A!ClassOf(r)}, Sample))
  <1> DEFINE c == A!ClassOf(r)
             mine == {q \in Sample : A!ClassOf(q) = c}
             N0 == Cardinality(Sample)
  <1>1. /\ c \in 0 .. J + 1
        /\ c = 0 => mine = Sample \ Over(0)
        /\ c = J + 1 => mine = Over(J)
        /\ c \in 1 .. J => mine = Over(c - 1) \ Over(c) /\ Over(c) \subseteq Over(c - 1)
    BY ClassIs
  <1>2. /\ J \in Nat /\ N0 \in Nat /\ \A k : Over(k) \subseteq Sample /\ Cardinality(Over(k)) \in Nat
        /\ y \in [Sample -> Nat]
    BY AmountsAre DEF AmountConstants, AmountInv
  <1>3. A!Share(mine, Sample) = <<Cardinality(mine), N0>>
    BY ACardinality DEF A!Share
  <1> HIDE DEF c, mine, N0
  <1>4. CASE c = 0
    <2>1. Cardinality(mine) = N0 - Cardinality(Over(0))
      BY <1>1, <1>2, <1>4, AmountsAre DEF N0
    <2>2. PICK u \in Int, d \in Int : A!WithPi(0) = <<u, d>> /\ A!Equal(<<u, d>>, <<Cardinality(Over(0)), N0>>)
      <3>1. 0 \in 0 .. J
        BY <1>2
      <3> QED
        BY <3>1, WithPiIs DEF N0
    <2>3. A!ClassProbability(c) = A!Minus(<<1, 1>>, <<u, d>>)
      BY <1>2, <1>4, <2>2 DEF A!ClassProbability
    <2>4. A!Equal(<<1, 1>>, <<N0, N0>>)
      BY <1>2 DEF A!Equal
    <2>5. A!Equal(A!Minus(<<1, 1>>, <<u, d>>), <<N0 - Cardinality(Over(0)), N0>>)
      <3>1. /\ N0 \in Int /\ Cardinality(Over(0)) \in Int /\ 1 \in Int
            /\ A!Equal(<<u, d>>, <<Cardinality(Over(0)), N0>>)
        BY <1>2, <2>2
      <3> QED
        BY <2>4, <3>1, EqualMinus
    <2> QED
      BY <1>3, <2>1, <2>3, <2>5 DEF c, mine
  <1>5. CASE c = J + 1
    <2>1. A!ClassProbability(c) = A!WithPi(J)
      BY <1>2, <1>5 DEF A!ClassProbability
    <2>2. J \in 0 .. J
      BY <1>2
    <2>3. A!Equal(A!WithPi(J), <<Cardinality(Over(J)), N0>>)
      BY <2>2, WithPiIs DEF N0
    <2> QED
      BY <1>1, <1>3, <1>5, <2>1, <2>3 DEF c, mine
  <1>6. CASE c \in 1 .. J
    <2>1. c \in 0 .. J /\ c - 1 \in 0 .. J /\ c # 0 /\ c # J + 1
      BY <1>2, <1>6
    <2>2. Cardinality(mine) = Cardinality(Over(c - 1)) - Cardinality(Over(c))
      BY <1>1, <1>2, <1>6, AmountsAre
    <2>3. PICK u \in Int, d \in Int :
             A!WithPi(c - 1) = <<u, d>> /\ A!Equal(<<u, d>>, <<Cardinality(Over(c - 1)), N0>>)
      BY <2>1, WithPiIs DEF N0
    <2>4. PICK v \in Int, e \in Int :
             A!WithPi(c) = <<v, e>> /\ A!Equal(<<v, e>>, <<Cardinality(Over(c)), N0>>)
      BY <2>1, WithPiIs DEF N0
    <2>5. A!ClassProbability(c) = A!Minus(<<u, d>>, <<v, e>>)
      BY <2>1, <2>3, <2>4 DEF A!ClassProbability
    <2>6. A!Equal(A!Minus(<<u, d>>, <<v, e>>), <<Cardinality(Over(c - 1)) - Cardinality(Over(c)), N0>>)
      <3>1. N0 \in Int /\ Cardinality(Over(c - 1)) \in Int /\ Cardinality(Over(c)) \in Int
        BY <1>2
      <3>2. /\ A!Equal(<<u, d>>, <<Cardinality(Over(c - 1)), N0>>)
            /\ A!Equal(<<v, e>>, <<Cardinality(Over(c)), N0>>)
        BY <2>3, <2>4
      <3> QED
        BY <3>1, <3>2, EqualMinus
    <2> QED
      BY <1>3, <2>2, <2>5, <2>6 DEF c, mine
  <1> QED
    BY <1>1, <1>2, <1>4, <1>5, <1>6

LEMMA SurvivalMatches ==
  ASSUME AmountConstants, AmountInv
  PROVE  A!SurvivalIsShare
  <1>1. /\ A!Wet = Over(0) /\ J \in Nat /\ y \in [Sample -> Nat]
        /\ \A k : Over(k) \subseteq Sample /\ Cardinality(Over(k)) \in Nat
    BY AmountsAre DEF AmountConstants, AmountInv
  <1>2. ASSUME bin = J, NEW j \in 1 .. J PROVE A!Equal(s_pos[j], A!UpperSum(j))
    <2> DEFINE part == UNION {{r \in Over(0) : A!WetClass(r) = c} : c \in j .. J}
    <2>1. part = Over(j)
      <3>1. ASSUME NEW r \in Sample PROVE r \in part <=> y[r] > 2 * j
        <4>1. A!WetClass(r) \in 0 .. J /\ (A!WetClass(r) >= j <=> y[r] > 2 * j) /\ y[r] \in Nat
          BY <1>1, WetClassIs
        <4>2. A!WetClass(r) \in j .. J <=> y[r] > 2 * j
          BY <1>1, <4>1
        <4>3. r \in Over(0) <=> y[r] > 0
          BY DEF Over
        <4>4. r \in part <=> r \in Over(0) /\ A!WetClass(r) \in j .. J
          OBVIOUS
        <4> QED
          BY <4>1, <4>2, <4>3, <4>4
      <3>2. part \subseteq Sample
        BY <1>1
      <3> HIDE DEF part
      <3> QED
        BY <3>1, <3>2 DEF Over
    <2>2. A!UpperSum(j) = <<Cardinality(Over(j)), Cardinality(Over(0))>>
      BY <1>1, <2>1, ACardinality DEF A!UpperSum, A!Share
    <2>3. IsShareOf(s_pos[j], Over(j), Over(0))
      BY <1>2 DEF AmountInv
    <2> QED
      BY <2>2, <2>3 DEF IsShareOf, A!Equal
  <1>3. ASSUME bin = J, NEW k \in 0 .. J
        PROVE  LET above == {r \in Sample : y[r] > A!Edge(k)}
               IN  /\ A!Equal(A!WithPi(k), A!Share(above, Sample))
                   /\ A!Equal(A!BinnedSurvival(k), A!Share(above, Sample))
                   /\ above = {r \in Sample : A!BinnedObserved(r, k)}
    <2>1. {r \in Sample : y[r] > A!Edge(k)} = Over(k)
      BY DEF A!Edge, Over
    <2>2. A!Share(Over(k), Sample) = <<Cardinality(Over(k)), Cardinality(Sample)>>
      BY ACardinality DEF A!Share
    <2>3. A!Equal(A!WithPi(k), A!Share(Over(k), Sample))
      BY <1>3, <2>2, WithPiIs
    <2>4. /\ A!Equal(A!BinnedSurvival(k), A!Share(Over(k), Sample))
          /\ Over(k) = {r \in Sample : A!BinnedObserved(r, k)}
      BY <1>1, BinnedSurvivalIs
    <2> QED
      BY <2>1, <2>3, <2>4
  <1>4. ASSUME bin = J, NEW r \in Sample
        PROVE  /\ A!Equal(A!ClassProbability(A!ClassOf(r)),
                          A!Share({q \in Sample : A!ClassOf(q) = A!ClassOf(r)}, Sample))
               /\ A!ClassOf(r) = A!BinnedClass(r)
    BY <1>1, <1>4, ClassProbabilityIs, WetClassIs
  <1> QED
    BY <1>2, <1>3, <1>4 DEF A!SurvivalIsShare

(* Products of hazards, sums of classes and sums of bins are all the share   *)
(* of the rows above an edge, whatever the rows and however many edges       *)
(* (amount_models.py, train_binned.py; the first part of ForecastsAreExact). *)
THEOREM SurvivalExact ==
  ASSUME AmountConstants
  PROVE  JobSpec => [](job = "amounts" => A!SurvivalIsShare)
  <1>1. JobInit => (job = "amounts" => AmountInv)
    BY AmountStart, JobStarts
  <1>2. (job = "amounts" => AmountInv) /\ [JobNext]_jobVars => (job = "amounts" => AmountInv)'
    BY AmountStep, JobSteps
  <1>3. (job = "amounts" => AmountInv) => (job = "amounts" => A!SurvivalIsShare)
    BY SurvivalMatches
  <1> QED
    BY <1>1, <1>2, <1>3, PTL DEF JobSpec

-----------------------------------------------------------------------------
(* Sums over finite sets, of the values of a function.                       *)

LEMMA SubsetInduction ==
  ASSUME NEW S, IsFiniteSet(S), NEW Good,
         \A T \in SUBSET S : (\A U \in SUBSET T : U # T => U \in Good) => T \in Good
  PROVE  S \in Good
  <1> DEFINE Sizes == {Cardinality(T) : T \in {T \in SUBSET S : T \notin Good}}
  <1>1. \A T \in SUBSET S : IsFiniteSet(T) /\ Cardinality(T) \in Nat
    BY FS_Subset, FS_CardinalityType
  <1> SUFFICES ASSUME Sizes # {} PROVE FALSE
    OBVIOUS
  <1>2. Sizes \subseteq Nat
    BY <1>1
  <1>3. PICK n \in Sizes : \A k \in Sizes : n <= k
    <2> HIDE DEF Sizes
    <2> QED
      BY <1>2, LeastExists
  <1>4. PICK T \in SUBSET S : T \notin Good /\ n = Cardinality(T)
    OBVIOUS
  <1>5. ASSUME NEW U \in SUBSET T, U # T PROVE U \in Good
    <2>1. Cardinality(U) \in Nat /\ Cardinality(T) \in Nat /\ U \in SUBSET S /\ IsFiniteSet(T)
      BY <1>1
    <2>2. Cardinality(U) < Cardinality(T)
      BY <1>5, <2>1, FS_Subset
    <2>3. U \notin Good => Cardinality(U) \in Sizes
      BY <2>1
    <2>4. ~(Cardinality(T) <= Cardinality(U))
      BY <2>1, <2>2
    <2> QED
      BY <1>3, <1>4, <2>3, <2>4
  <1> QED
    BY <1>4, <1>5

(* The element a fold takes next, and the values of a fold over all subsets. *)
Choice(s) == CHOOSE x \in s : TRUE

Folded(g, f, S) ==
    g = [s \in SUBSET S |-> IF s = {} THEN 0 ELSE f[Choice(s)] + g[s \ {Choice(s)}]]

Ints(f, S) == \A x \in S : f[x] \in Int

LEMMA ChoiceIs ==
  ASSUME NEW S, NEW s \in SUBSET S, s # {}
  PROVE  Choice(s) \in s /\ Choice(s) \in S /\ s \ {Choice(s)} \in SUBSET S
  BY DEF Choice

LEMMA FoldExists ==
  ASSUME NEW S, IsFiniteSet(S), NEW f, Ints(f, S)
  PROVE  \E g \in [SUBSET S -> Int] : Folded(g, f, S)
  <1> DEFINE Value(g, s) == IF s = {} THEN 0 ELSE f[Choice(s)] + g[s \ {Choice(s)}]
             Upto(g, d) == \A s \in SUBSET S : Cardinality(s) <= d => g[s] = Value(g, s)
             Bad == {d \in Nat : ~ \E g \in [SUBSET S -> Int] : Upto(g, d)}
  <1>1. \A s \in SUBSET S : IsFiniteSet(s) /\ Cardinality(s) \in Nat
    BY FS_Subset, FS_CardinalityType
  <1>2. \A s \in SUBSET S : s # {} => Cardinality(s \ {Choice(s)}) = Cardinality(s) - 1
    BY <1>1, ChoiceIs, FS_RemoveElement
  <1>3. ASSUME NEW g \in [SUBSET S -> Int] PROVE [s \in SUBSET S |-> Value(g, s)] \in [SUBSET S -> Int]
    <2>1. ASSUME NEW s \in SUBSET S PROVE Value(g, s) \in Int
      BY ChoiceIs DEF Ints
    <2> QED
      BY <2>1
  <1>4. Bad = {}
    <2> SUFFICES ASSUME Bad # {} PROVE FALSE
      OBVIOUS
    <2>1. PICK d \in Bad : \A e \in Bad : d <= e
      <3>1. Bad \subseteq Nat
        OBVIOUS
      <3> HIDE DEF Bad
      <3> QED
        BY <3>1, LeastExists
    <2>2. PICK g \in [SUBSET S -> Int] : \A s \in SUBSET S : Cardinality(s) < d => g[s] = Value(g, s)
      <3>1. CASE d = 0
        <4>1. [s \in SUBSET S |-> 0] \in [SUBSET S -> Int]
          OBVIOUS
        <4>2. \A s \in SUBSET S : ~(Cardinality(s) < d)
          BY <1>1, <3>1
        <4> QED
          BY <4>1, <4>2
      <3>2. CASE d # 0
        <4>1. d - 1 \in Nat /\ d - 1 \notin Bad
          <5>1. d \in Nat
            OBVIOUS
          <5> HIDE DEF Bad
          <5> QED
            BY <2>1, <3>2, <5>1
        <4>2. PICK g \in [SUBSET S -> Int] : Upto(g, d - 1)
          BY <4>1
        <4>3. \A s \in SUBSET S : Cardinality(s) < d => Cardinality(s) <= d - 1
          BY <1>1, <4>1
        <4> QED
          BY <4>2, <4>3
      <3> QED
        BY <3>1, <3>2
    <2> DEFINE h == [s \in SUBSET S |-> Value(g, s)]
    <2>3. h \in [SUBSET S -> Int]
      BY <1>3
    <2>4. ASSUME NEW s \in SUBSET S, Cardinality(s) <= d PROVE h[s] = Value(h, s)
      <3>1. CASE s = {}
        BY <3>1
      <3>2. CASE s # {}
        <4> DEFINE t == s \ {Choice(s)}
        <4>1. t \in SUBSET S /\ Cardinality(t) < d
          BY <1>1, <1>2, <2>1, <2>4, <3>2, ChoiceIs
        <4>2. g[t] = Value(g, t) /\ h[t] = Value(g, t)
          BY <2>2, <4>1
        <4>3. h[s] = f[Choice(s)] + g[t] /\ Value(h, s) = f[Choice(s)] + h[t]
          BY <3>2
        <4> QED
          BY <4>2, <4>3
      <3> QED
        BY <3>1, <3>2
    <2>5. Upto(h, d)
      BY <2>4
    <2> QED
      BY <2>1, <2>3, <2>5
  <1>5. Cardinality(S) \in Nat /\ \A s \in SUBSET S : Cardinality(s) <= Cardinality(S)
    BY <1>1, FS_Subset
  <1>6. PICK g \in [SUBSET S -> Int] : Upto(g, Cardinality(S))
    BY <1>4, <1>5
  <1>7. \A s \in SUBSET S : g[s] = Value(g, s)
    BY <1>5, <1>6
  <1>8. g = [s \in SUBSET S |-> Value(g, s)]
    BY <1>7
  <1> QED
    BY <1>8 DEF Folded

SumOf(f, S) == (CHOOSE g : g \in [SUBSET S -> Int] /\ Folded(g, f, S))[S]

LEMMA FoldedSays ==
  ASSUME NEW S, NEW f, NEW g, Folded(g, f, S)
  PROVE  /\ g[{}] = 0
         /\ \A s \in SUBSET S : s # {} => g[s] = f[Choice(s)] + g[s \ {Choice(s)}]
  BY DEF Folded

(* A fold over S and one over T agree on what they share.                    *)
LEMMA FoldsAgree ==
  ASSUME NEW S, NEW T, NEW f, NEW e, NEW g, NEW h, Folded(g, f, S), Folded(h, e, T),
         NEW R, R \subseteq S, R \subseteq T, IsFiniteSet(R), \A x \in R : f[x] = e[x]
  PROVE  g[R] = h[R]
  <1>3. g[{}] = 0 /\ \A s \in SUBSET S : s # {} => g[s] = f[Choice(s)] + g[s \ {Choice(s)}]
    BY DEF Folded
  <1>4. h[{}] = 0 /\ \A s \in SUBSET T : s # {} => h[s] = e[Choice(s)] + h[s \ {Choice(s)}]
    BY DEF Folded
  <1> DEFINE Good == {s \in SUBSET R : g[s] = h[s]}
  <1>1. ASSUME NEW s \in SUBSET R, \A U \in SUBSET s : U # s => U \in Good PROVE s \in Good
    <2>1. s \in SUBSET S /\ s \in SUBSET T
      OBVIOUS
    <2>2. CASE s = {}
      BY <1>3, <1>4, <2>2
    <2>3. CASE s # {}
      <3>1. Choice(s) \in s /\ Choice(s) \in R
        BY <2>3, ChoiceIs
      <3>2. s \ {Choice(s)} \in Good
        BY <1>1, <3>1
      <3>3. g[s] = f[Choice(s)] + g[s \ {Choice(s)}]
        BY <1>3, <2>1, <2>3
      <3>4. h[s] = e[Choice(s)] + h[s \ {Choice(s)}]
        BY <1>4, <2>1, <2>3
      <3> QED
        BY <3>1, <3>2, <3>3, <3>4
    <2> QED
      BY <2>2, <2>3
  <1>2. R \in Good
    <2> HIDE DEF Good
    <2> QED
      BY <1>1, SubsetInduction
  <1> QED
    BY <1>2

LEMMA SumFolded ==
  ASSUME NEW S, IsFiniteSet(S), NEW f, Ints(f, S)
  PROVE  \E g \in [SUBSET S -> Int] : Folded(g, f, S) /\ SumOf(f, S) = g[S]
  <1> DEFINE I(g) == g \in [SUBSET S -> Int] /\ Folded(g, f, S)
  <1>1. \E g : I(g)
    BY FoldExists
  <1>2. SumOf(f, S) = (CHOOSE g : I(g))[S]
    BY DEF SumOf
  <1> HIDE DEF I
  <1>3. I(CHOOSE g : I(g))
    BY <1>1
  <1> QED
    BY <1>2, <1>3 DEF I

LEMMA SumIs ==
  ASSUME NEW S, IsFiniteSet(S), NEW f, Ints(f, S), NEW g, Folded(g, f, S)
  PROVE  g[S] = SumOf(f, S)
  <1>1. PICK h \in [SUBSET S -> Int] : Folded(h, f, S) /\ SumOf(f, S) = h[S]
    BY SumFolded
  <1>2. S \subseteq S
    OBVIOUS
  <1> QED
    BY <1>1, <1>2, FoldsAgree

LEMMA SumType ==
  ASSUME NEW S, IsFiniteSet(S), NEW f, Ints(f, S)
  PROVE  SumOf(f, S) \in Int
  <1>1. PICK g \in [SUBSET S -> Int] : Folded(g, f, S) /\ SumOf(f, S) = g[S]
    BY SumFolded
  <1>2. S \in SUBSET S
    OBVIOUS
  <1> QED
    BY <1>1, <1>2

LEMMA SumEmpty ==
  ASSUME NEW f
  PROVE  SumOf(f, {}) = 0
  <1>1. IsFiniteSet({}) /\ Ints(f, {})
    BY FS_EmptySet DEF Ints
  <1>2. PICK g \in [SUBSET {} -> Int] : Folded(g, f, {}) /\ SumOf(f, {}) = g[{}]
    BY <1>1, SumFolded
  <1> QED
    BY <1>2, FoldedSays

(* Equal values have equal sums.                                             *)
LEMMA SumEqual ==
  ASSUME NEW S, IsFiniteSet(S), NEW f, NEW e, Ints(f, S), \A x \in S : f[x] = e[x]
  PROVE  SumOf(f, S) = SumOf(e, S)
  <1>1. Ints(e, S) /\ S \subseteq S
    BY DEF Ints
  <1>2. PICK g \in [SUBSET S -> Int] : Folded(g, f, S) /\ SumOf(f, S) = g[S]
    BY SumFolded
  <1>3. PICK h \in [SUBSET S -> Int] : Folded(h, e, S) /\ SumOf(e, S) = h[S]
    BY <1>1, SumFolded
  <1> QED
    BY <1>1, <1>2, <1>3, FoldsAgree

LEMMA SumNext ==
  ASSUME NEW S, IsFiniteSet(S), NEW f, Ints(f, S), S # {}
  PROVE  SumOf(f, S) = f[Choice(S)] + SumOf(f, S \ {Choice(S)})
  <1> DEFINE R == S \ {Choice(S)}
  <1>1. R \subseteq S /\ R \subseteq R /\ IsFiniteSet(R) /\ Ints(f, R)
    BY FS_RemoveElement DEF Ints
  <1>2. PICK g \in [SUBSET S -> Int] : Folded(g, f, S) /\ SumOf(f, S) = g[S]
    BY SumFolded
  <1>3. g[S] = f[Choice(S)] + g[R]
    <2>1. S \in SUBSET S
      OBVIOUS
    <2> QED
      BY <1>2, <2>1 DEF Folded
  <1> HIDE DEF R
  <1>4. PICK h \in [SUBSET R -> Int] : Folded(h, f, R) /\ SumOf(f, R) = h[R]
    BY <1>1, SumFolded
  <1>5. \A x \in R : f[x] = f[x]
    OBVIOUS
  <1>6. g[R] = h[R]
    BY <1>1, <1>2, <1>4, <1>5, FoldsAgree
  <1> QED
    BY <1>2, <1>3, <1>4, <1>6 DEF R

(* Any element can be taken out first.                                       *)
LEMMA SumTake ==
  ASSUME NEW S, IsFiniteSet(S), NEW f, Ints(f, S), NEW x \in S
  PROVE  SumOf(f, S) = f[x] + SumOf(f, S \ {x})
  <1> DEFINE Good == {T \in SUBSET S : \A z \in T : SumOf(f, T) = f[z] + SumOf(f, T \ {z})}
  <1>1. \A T \in SUBSET S : IsFiniteSet(T) /\ Ints(f, T) /\ SumOf(f, T) \in Int
    <2> TAKE T \in SUBSET S
    <2>1. IsFiniteSet(T) /\ Ints(f, T)
      BY FS_Subset DEF Ints
    <2> QED
      BY <2>1, SumType
  <1>2. ASSUME NEW T \in SUBSET S, \A U \in SUBSET T : U # T => U \in Good PROVE T \in Good
    <2> SUFFICES ASSUME NEW z \in T PROVE SumOf(f, T) = f[z] + SumOf(f, T \ {z})
      OBVIOUS
    <2> DEFINE c == Choice(T)
    <2>1. c \in T
      BY ChoiceIs
    <2>2. SumOf(f, T) = f[c] + SumOf(f, T \ {c})
      BY <1>1, SumNext
    <2> HIDE DEF c
    <2>3. CASE z = c
      BY <2>2, <2>3
    <2>4. CASE z # c
      <3>1. T \ {c} \in SUBSET T /\ T \ {c} # T /\ z \in T \ {c}
        BY <2>1, <2>4
      <3>2. T \ {z} \in SUBSET T /\ T \ {z} # T /\ c \in T \ {z}
        BY <2>1, <2>4
      <3>3. T \ {c} \in Good /\ T \ {z} \in Good
        BY <1>2, <3>1, <3>2
      <3>4. /\ SumOf(f, T \ {c}) = f[z] + SumOf(f, (T \ {c}) \ {z})
            /\ SumOf(f, T \ {z}) = f[c] + SumOf(f, (T \ {z}) \ {c})
        BY <3>1, <3>2, <3>3
      <3>5. (T \ {c}) \ {z} = (T \ {z}) \ {c} /\ (T \ {c}) \ {z} \in SUBSET S
        OBVIOUS
      <3>6. f[z] \in Int /\ f[c] \in Int /\ SumOf(f, (T \ {c}) \ {z}) \in Int
        BY <1>1, <2>1, <3>5 DEF Ints
      <3> HIDE DEF Good
      <3>7. SumOf(f, T \ {z}) = f[c] + SumOf(f, (T \ {c}) \ {z})
        BY <3>4, <3>5
      <3>8. SumOf(f, T) = f[c] + (f[z] + SumOf(f, (T \ {c}) \ {z}))
        BY <2>2, <3>4
      <3> QED
        BY <3>6, <3>7, <3>8
    <2> QED
      BY <2>3, <2>4
  <1>3. S \in Good
    <2> HIDE DEF Good
    <2> QED
      BY <1>2, SubsetInduction
  <1> QED
    BY <1>3

LEMMA SumUnion ==
  ASSUME NEW S, NEW T, IsFiniteSet(S), IsFiniteSet(T), S \cap T = {},
         NEW f, Ints(f, S), Ints(f, T)
  PROVE  SumOf(f, S \cup T) = SumOf(f, S) + SumOf(f, T)
  <1> DEFINE Good == {U \in SUBSET T : SumOf(f, S \cup U) = SumOf(f, S) + SumOf(f, U)}
  <1>1. \A U \in SUBSET T : IsFiniteSet(U) /\ Ints(f, U) /\ SumOf(f, U) \in Int
    <2> TAKE U \in SUBSET T
    <2>1. IsFiniteSet(U) /\ Ints(f, U)
      BY FS_Subset DEF Ints
    <2> QED
      BY <2>1, SumType
  <1>2. \A U \in SUBSET T : IsFiniteSet(S \cup U) /\ Ints(f, S \cup U)
    BY <1>1, FS_Union DEF Ints
  <1>3. SumOf(f, S) \in Int
    BY SumType
  <1>4. ASSUME NEW U \in SUBSET T, \A W \in SUBSET U : W # U => W \in Good PROVE U \in Good
    <2>1. CASE U = {}
      <3>1. S \cup U = S /\ SumOf(f, U) = 0
        BY <2>1, SumEmpty
      <3>2. SumOf(f, S \cup U) = SumOf(f, S) + SumOf(f, U)
        BY <1>3, <3>1
      <3> QED
        BY <3>2
    <2>2. CASE U # {}
      <3>1. PICK x \in U : TRUE
        BY <2>2
      <3> DEFINE W == U \ {x}
      <3>2. W \in SUBSET U /\ W # U /\ x \in S \cup U /\ (S \cup U) \ {x} = S \cup W
        OBVIOUS
      <3>3. SumOf(f, S \cup W) = SumOf(f, S) + SumOf(f, W)
        BY <1>4, <3>2
      <3>4. SumOf(f, U) = f[x] + SumOf(f, W)
        BY <1>1, SumTake
      <3>5. SumOf(f, S \cup U) = f[x] + SumOf(f, S \cup W)
        BY <1>2, <3>2, SumTake
      <3>6. f[x] \in Int /\ SumOf(f, W) \in Int
        BY <1>1 DEF Ints
      <3> HIDE DEF W
      <3>7. SumOf(f, S \cup U) = SumOf(f, S) + SumOf(f, U)
        BY <1>3, <3>3, <3>4, <3>5, <3>6
      <3> QED
        BY <3>7
    <2> QED
      BY <2>1, <2>2
  <1>5. T \in Good
    <2> HIDE DEF Good
    <2> QED
      BY <1>4, SubsetInduction
  <1> QED
    BY <1>5

LEMMA SumZero ==
  ASSUME NEW S, IsFiniteSet(S), NEW f, \A x \in S : f[x] = 0
  PROVE  SumOf(f, S) = 0
  <1> DEFINE Good == {T \in SUBSET S : SumOf(f, T) = 0}
  <1>1. ASSUME NEW T \in SUBSET S, \A U \in SUBSET T : U # T => U \in Good PROVE T \in Good
    <2>1. CASE T = {}
      BY <2>1, SumEmpty
    <2>2. CASE T # {}
      <3>1. IsFiniteSet(T) /\ Ints(f, T) /\ Choice(T) \in T
        BY <2>2, FS_Subset, ChoiceIs DEF Ints
      <3>2. SumOf(f, T) = f[Choice(T)] + SumOf(f, T \ {Choice(T)})
        BY <2>2, <3>1, SumNext
      <3>3. T \ {Choice(T)} \in Good
        BY <1>1, <3>1
      <3> QED
        BY <3>1, <3>2, <3>3
    <2> QED
      BY <2>1, <2>2
  <1>2. S \in Good
    <2> HIDE DEF Good
    <2> QED
      BY <1>1, SubsetInduction
  <1> QED
    BY <1>2

(* A sum by parts.                                                           *)
LEMMA SumParts ==
  ASSUME NEW K, IsFiniteSet(K), NEW S, IsFiniteSet(S), NEW f, Ints(f, S), NEW part, NEW total,
         \A k \in K : part[k] \subseteq S /\ total[k] = SumOf(f, part[k]),
         \A k, m \in K : k # m => part[k] \cap part[m] = {}
  PROVE  SumOf(total, K) = SumOf(f, UNION {part[k] : k \in K})
  <1> DEFINE All(M) == UNION {part[k] : k \in M}
             Good == {M \in SUBSET K : SumOf(total, M) = SumOf(f, All(M))}
  <1>1. \A T \in SUBSET S : IsFiniteSet(T) /\ Ints(f, T) /\ SumOf(f, T) \in Int
    <2> TAKE T \in SUBSET S
    <2>1. IsFiniteSet(T) /\ Ints(f, T)
      BY FS_Subset DEF Ints
    <2> QED
      BY <2>1, SumType
  <1>2. \A M \in SUBSET K : IsFiniteSet(M) /\ Ints(total, M) /\ All(M) \in SUBSET S
    BY <1>1, FS_Subset DEF Ints
  <1>3. ASSUME NEW M \in SUBSET K, \A U \in SUBSET M : U # M => U \in Good PROVE M \in Good
    <2>1. CASE M = {}
      <3>1. All(M) = {}
        BY <2>1
      <3>2. SumOf(total, M) = 0 /\ SumOf(f, All(M)) = 0
        BY <2>1, <3>1, SumEmpty
      <3> QED
        BY <3>2
    <2>2. CASE M # {}
      <3> DEFINE k == Choice(M)
                 R == M \ {k}
      <3>1. k \in M
        BY <2>2, ChoiceIs
      <3>2. SumOf(total, M) = total[k] + SumOf(total, R)
        BY <1>2, <2>2, SumNext
      <3> HIDE DEF k
      <3>3. R \in SUBSET M /\ R # M
        BY <3>1
      <3>4. SumOf(total, R) = SumOf(f, All(R))
        BY <1>3, <3>3
      <3>5. All(M) = part[k] \cup All(R) /\ part[k] \cap All(R) = {}
        BY <3>1
      <3>6. part[k] \in SUBSET S /\ All(R) \in SUBSET S /\ total[k] = SumOf(f, part[k])
        BY <1>2, <3>1, <3>3
      <3> HIDE DEF All, R
      <3>7. SumOf(f, part[k] \cup All(R)) = SumOf(f, part[k]) + SumOf(f, All(R))
        BY <1>1, <3>5, <3>6, SumUnion
      <3>8. SumOf(total, M) = SumOf(f, All(M))
        BY <3>2, <3>4, <3>5, <3>6, <3>7
      <3> QED
        BY <3>8
    <2> QED
      BY <2>1, <2>2
  <1>4. K \in Good
    <2> HIDE DEF Good
    <2> QED
      BY <1>3, SubsetInduction
  <1> QED
    BY <1>4

-----------------------------------------------------------------------------
(* eda_patterns.py *)

PatternConstants ==
    /\ PatternSlots \in Nat /\ HourSlots \in Nat \ {0}
    /\ IsFiniteSet(ClassEdges) /\ ClassEdges \subseteq Int

RainData == rain \in [1 .. PatternSlots -> {0, 1}] /\ seen \subseteq 1 .. PatternSlots

PatternInv ==
    /\ RainData
    /\ \/ tables = E!Pending
       \/ tables = [hourly |-> E!Hourly, month |-> E!Monthly, events |-> E!Events,
                    classes |-> E!ByClass]

LEMMA ECardinality ==
  ASSUME NEW S
  PROVE  E!Cardinality(S) = Cardinality(S)
  BY Zenon DEF E!Cardinality, Cardinality

LEMMA EMinMax ==
  ASSUME NEW S, S \subseteq Int, NEW m \in S, NEW n \in S, \A z \in S : m <= z /\ z <= n
  PROVE  E!Min(S) = m /\ E!Max(S) = n
  <1>1. \A x \in S : (\A z \in S : x <= z) => x = m
    OBVIOUS
  <1>2. \A x \in S : (\A z \in S : x >= z) => x = n
    OBVIOUS
  <1>3. (\A z \in S : m <= z) /\ (\A z \in S : n >= z)
    OBVIOUS
  <1>4. E!Min(S) = m
    BY <1>1, <1>3 DEF E!Min
  <1>5. E!Max(S) = n
    BY <1>2, <1>3 DEF E!Max
  <1> QED
    BY <1>4, <1>5

LEMMA SlotsAre ==
  ASSUME PatternConstants, RainData, NEW S, S \subseteq 1 .. PatternSlots
  PROVE  /\ IsFiniteSet(S) /\ Cardinality(S) \in Nat /\ Ints(rain, S) /\ SumOf(rain, S) \in Int
         /\ S \subseteq Nat
         /\ \A T \in SUBSET S : Cardinality(T) <= Cardinality(S)
         /\ \A T \in SUBSET S : Cardinality(T) = Cardinality(S) => T = S
         /\ \A T \in SUBSET S : Cardinality(S \ T) = Cardinality(S) - Cardinality(T)
  <1>1. IsFiniteSet(1 .. PatternSlots)
    BY FS_Interval DEF PatternConstants
  <1>2. IsFiniteSet(S)
    BY <1>1, FS_Subset
  <1>3. Ints(rain, S)
    BY DEF Ints, RainData
  <1>4. S \subseteq Nat
    BY DEF PatternConstants
  <1>5. ASSUME NEW T \in SUBSET S PROVE Cardinality(S \ T) = Cardinality(S) - Cardinality(T)
    <2>1. Cardinality(S \ T) = Cardinality(S) - Cardinality(S \cap T)
      BY <1>2, FS_Difference
    <2>2. S \cap T = T
      OBVIOUS
    <2> QED
      BY <2>1, <2>2
  <1> QED
    BY <1>2, <1>3, <1>4, <1>5, FS_Subset, FS_CardinalityType, SumType

LEMMA TotalIs ==
  ASSUME PatternConstants, RainData, NEW S, S \subseteq 1 .. PatternSlots
  PROVE  E!Total(S) = SumOf(rain, S)
  <1> DEFINE I(g) == g = [s \in SUBSET S |->
                           IF s = {} THEN 0
                           ELSE LET x == CHOOSE x \in s : TRUE IN rain[x] + g[s \ {x}]]
  <1>1. \A g : Folded(g, rain, S) <=> I(g)
    BY DEF Folded, Choice
  <1>2. E!Total(S) = (CHOOSE g : I(g))[S]
    BY DEF E!Total, E!MapThenSumSet, E!MapThenFoldSet
  <1>3. IsFiniteSet(S) /\ Ints(rain, S)
    BY SlotsAre
  <1>4. \E g : Folded(g, rain, S)
    BY <1>3, FoldExists
  <1> HIDE DEF I
  <1>5. I(CHOOSE g : I(g))
    BY <1>1, <1>4
  <1> QED
    BY <1>1, <1>2, <1>3, <1>5, SumIs

LEMMA FirstSlot ==
  ASSUME NEW S, S \subseteq 1 .. PatternSlots, PatternSlots \in Nat, S # {}
  PROVE  E!Min(S) \in S /\ E!Max(S) \in S /\ \A z \in S : E!Min(S) <= z /\ z <= E!Max(S)
  <1>1. S \subseteq Nat
    OBVIOUS
  <1>2. PICK m \in S : \A z \in S : m <= z
    BY <1>1, LeastExists
  <1> DEFINE T == {PatternSlots - z : z \in S}
  <1>3. T \subseteq Nat /\ T # {}
    <2>1. \A z \in S : PatternSlots - z \in Nat
      OBVIOUS
    <2> QED
      BY <2>1
  <1>4. PICK k \in T : \A z \in T : k <= z
    BY <1>3, LeastExists
  <1>5. PICK n \in S : k = PatternSlots - n
    OBVIOUS
  <1>6. \A z \in S : PatternSlots - n <= PatternSlots - z /\ z \in Int
    <2>1. \A z \in S : PatternSlots - z \in T
      OBVIOUS
    <2> HIDE DEF T
    <2> QED
      BY <1>1, <1>4, <1>5, <2>1
  <1>7. ASSUME NEW z \in S PROVE m <= z /\ z <= n
    <2>1. PatternSlots - n <= PatternSlots - z /\ z \in Int /\ n \in Int
      BY <1>6
    <2>2. z <= n
      BY <2>1
    <2> QED
      BY <1>2, <2>2
  <1>8. S \subseteq Int
    BY <1>1
  <1>9. E!Min(S) = m /\ E!Max(S) = n
    BY <1>7, <1>8, EMinMax
  <1> QED
    BY <1>7, <1>9

-----------------------------------------------------------------------------
(* Hours.                                                                    *)

HourSpan(h) == h * HourSlots + 1 .. h * HourSlots + HourSlots

LEMMA Spread ==
  ASSUME NEW n \in Nat \ {0}, NEW h \in Int, NEW k \in Int, NEW x \in Int,
         h * n <= x, x < h * n + n, k * n <= x, x < k * n + n
  PROVE  h = k
  <1>1. ASSUME NEW a \in Int, NEW b \in Int, a < b PROVE a * n + n <= b * n
    <2>1. PICK c \in Nat : b = (a + 1) + c
      <3>1. b - (a + 1) \in Nat /\ b = (a + 1) + (b - (a + 1))
        BY <1>1
      <3> QED
        BY <3>1
    <2>2. b * n = (a * n + n) + c * n
      BY <2>1
    <2>3. c * n \in Nat
      OBVIOUS
    <2> QED
      BY <2>2, <2>3
  <1> QED
    BY <1>1

LEMMA HourIs ==
  ASSUME PatternConstants, NEW t \in Nat \ {0}
  PROVE  /\ E!HourOf(t) \in Nat
         /\ \A h \in Int : E!HourOf(t) = h <=> t \in HourSpan(h)
  <1> DEFINE k == (t - 1) \div HourSlots
  <1>1. HourSlots \in Nat \ {0} /\ t - 1 \in Nat
    BY DEF PatternConstants
  <1>2. k \in Nat /\ k * HourSlots <= t - 1 /\ t - 1 < k * HourSlots + HourSlots
    <2>1. \A n \in Nat \ {0}, x \in Nat : /\ x \div n \in Nat /\ (x \div n) * n <= x
                                          /\ x < (x \div n) * n + n
      OBVIOUS
    <2> QED
      BY <1>1, <2>1
  <1>3. E!HourOf(t) = k
    BY DEF E!HourOf
  <1> HIDE DEF k
  <1>4. ASSUME NEW h \in Int PROVE t \in HourSpan(h) <=> h * HourSlots <= t - 1 /\ t - 1 < h * HourSlots + HourSlots
    <2>1. h * HourSlots \in Int
      BY <1>1
    <2> QED
      BY <1>1, <2>1 DEF HourSpan
  <1>5. ASSUME NEW h \in Int, h * HourSlots <= t - 1, t - 1 < h * HourSlots + HourSlots PROVE h = k
    BY <1>1, <1>2, <1>5, Spread
  <1> QED
    BY <1>2, <1>3, <1>4, <1>5

-----------------------------------------------------------------------------
(* Events.                                                                   *)

Mine(t) == {u \in E!Wet : E!EventOf(u) = E!EventOf(t)}

LEMMA WetIs ==
  ASSUME PatternConstants, RainData
  PROVE  /\ E!Wet \subseteq seen /\ E!Begins \subseteq E!Wet /\ seen \subseteq 1 .. PatternSlots
         /\ E!Wet \subseteq 1 .. PatternSlots /\ E!Wet \subseteq Nat /\ seen \subseteq Nat
         /\ E!Begins \subseteq Nat
         /\ \A t \in seen : t \notin E!Wet => rain[t] = 0
  <1>1. seen \subseteq 1 .. PatternSlots /\ 1 .. PatternSlots \subseteq Nat
    BY DEF RainData, PatternConstants
  <1>2. E!Wet \subseteq seen /\ E!Begins \subseteq E!Wet
    BY DEF E!Wet, E!Begins
  <1>3. ASSUME NEW t \in seen, t \notin E!Wet PROVE rain[t] = 0
    BY <1>1, <1>3 DEF E!Wet, RainData
  <1> QED
    BY <1>1, <1>2, <1>3

(* Two wet readings are of one event if none begins between them.            *)
LEMMA EventOrder ==
  ASSUME PatternConstants, RainData, NEW t \in E!Wet, NEW u \in E!Wet, t <= u
  PROVE  /\ E!EventOf(t) \in Nat /\ E!EventOf(u) \in Nat /\ E!EventOf(t) <= E!EventOf(u)
         /\ E!EventOf(t) = E!EventOf(u) <=> \A s \in E!Begins : ~(t < s /\ s <= u)
  <1> DEFINE T == {s \in E!Begins : s <= t}
             U == {s \in E!Begins : s <= u}
  <1>1. /\ E!Begins \subseteq Nat /\ E!Begins \subseteq 1 .. PatternSlots /\ t \in Nat /\ u \in Nat
    BY WetIs
  <1>2. E!EventOf(t) = Cardinality(T) /\ E!EventOf(u) = Cardinality(U)
    BY ECardinality DEF E!EventOf
  <1>3. T \in SUBSET U /\ T \subseteq 1 .. PatternSlots /\ U \subseteq 1 .. PatternSlots
    <2>1. \A s \in E!Begins : s <= t => s <= u
      BY <1>1
    <2> QED
      BY <1>1, <2>1
  <1>4. T = U <=> \A s \in E!Begins : ~(t < s /\ s <= u)
    <2>1. \A s \in E!Begins : s <= t \/ t < s
      BY <1>1
    <2>2. \A s \in E!Begins : ~(s <= t /\ t < s)
      BY <1>1
    <2> QED
      BY <1>3, <2>1, <2>2
  <1> HIDE DEF T, U
  <1>5. /\ Cardinality(T) \in Nat /\ Cardinality(U) \in Nat /\ Cardinality(T) <= Cardinality(U)
        /\ Cardinality(T) = Cardinality(U) => T = U
    BY <1>3, SlotsAre
  <1> QED
    BY <1>2, <1>4, <1>5

LEMMA MineIs ==
  ASSUME PatternConstants, RainData, NEW t \in E!Wet
  PROVE  /\ Mine(t) \subseteq E!Wet /\ t \in Mine(t) /\ Mine(t) \subseteq Nat
         /\ E!Min(Mine(t)) \in Mine(t) /\ E!Max(Mine(t)) \in Mine(t)
         /\ \A z \in Mine(t) : E!Min(Mine(t)) <= z /\ z <= E!Max(Mine(t))
  <1>1. Mine(t) \subseteq E!Wet /\ t \in Mine(t)
    BY DEF Mine
  <1>2. Mine(t) \subseteq 1 .. PatternSlots /\ Mine(t) \subseteq Nat /\ Mine(t) # {}
    BY <1>1, WetIs
  <1> QED
    BY <1>1, <1>2, FirstSlot DEF PatternConstants

(* The wet readings from the first to the last of an event are its own.      *)
LEMMA MineIsWhole ==
  ASSUME PatternConstants, RainData, NEW t \in E!Wet, NEW u \in E!Wet,
         E!Min(Mine(t)) <= u, u <= E!Max(Mine(t))
  PROVE  u \in Mine(t)
  <1>1. PICK a \in E!Wet, b \in E!Wet : /\ a = E!Min(Mine(t)) /\ b = E!Max(Mine(t))
                                        /\ E!EventOf(a) = E!EventOf(t) /\ E!EventOf(b) = E!EventOf(t)
    BY MineIs DEF Mine
  <1>2. a <= u /\ u <= b
    BY <1>1
  <1>3. E!EventOf(a) <= E!EventOf(u) /\ E!EventOf(a) \in Nat /\ E!EventOf(u) \in Nat
    BY <1>2, EventOrder
  <1>4. E!EventOf(u) <= E!EventOf(b)
    BY <1>2, EventOrder
  <1>5. E!EventOf(u) = E!EventOf(t)
    BY <1>1, <1>3, <1>4
  <1> QED
    BY <1>5 DEF Mine

(* An event starts where no wet reading is close enough before.              *)
LEMMA EventStarts ==
  ASSUME PatternConstants, RainData, NEW t \in E!Wet
  PROVE  E!Min(Mine(t)) \in E!Begins
  <1>1. PICK a \in E!Wet : a = E!Min(Mine(t)) /\ a \in Mine(t) /\ \A z \in Mine(t) : a <= z
    BY MineIs
  <1>2. /\ E!Wet \subseteq Nat /\ E!Begins \subseteq Nat /\ E!Begins \subseteq E!Wet
        /\ HourSlots \in Nat
    BY WetIs DEF PatternConstants
  <1>3. ASSUME NEW s \in E!Wet, s < a, a - s <= HourSlots + 1, a \notin E!Begins PROVE FALSE
    <2>1. ASSUME NEW b \in E!Begins, s < b, b <= a PROVE FALSE
      <3>1. b \in Nat /\ s \in Nat /\ a \in Nat
        BY <1>2
      <3>2. b - s <= HourSlots + 1
        BY <1>2, <1>3, <2>1, <3>1
      <3> QED
        BY <2>1, <3>2 DEF E!Begins
    <2>2. s <= a
      BY <1>2, <1>3
    <2>3. E!EventOf(s) = E!EventOf(a)
      BY <2>1, <2>2, EventOrder
    <2>4. s \in Mine(t)
      BY <1>1, <2>3 DEF Mine
    <2> QED
      BY <1>1, <1>2, <1>3, <2>4
  <1> QED
    BY <1>1, <1>3 DEF E!Begins

(* More than a dry hour between two events.                                  *)
LEMMA EventsApart ==
  ASSUME PatternConstants, RainData, NEW t \in E!Wet, NEW u \in E!Wet,
         E!Min(Mine(t)) < E!Min(Mine(u))
  PROVE  E!Min(Mine(u)) - E!Max(Mine(t)) > HourSlots + 1
  <1>1. PICK a \in E!Wet, b \in E!Wet : /\ a = E!Min(Mine(t)) /\ b = E!Max(Mine(t)) /\ a <= b
                                        /\ E!EventOf(a) = E!EventOf(t) /\ E!EventOf(b) = E!EventOf(t)
    BY MineIs DEF Mine
  <1>2. PICK c \in E!Begins : /\ c = E!Min(Mine(u)) /\ c \in E!Wet
                              /\ E!EventOf(c) = E!EventOf(u) /\ \A z \in Mine(u) : c <= z
    BY MineIs, EventStarts DEF Mine
  <1>3. a < c /\ a \in Nat /\ b \in Nat /\ c \in Nat /\ HourSlots \in Nat
    BY <1>1, <1>2, WetIs DEF PatternConstants
  <1>4. E!EventOf(a) # E!EventOf(c)
    <2>1. a <= c
      BY <1>3
    <2>2. ~ \A s \in E!Begins : ~(a < s /\ s <= c)
      BY <1>3
    <2> QED
      BY <1>2, <2>1, <2>2, EventOrder
  <1>5. b < c
    <2> SUFFICES ASSUME c <= b PROVE FALSE
      BY <1>3
    <2>1. a <= c
      BY <1>3
    <2>2. E!EventOf(a) <= E!EventOf(c) /\ E!EventOf(a) \in Nat /\ E!EventOf(c) \in Nat
      BY <1>2, <2>1, EventOrder
    <2>3. E!EventOf(c) <= E!EventOf(b)
      BY <1>2, EventOrder
    <2> QED
      BY <1>1, <1>4, <2>2, <2>3
  <1>6. ~(c - b <= HourSlots + 1)
    BY <1>5 DEF E!Begins
  <1> QED
    BY <1>1, <1>2, <1>3, <1>6

(* The row numbers grow by one a slot exactly where there is no gap.         *)
LEMMA RowsAre ==
  ASSUME PatternConstants, RainData, NEW a \in seen, NEW b \in seen, a <= b
  PROVE  E!RowNumber(b) - E!RowNumber(a) = b - a <=> a .. b \subseteq seen
  <1> DEFINE Low == {s \in seen : s <= a}
             High == {s \in seen : s <= b}
             X == High \ Low
  <1>1. seen \subseteq 1 .. PatternSlots /\ seen \subseteq Nat /\ a \in Nat /\ b \in Nat /\ PatternSlots \in Nat
    BY WetIs DEF PatternConstants
  <1>2. E!RowNumber(a) = Cardinality(Low) /\ E!RowNumber(b) = Cardinality(High)
    BY ECardinality DEF E!RowNumber
  <1>3. Low \in SUBSET High /\ High \subseteq 1 .. PatternSlots /\ Low \subseteq 1 .. PatternSlots
    <2>1. \A s \in seen : s <= a => s <= b
      BY <1>1
    <2> QED
      BY <1>1, <2>1
  <1>4. X = (a + 1 .. b) \cap seen
    <2>1. ASSUME NEW s \in seen PROVE s <= b /\ ~(s <= a) <=> s \in a + 1 .. b
      BY <1>1
    <2> QED
      BY <2>1
  <1> HIDE DEF Low, High, X
  <1>5. /\ Cardinality(High) \in Nat /\ Cardinality(Low) \in Nat
        /\ Cardinality(X) = Cardinality(High) - Cardinality(Low)
    BY <1>3, SlotsAre DEF X
  <1>6. Cardinality(a + 1 .. b) = b - a
    <2>1. Cardinality(a + 1 .. b) = IF a + 1 > b THEN 0 ELSE b - (a + 1) + 1
      BY <1>1, FS_Interval
    <2> QED
      BY <1>1, <2>1
  <1>7. a + 1 .. b \subseteq 1 .. PatternSlots /\ X \in SUBSET (a + 1 .. b)
    BY <1>1, <1>4
  <1>8. Cardinality(X) = b - a <=> X = a + 1 .. b
    <2> DEFINE Y == a + 1 .. b
    <2>1. Y \subseteq 1 .. PatternSlots /\ X \in SUBSET Y /\ Cardinality(Y) = b - a
      BY <1>6, <1>7
    <2> HIDE DEF Y
    <2>2. Cardinality(X) = Cardinality(Y) => X = Y
      BY <2>1, SlotsAre
    <2> QED
      BY <2>1, <2>2 DEF Y
  <1>9. X = a + 1 .. b <=> a .. b \subseteq seen
    <2>1. \A s : s \in a .. b <=> s = a \/ s \in a + 1 .. b
      BY <1>1
    <2> QED
      BY <1>4, <2>1
  <1> QED
    BY <1>2, <1>5, <1>8, <1>9

EventSpan(e) == {u \in seen : e.first <= u /\ u <= e.last}

LEMMA EventOfWet ==
  ASSUME PatternConstants, RainData, NEW t \in E!Wet, NEW e, e = E!Event(E!EventOf(t))
  PROVE  /\ e.first = E!Min(Mine(t)) /\ e.last = E!Max(Mine(t))
         /\ e.depth = SumOf(rain, Mine(t)) /\ e.hour = E!HourOf(e.first)
         /\ e.complete <=> e.first .. e.last \subseteq seen
         /\ e.first \in E!Wet /\ e.last \in E!Wet /\ e.first <= t /\ t <= e.last
         /\ E!EventOf(e.first) = E!EventOf(t)
  <1> DEFINE whole == E!RowNumber(E!Max(Mine(t))) - E!RowNumber(E!Min(Mine(t)))
                         = E!Max(Mine(t)) - E!Min(Mine(t))
  <1>1. e = [first |-> E!Min(Mine(t)), last |-> E!Max(Mine(t)), depth |-> E!Total(Mine(t)),
             hour |-> E!HourOf(E!Min(Mine(t))), complete |-> whole]
    BY DEF E!Event, Mine
  <1>2. /\ e.first = E!Min(Mine(t)) /\ e.last = E!Max(Mine(t))
        /\ e.depth = E!Total(Mine(t)) /\ e.hour = E!HourOf(E!Min(Mine(t)))
        /\ e.complete <=> whole
    <2> HIDE DEF whole
    <2>1. /\ e.first = E!Min(Mine(t)) /\ e.last = E!Max(Mine(t))
          /\ e.depth = E!Total(Mine(t)) /\ e.hour = E!HourOf(E!Min(Mine(t)))
      BY <1>1
    <2>2. e.complete = whole
      BY <1>1
    <2> QED
      BY <2>1, <2>2
  <1>3. /\ Mine(t) \subseteq E!Wet /\ t \in Mine(t)
        /\ E!Min(Mine(t)) \in Mine(t) /\ E!Max(Mine(t)) \in Mine(t)
        /\ \A z \in Mine(t) : E!Min(Mine(t)) <= z /\ z <= E!Max(Mine(t))
    BY MineIs
  <1>4. E!Min(Mine(t)) \in seen /\ E!Max(Mine(t)) \in seen /\ E!Min(Mine(t)) <= E!Max(Mine(t))
    BY <1>3, WetIs
  <1>5. e.complete <=> e.first .. e.last \subseteq seen
    BY <1>2, <1>4, RowsAre
  <1>6. e.depth = SumOf(rain, Mine(t))
    <2>1. Mine(t) \subseteq 1 .. PatternSlots
      BY <1>3, WetIs
    <2> QED
      BY <1>2, <2>1, TotalIs
  <1>7. E!EventOf(e.first) = E!EventOf(t)
    BY <1>2, <1>3 DEF Mine
  <1> QED
    BY <1>2, <1>3, <1>5, <1>6, <1>7

(* The dry readings in between add nothing.                                  *)
LEMMA DepthIs ==
  ASSUME PatternConstants, RainData, NEW e \in E!Events
  PROVE  /\ e.depth = SumOf(rain, EventSpan(e)) /\ EventSpan(e) \subseteq 1 .. PatternSlots
         /\ e.complete => EventSpan(e) = e.first .. e.last
  <1>1. PICK t \in E!Wet : e = E!Event(E!EventOf(t))
    BY DEF E!Events
  <1>2. /\ e.first = E!Min(Mine(t)) /\ e.last = E!Max(Mine(t)) /\ e.depth = SumOf(rain, Mine(t))
        /\ e.complete <=> e.first .. e.last \subseteq seen
        /\ e.first \in E!Wet /\ e.last \in E!Wet
    BY <1>1, EventOfWet
  <1>3. /\ seen \subseteq 1 .. PatternSlots /\ seen \subseteq Nat /\ E!Wet \subseteq seen
        /\ e.first \in Nat /\ e.last \in Nat
        /\ \A u \in seen : u \notin E!Wet => rain[u] = 0
    BY <1>2, WetIs
  <1> DEFINE Dry == EventSpan(e) \ Mine(t)
  <1>4. EventSpan(e) \subseteq seen /\ Mine(t) \subseteq EventSpan(e)
    <2>1. \A z \in Mine(t) : z \in E!Wet /\ E!Min(Mine(t)) <= z /\ z <= E!Max(Mine(t))
      BY MineIs
    <2> QED
      BY <1>2, <1>3, <2>1 DEF EventSpan
  <1>5. \A u \in Dry : rain[u] = 0
    <2>1. ASSUME NEW u \in Dry, u \in E!Wet PROVE FALSE
      <3>1. e.first <= u /\ u <= e.last
        BY DEF EventSpan
      <3>2. u \in Mine(t)
        BY <1>2, <2>1, <3>1, MineIsWhole
      <3> QED
        BY <3>2
    <2> QED
      BY <1>3, <1>4, <2>1
  <1>6. EventSpan(e) = Mine(t) \cup Dry /\ Mine(t) \cap Dry = {}
    BY <1>4
  <1>7. Mine(t) \subseteq 1 .. PatternSlots /\ Dry \subseteq 1 .. PatternSlots
    BY <1>3, <1>4
  <1> HIDE DEF Dry
  <1>8. SumOf(rain, EventSpan(e)) = SumOf(rain, Mine(t)) + SumOf(rain, Dry)
    <2>1. IsFiniteSet(Mine(t)) /\ IsFiniteSet(Dry) /\ Ints(rain, Mine(t)) /\ Ints(rain, Dry)
      BY <1>7, SlotsAre
    <2> QED
      BY <1>6, <2>1, SumUnion
  <1>9. SumOf(rain, Dry) = 0 /\ SumOf(rain, Mine(t)) \in Int
    <2>1. IsFiniteSet(Dry)
      BY <1>7, SlotsAre
    <2> QED
      BY <1>5, <1>7, <2>1, SumZero, SlotsAre
  <1>10. ASSUME e.complete PROVE EventSpan(e) = e.first .. e.last
    <2>1. e.first .. e.last \subseteq seen
      BY <1>2, <1>10
    <2>2. \A u \in seen : u \in e.first .. e.last <=> e.first <= u /\ u <= e.last
      BY <1>3
    <2> QED
      BY <2>1, <2>2 DEF EventSpan
  <1>11. e.depth = SumOf(rain, EventSpan(e))
    BY <1>2, <1>8, <1>9
  <1>12. EventSpan(e) \subseteq 1 .. PatternSlots
    BY <1>3, <1>4
  <1> QED
    BY <1>10, <1>11, <1>12

(* No two events overlap, and every wet reading is in one.                   *)
LEMMA EventsDivide ==
  ASSUME PatternConstants, RainData
  PROVE  /\ \A e, f \in E!Events : e.first < f.first => f.first - e.last > HourSlots + 1
         /\ \A e, f \in E!Events : e # f => EventSpan(e) \cap EventSpan(f) = {}
         /\ \A u \in E!Wet : \E e \in E!Events : u \in EventSpan(e)
  <1>1. ASSUME NEW e \in E!Events, NEW f \in E!Events, e.first < f.first
        PROVE  f.first - e.last > HourSlots + 1
    <2>1. PICK t \in E!Wet : e = E!Event(E!EventOf(t))
      BY DEF E!Events
    <2>2. PICK u \in E!Wet : f = E!Event(E!EventOf(u))
      BY DEF E!Events
    <2>3. e.first = E!Min(Mine(t)) /\ e.last = E!Max(Mine(t))
      BY <2>1, EventOfWet
    <2>4. f.first = E!Min(Mine(u))
      BY <2>2, EventOfWet
    <2> QED
      BY <1>1, <2>3, <2>4, EventsApart
  <1>2. ASSUME NEW e \in E!Events, NEW f \in E!Events, e # f
        PROVE  EventSpan(e) \cap EventSpan(f) = {}
    <2>1. PICK t \in E!Wet : e = E!Event(E!EventOf(t))
      BY DEF E!Events
    <2>2. PICK u \in E!Wet : f = E!Event(E!EventOf(u))
      BY DEF E!Events
    <2>3. e.first \in E!Wet /\ e.last \in E!Wet /\ E!EventOf(e.first) = E!EventOf(t)
      BY <2>1, EventOfWet
    <2>4. f.first \in E!Wet /\ f.last \in E!Wet /\ E!EventOf(f.first) = E!EventOf(u)
      BY <2>2, EventOfWet
    <2>5. e.first # f.first
      BY <1>2, <2>1, <2>2, <2>3, <2>4
    <2>6. e.first \in Nat /\ e.last \in Nat /\ f.first \in Nat /\ f.last \in Nat /\ HourSlots \in Nat
          /\ seen \subseteq Nat
      BY <2>3, <2>4, WetIs DEF PatternConstants
    <2>7. e.first < f.first => f.first - e.last > HourSlots + 1
      BY <1>1
    <2>8. f.first < e.first => e.first - f.last > HourSlots + 1
      BY <1>1
    <2> QED
      <3>1. e.first < f.first \/ f.first < e.first
        BY <2>5, <2>6
      <3>2. e.last < f.first \/ f.last < e.first
        BY <2>6, <2>7, <2>8, <3>1
      <3>3. \A z \in seen : ~(e.first <= z /\ z <= e.last /\ f.first <= z /\ z <= f.last)
        BY <2>6, <3>2
      <3> QED
        BY <3>3 DEF EventSpan
  <1>3. ASSUME NEW u \in E!Wet PROVE \E e \in E!Events : u \in EventSpan(e)
    <2> DEFINE e == E!Event(E!EventOf(u))
    <2>1. e \in E!Events
      BY DEF E!Events
    <2>2. e.first <= u /\ u <= e.last
      BY EventOfWet
    <2>3. u \in EventSpan(e)
      BY <2>2, WetIs DEF EventSpan
    <2> QED
      BY <2>1, <2>3
  <1> QED
    BY <1>1, <1>2, <1>3

-----------------------------------------------------------------------------
(* The tables.                                                               *)

Hours == {E!HourOf(t) : t \in seen}
Within(h) == {t \in seen : E!HourOf(t) = h}
HourRain == [h \in Hours |-> SumOf(rain, Within(h))]

LEMMA HourlyIs ==
  ASSUME PatternConstants, RainData
  PROVE  /\ DOMAIN E!Hourly = Hours
         /\ \A h \in Hours : /\ E!Hourly[h].n = Cardinality(Within(h))
                             /\ E!Hourly[h].rain = HourRain[h]
                             /\ E!Hourly[h].wet = Cardinality({t \in Within(h) : rain[t] > 0})
         /\ \A h : Within(h) \subseteq 1 .. PatternSlots
  <1>1. \A h : Within(h) \subseteq 1 .. PatternSlots
    BY WetIs DEF Within
  <1>2. E!Hourly = [h \in Hours |-> [n |-> Cardinality(Within(h)), rain |-> E!Total(Within(h)),
                                     wet |-> Cardinality({t \in Within(h) : rain[t] > 0})]]
    BY ECardinality DEF E!Hourly, Hours, Within
  <1>3. \A h \in Hours : E!Total(Within(h)) = HourRain[h]
    BY <1>1, TotalIs DEF HourRain
  <1>4. DOMAIN E!Hourly = Hours
    BY <1>2
  <1>5. ASSUME NEW h \in Hours
        PROVE  /\ E!Hourly[h].n = Cardinality(Within(h))
               /\ E!Hourly[h].rain = HourRain[h]
               /\ E!Hourly[h].wet = Cardinality({t \in Within(h) : rain[t] > 0})
    <2>1. E!Hourly[h] = [n |-> Cardinality(Within(h)), rain |-> HourRain[h],
                         wet |-> Cardinality({t \in Within(h) : rain[t] > 0})]
      BY <1>2, <1>3
    <2> QED
      BY <2>1
  <1> QED
    BY <1>1, <1>4, <1>5

LEMMA HoursAre ==
  ASSUME PatternConstants, RainData
  PROVE  /\ Hours \subseteq 0 .. PatternSlots /\ IsFiniteSet(Hours)
         /\ \A S \in SUBSET Hours : IsFiniteSet(S) /\ Ints(HourRain, S)
         /\ \A h \in 0 .. PatternSlots :
               /\ Within(h) \in SUBSET HourSpan(h) /\ Within(h) = HourSpan(h) \cap seen
               /\ IsFiniteSet(HourSpan(h)) /\ Cardinality(HourSpan(h)) = HourSlots
  <1>1. /\ seen \subseteq 1 .. PatternSlots /\ PatternSlots \in Nat /\ HourSlots \in Nat \ {0}
        /\ seen \subseteq Nat \ {0}
    BY DEF RainData, PatternConstants
  <1>2. ASSUME NEW t \in seen PROVE E!HourOf(t) \in 0 .. PatternSlots
    <2> DEFINE h == E!HourOf(t)
    <2>1. h \in Nat /\ t \in HourSpan(h)
      BY <1>1, HourIs
    <2> HIDE DEF h
    <2>2. h * HourSlots \in Nat /\ h <= h * HourSlots
      <3>1. \A a \in Nat, b \in Nat \ {0} : a * b \in Nat /\ a <= a * b
        <4> TAKE a \in Nat, b \in Nat \ {0}
        <4>1. PICK c \in Nat : b = c + 1
          <5>1. b - 1 \in Nat /\ b = (b - 1) + 1
            OBVIOUS
          <5> QED
            BY <5>1
        <4>2. a * b = a * c + a /\ a * c \in Nat
          BY <4>1
        <4> QED
          BY <4>2
      <3> QED
        BY <1>1, <2>1, <3>1
    <2>3. t <= PatternSlots /\ h * HourSlots + 1 <= t
      BY <1>1, <2>1, <2>2 DEF HourSpan
    <2>4. h \in 0 .. PatternSlots
      BY <1>1, <2>1, <2>2, <2>3
    <2> QED
      BY <2>4 DEF h
  <1>3. Hours \subseteq 0 .. PatternSlots
    BY <1>2 DEF Hours
  <1>4. IsFiniteSet(Hours)
    <2>1. IsFiniteSet(0 .. PatternSlots)
      BY <1>1, FS_Interval
    <2> QED
      BY <1>3, <2>1, FS_Subset
  <1>5. ASSUME NEW S \in SUBSET Hours PROVE IsFiniteSet(S) /\ Ints(HourRain, S)
    <2>1. \A h \in S : HourRain[h] \in Int
      BY HourlyIs, SlotsAre DEF HourRain
    <2> QED
      BY <1>4, <2>1, FS_Subset DEF Ints
  <1>6. ASSUME NEW h \in 0 .. PatternSlots
        PROVE  /\ Within(h) \in SUBSET HourSpan(h) /\ Within(h) = HourSpan(h) \cap seen
               /\ IsFiniteSet(HourSpan(h)) /\ Cardinality(HourSpan(h)) = HourSlots
    <2>1. \A t \in seen : E!HourOf(t) = h <=> t \in HourSpan(h)
      BY <1>1, HourIs
    <2>2. Within(h) = HourSpan(h) \cap seen
      BY <2>1 DEF Within
    <2>3. h * HourSlots \in Int
      BY <1>1
    <2>4. \A a \in Int : IsFiniteSet(a + 1 .. a + HourSlots) /\ Cardinality(a + 1 .. a + HourSlots) = HourSlots
      <3> TAKE a \in Int
      <3>1. a + 1 \in Int /\ a + HourSlots \in Int /\ ~(a + 1 > a + HourSlots)
            /\ (a + HourSlots) - (a + 1) + 1 = HourSlots
        BY <1>1
      <3>2. /\ IsFiniteSet(a + 1 .. a + HourSlots)
            /\ Cardinality(a + 1 .. a + HourSlots) =
                  IF a + 1 > a + HourSlots THEN 0 ELSE (a + HourSlots) - (a + 1) + 1
        BY <3>1, FS_Interval
      <3> QED
        BY <3>1, <3>2
    <2> QED
      BY <2>2, <2>3, <2>4 DEF HourSpan
  <1> QED
    BY <1>3, <1>4, <1>5, <1>6

WholeHours == {h \in 0 .. PatternSlots : \A t \in 1 .. HourSlots : h * HourSlots + t \in seen}

(* The hours with all readings are those without a gap.                      *)
LEMMA WholeIs ==
  ASSUME PatternConstants, RainData
  PROVE  /\ {h \in Hours : E!Hourly[h].n = HourSlots} = WholeHours
         /\ \A h \in WholeHours : HourSpan(h) \subseteq seen
         /\ UNION {Within(h) : h \in WholeHours} = {t \in 1 .. PatternSlots : E!HourOf(t) \in WholeHours}
  <1>1. /\ PatternSlots \in Nat /\ HourSlots \in Nat \ {0} /\ seen \subseteq 1 .. PatternSlots
        /\ seen \subseteq Nat \ {0}
    BY DEF RainData, PatternConstants
  <1>2. ASSUME NEW h \in 0 .. PatternSlots PROVE h \in WholeHours <=> HourSpan(h) \subseteq seen
    <2>1. h * HourSlots \in Int
      BY <1>1
    <2>2. \A a \in Int : (\A t \in 1 .. HourSlots : a + t \in seen) <=> a + 1 .. a + HourSlots \subseteq seen
      <3> TAKE a \in Int
      <3>1. ASSUME \A t \in 1 .. HourSlots : a + t \in seen, NEW s \in a + 1 .. a + HourSlots PROVE s \in seen
        <4>1. s - a \in 1 .. HourSlots /\ a + (s - a) = s
          BY <1>1
        <4> QED
          BY <3>1, <4>1
      <3>2. ASSUME a + 1 .. a + HourSlots \subseteq seen, NEW t \in 1 .. HourSlots PROVE a + t \in seen
        <4>1. a + t \in a + 1 .. a + HourSlots
          BY <1>1
        <4> QED
          BY <3>2, <4>1
      <3> QED
        BY <3>1, <3>2
    <2> QED
      BY <2>1, <2>2 DEF WholeHours, HourSpan
  <1>3. ASSUME NEW h \in 0 .. PatternSlots, HourSpan(h) \subseteq seen PROVE h \in Hours
    <2>1. h * HourSlots + 1 \in HourSpan(h)
      <3>1. h * HourSlots \in Int
        BY <1>1
      <3> QED
        BY <1>1, <3>1 DEF HourSpan
    <2>2. E!HourOf(h * HourSlots + 1) = h
      BY <1>1, <1>3, <2>1, HourIs
    <2> QED
      BY <1>3, <2>1, <2>2 DEF Hours
  <1>4. ASSUME NEW h \in Hours PROVE E!Hourly[h].n = HourSlots <=> HourSpan(h) \subseteq seen
    <2>1. /\ h \in 0 .. PatternSlots /\ Within(h) \in SUBSET HourSpan(h) /\ Within(h) = HourSpan(h) \cap seen
          /\ IsFiniteSet(HourSpan(h)) /\ Cardinality(HourSpan(h)) = HourSlots
      BY HoursAre
    <2>2. Cardinality(Within(h)) = Cardinality(HourSpan(h)) <=> Within(h) = HourSpan(h)
      BY <2>1, FS_Subset
    <2>3. E!Hourly[h].n = Cardinality(Within(h))
      BY HourlyIs
    <2> QED
      BY <2>1, <2>2, <2>3
  <1>5. {h \in Hours : E!Hourly[h].n = HourSlots} = WholeHours
    BY <1>2, <1>3, <1>4, HoursAre DEF WholeHours
  <1>6. ASSUME NEW t \in 1 .. PatternSlots, E!HourOf(t) \in WholeHours PROVE t \in seen
    <2>1. t \in HourSpan(E!HourOf(t))
      BY <1>1, HourIs
    <2> QED
      BY <1>2, <1>6, <2>1 DEF WholeHours
  <1>7. UNION {Within(h) : h \in WholeHours} = {t \in 1 .. PatternSlots : E!HourOf(t) \in WholeHours}
    <2>1. \A t : t \in UNION {Within(h) : h \in WholeHours} <=> t \in seen /\ E!HourOf(t) \in WholeHours
      <3>1. ASSUME NEW t, NEW h \in WholeHours, t \in Within(h) PROVE t \in seen /\ E!HourOf(t) \in WholeHours
        BY <3>1 DEF Within
      <3>2. ASSUME NEW t \in seen, E!HourOf(t) \in WholeHours PROVE \E h \in WholeHours : t \in Within(h)
        BY <3>2 DEF Within
      <3> QED
        BY <3>1, <3>2
    <2>2. \A t : t \in seen /\ E!HourOf(t) \in WholeHours <=> t \in 1 .. PatternSlots /\ E!HourOf(t) \in WholeHours
      BY <1>1, <1>6
    <2> QED
      BY <2>1, <2>2
  <1> QED
    BY <1>2, <1>5, <1>7 DEF WholeHours

LEMMA HourRainSum ==
  ASSUME PatternConstants, RainData, NEW S, S \subseteq Hours
  PROVE  SumOf(HourRain, S) = SumOf(rain, UNION {Within(h) : h \in S})
  <1> DEFINE part == [h \in S |-> Within(h)]
  <1>1. IsFiniteSet(S) /\ Ints(HourRain, S) /\ IsFiniteSet(seen) /\ Ints(rain, seen)
    BY HoursAre, SlotsAre, WetIs
  <1>2. \A h \in S : part[h] \subseteq seen /\ HourRain[h] = SumOf(rain, part[h])
    BY DEF Within, HourRain
  <1>3. \A h, k \in S : h # k => part[h] \cap part[k] = {}
    BY DEF Within
  <1>4. SumOf(HourRain, S) = SumOf(rain, UNION {part[h] : h \in S})
    <2> HIDE DEF part
    <2> QED
      BY <1>1, <1>2, <1>3, SumParts
  <1>5. UNION {part[h] : h \in S} = UNION {Within(h) : h \in S}
    OBVIOUS
  <1> QED
    BY <1>4, <1>5

LEMMA HourRainFold ==
  ASSUME PatternConstants, RainData, NEW S, S \subseteq Hours
  PROVE  E!MapThenSumSet(LAMBDA h : E!Hourly[h].rain, S) = SumOf(HourRain, S)
  <1> DEFINE I(g) == g = [s \in SUBSET S |->
                           IF s = {} THEN 0
                           ELSE LET x == CHOOSE x \in s : TRUE
                                IN  E!Hourly[x].rain + g[s \ {x}]]
  <1>1. \A g : Folded(g, HourRain, S) <=> I(g)
    <2> TAKE g
    <2>1. \A s \in SUBSET S : s # {} => E!Hourly[Choice(s)].rain = HourRain[Choice(s)]
      <3> TAKE s \in SUBSET S
      <3>1. s # {} => Choice(s) \in Hours
        BY ChoiceIs
      <3> QED
        BY <3>1, HourlyIs
    <2>2. [s \in SUBSET S |-> IF s = {} THEN 0 ELSE HourRain[Choice(s)] + g[s \ {Choice(s)}]]
             = [s \in SUBSET S |-> IF s = {} THEN 0 ELSE E!Hourly[Choice(s)].rain + g[s \ {Choice(s)}]]
      BY <2>1
    <2> QED
      BY <2>2 DEF Folded, Choice
  <1>2. E!MapThenSumSet(LAMBDA h : E!Hourly[h].rain, S) = (CHOOSE g : I(g))[S]
    BY DEF E!MapThenSumSet, E!MapThenFoldSet
  <1>3. IsFiniteSet(S) /\ Ints(HourRain, S)
    BY HoursAre
  <1>4. \E g : Folded(g, HourRain, S)
    BY <1>3, FoldExists
  <1> HIDE DEF I
  <1>5. I(CHOOSE g : I(g))
    BY <1>1, <1>4
  <1> QED
    BY <1>1, <1>2, <1>3, <1>5, SumIs

LEMMA MonthlyIs ==
  ASSUME PatternConstants, RainData
  PROVE  /\ E!Monthly.rain = SumOf(rain, seen)
         /\ E!Monthly.rain_complete = SumOf(rain, {t \in 1 .. PatternSlots : E!HourOf(t) \in WholeHours})
         /\ E!Monthly.complete_hours = Cardinality(WholeHours)
  <1> DEFINE whole == {h \in Hours : E!Hourly[h].n = HourSlots}
  <1>1. /\ E!Monthly.rain = E!MapThenSumSet(LAMBDA h : E!Hourly[h].rain, Hours)
        /\ E!Monthly.rain_complete = E!MapThenSumSet(LAMBDA h : E!Hourly[h].rain, whole)
        /\ E!Monthly.complete_hours = E!Cardinality(whole)
    BY HourlyIs DEF E!Monthly
  <1>2. UNION {Within(h) : h \in Hours} = seen
    BY DEF Within, Hours
  <1>3. whole = WholeHours /\ WholeHours \subseteq Hours
    BY WholeIs
  <1>4. E!Monthly.rain = SumOf(rain, seen)
    BY <1>1, <1>2, HourRainFold, HourRainSum
  <1>5. E!Monthly.rain_complete = SumOf(rain, UNION {Within(h) : h \in WholeHours})
    BY <1>1, <1>3, HourRainFold, HourRainSum
  <1> QED
    BY <1>1, <1>3, <1>4, <1>5, WholeIs, ECardinality

EventDepth == [e \in E!Events |-> e.depth]

LEMMA EventsAre ==
  ASSUME PatternConstants, RainData, NEW S, S \subseteq E!Events
  PROVE  /\ IsFiniteSet(S) /\ Ints(EventDepth, S)
         /\ SumOf(EventDepth, S) = SumOf(rain, UNION {EventSpan(e) : e \in S})
  <1>1. IsFiniteSet(E!Events)
    <2> DEFINE f == [t \in E!Wet |-> E!Event(E!EventOf(t))]
    <2>1. f \in Surjection(E!Wet, E!Events)
      BY DEF Surjection, E!Events
    <2>2. IsFiniteSet(E!Wet)
      BY WetIs, SlotsAre
    <2> HIDE DEF f
    <2> QED
      BY <2>1, <2>2, FS_Surjection
  <1>2. IsFiniteSet(S)
    BY <1>1, FS_Subset
  <1> DEFINE part == [e \in S |-> EventSpan(e)]
  <1>3. \A e \in S : part[e] \subseteq seen /\ EventDepth[e] = SumOf(rain, part[e])
    BY DepthIs DEF EventDepth, EventSpan
  <1>4. \A e, f \in S : e # f => part[e] \cap part[f] = {}
    BY EventsDivide
  <1>5. IsFiniteSet(seen) /\ Ints(rain, seen)
    BY SlotsAre, WetIs
  <1>6. SumOf(EventDepth, S) = SumOf(rain, UNION {part[e] : e \in S})
    <2> HIDE DEF part
    <2> QED
      BY <1>2, <1>3, <1>4, <1>5, SumParts
  <1>7. UNION {part[e] : e \in S} = UNION {EventSpan(e) : e \in S}
    OBVIOUS
  <1>8. \A e \in S : EventDepth[e] \in Int
    <2> TAKE e \in S
    <2>1. SumOf(rain, EventSpan(e)) \in Int
      BY DepthIs, SlotsAre
    <2> QED
      BY <2>1, DepthIs DEF EventDepth
  <1> QED
    BY <1>2, <1>6, <1>7, <1>8 DEF Ints

LEMMA DepthFold ==
  ASSUME PatternConstants, RainData, NEW S, S \subseteq E!Events
  PROVE  E!MapThenSumSet(LAMBDA e : e.depth, S) = SumOf(EventDepth, S)
  <1> DEFINE I(g) == g = [s \in SUBSET S |->
                           IF s = {} THEN 0
                           ELSE LET x == CHOOSE x \in s : TRUE IN x.depth + g[s \ {x}]]
  <1>1. \A g : Folded(g, EventDepth, S) <=> I(g)
    <2> TAKE g
    <2>1. \A s \in SUBSET S : s # {} => Choice(s).depth = EventDepth[Choice(s)]
      <3> TAKE s \in SUBSET S
      <3>1. s # {} => Choice(s) \in E!Events
        BY ChoiceIs
      <3> QED
        BY <3>1 DEF EventDepth
    <2>2. [s \in SUBSET S |-> IF s = {} THEN 0 ELSE EventDepth[Choice(s)] + g[s \ {Choice(s)}]]
             = [s \in SUBSET S |-> IF s = {} THEN 0 ELSE Choice(s).depth + g[s \ {Choice(s)}]]
      BY <2>1
    <2> QED
      BY <2>2 DEF Folded, Choice
  <1>2. E!MapThenSumSet(LAMBDA e : e.depth, S) = (CHOOSE g : I(g))[S]
    BY DEF E!MapThenSumSet, E!MapThenFoldSet
  <1>3. IsFiniteSet(S) /\ Ints(EventDepth, S)
    BY EventsAre
  <1>4. \E g : Folded(g, EventDepth, S)
    BY <1>3, FoldExists
  <1> HIDE DEF I
  <1>5. I(CHOOSE g : I(g))
    BY <1>1, <1>4
  <1> QED
    BY <1>1, <1>2, <1>3, <1>5, SumIs

(* The events share out the rain: what is in none is dry.                    *)
LEMMA EventsShareOut ==
  ASSUME PatternConstants, RainData
  PROVE  SumOf(EventDepth, E!Events) = SumOf(rain, seen)
  <1> DEFINE Spans == UNION {EventSpan(e) : e \in E!Events}
             Dry == seen \ Spans
  <1>1. Spans \subseteq seen
    BY DEF EventSpan
  <1>2. \A u \in Dry : rain[u] = 0
    BY WetIs, EventsDivide
  <1>3. seen = Spans \cup Dry /\ Spans \cap Dry = {}
    BY <1>1
  <1>4. Spans \subseteq 1 .. PatternSlots /\ Dry \subseteq 1 .. PatternSlots
    BY <1>1, WetIs
  <1>5. SumOf(EventDepth, E!Events) = SumOf(rain, Spans)
    BY EventsAre
  <1> HIDE DEF Spans, Dry
  <1>6. /\ IsFiniteSet(Spans) /\ Ints(rain, Spans) /\ SumOf(rain, Spans) \in Int
        /\ IsFiniteSet(Dry) /\ Ints(rain, Dry)
    BY <1>4, SlotsAre
  <1>7. SumOf(rain, seen) = SumOf(rain, Spans) + SumOf(rain, Dry)
    BY <1>3, <1>6, SumUnion
  <1>8. SumOf(rain, Dry) = 0
    BY <1>2, <1>6, SumZero
  <1> QED
    BY <1>5, <1>6, <1>7, <1>8

OfClass(k) == {e \in E!Events : e.complete /\ E!Class(e) = k}
ClassSpan(k) == UNION {EventSpan(e) : e \in OfClass(k)}
ClassRain == [k \in DOMAIN E!ByClass |-> SumOf(rain, ClassSpan(k))]
InComplete == {t \in seen : \E e \in E!Events : e.complete /\ e.first <= t /\ t <= e.last}

LEMMA ClassesAre ==
  ASSUME PatternConstants, RainData
  PROVE  /\ DOMAIN E!ByClass = 0 .. Cardinality(ClassEdges) /\ IsFiniteSet(DOMAIN E!ByClass)
         /\ \A k \in DOMAIN E!ByClass : E!ByClass[k].rain = ClassRain[k]
         /\ \A k \in DOMAIN E!ByClass : ClassSpan(k) \subseteq 1 .. PatternSlots
         /\ \A e \in E!Events : E!Class(e) \in DOMAIN E!ByClass
         /\ Ints(ClassRain, DOMAIN E!ByClass)
         /\ SumOf(ClassRain, DOMAIN E!ByClass) = SumOf(rain, InComplete)
  <1>1. Cardinality(ClassEdges) \in Nat
    BY FS_CardinalityType DEF PatternConstants
  <1>2. DOMAIN E!ByClass = 0 .. Cardinality(ClassEdges)
    BY ECardinality DEF E!ByClass
  <1>3. IsFiniteSet(DOMAIN E!ByClass)
    BY <1>1, <1>2, FS_Interval
  <1>4. \A k : OfClass(k) \subseteq E!Events /\ ClassSpan(k) \subseteq seen
    BY DEF OfClass, ClassSpan, EventSpan
  <1>5. ASSUME NEW k \in DOMAIN E!ByClass PROVE E!ByClass[k].rain = ClassRain[k]
    <2>1. E!ByClass[k] = [events |-> E!Cardinality(OfClass(k)),
                          rain |-> E!MapThenSumSet(LAMBDA e : e.depth, OfClass(k))]
      BY <1>2, ECardinality DEF E!ByClass, OfClass
    <2>2. E!ByClass[k].rain = E!MapThenSumSet(LAMBDA e : e.depth, OfClass(k))
      BY <2>1
    <2> QED
      BY <1>4, <2>2, DepthFold, EventsAre DEF ClassRain, ClassSpan
  <1>6. ASSUME NEW e \in E!Events PROVE E!Class(e) \in DOMAIN E!ByClass
    <2> DEFINE T == {edge \in ClassEdges : edge < e.last - e.first + 1}
    <2>1. T \in SUBSET ClassEdges
      OBVIOUS
    <2>2. E!Class(e) = Cardinality(T)
      BY ECardinality DEF E!Class
    <2> HIDE DEF T
    <2>3. IsFiniteSet(T) /\ Cardinality(T) <= Cardinality(ClassEdges)
      BY <2>1, FS_Subset DEF PatternConstants
    <2>4. Cardinality(T) \in Nat
      BY <2>3, FS_CardinalityType
    <2> QED
      BY <1>1, <1>2, <2>2, <2>3, <2>4
  <1>7. \A k : ClassSpan(k) \subseteq 1 .. PatternSlots
    BY <1>4, WetIs
  <1>8. Ints(ClassRain, DOMAIN E!ByClass)
    BY <1>7, SlotsAre DEF Ints, ClassRain
  <1> DEFINE part == [k \in DOMAIN E!ByClass |-> ClassSpan(k)]
  <1>9. \A k \in DOMAIN E!ByClass : part[k] \subseteq seen /\ ClassRain[k] = SumOf(rain, part[k])
    BY <1>4 DEF ClassRain
  <1>10. \A k, m \in DOMAIN E!ByClass : k # m => part[k] \cap part[m] = {}
    <2> SUFFICES ASSUME NEW k \in DOMAIN E!ByClass, NEW m \in DOMAIN E!ByClass, k # m,
                        NEW t \in ClassSpan(k), t \in ClassSpan(m)
                 PROVE  FALSE
      OBVIOUS
    <2>1. PICK e \in OfClass(k) : t \in EventSpan(e)
      BY DEF ClassSpan
    <2>2. PICK f \in OfClass(m) : t \in EventSpan(f)
      BY DEF ClassSpan
    <2>3. e \in E!Events /\ f \in E!Events /\ e # f
      BY DEF OfClass
    <2> QED
      BY <2>1, <2>2, <2>3, EventsDivide
  <1>11. UNION {part[k] : k \in DOMAIN E!ByClass} = InComplete
    <2>1. ASSUME NEW k \in DOMAIN E!ByClass, NEW t \in part[k] PROVE t \in InComplete
      <3>1. PICK e \in OfClass(k) : t \in EventSpan(e)
        BY DEF ClassSpan
      <3> QED
        BY <3>1 DEF OfClass, EventSpan, InComplete
    <2>2. ASSUME NEW t \in InComplete PROVE \E k \in DOMAIN E!ByClass : t \in part[k]
      <3>1. PICK e \in E!Events : t \in seen /\ e.complete /\ e.first <= t /\ t <= e.last
        BY DEF InComplete
      <3>2. e \in OfClass(E!Class(e)) /\ t \in EventSpan(e)
        BY <3>1 DEF OfClass, EventSpan
      <3>3. E!Class(e) \in DOMAIN E!ByClass /\ t \in ClassSpan(E!Class(e))
        BY <1>6, <3>2 DEF ClassSpan
      <3> QED
        BY <3>3
    <2> HIDE DEF part
    <2> QED
      BY <2>1, <2>2
  <1>12. IsFiniteSet(seen) /\ Ints(rain, seen)
    BY SlotsAre, WetIs
  <1>13. SumOf(ClassRain, DOMAIN E!ByClass) = SumOf(rain, UNION {part[k] : k \in DOMAIN E!ByClass})
    <2> HIDE DEF part
    <2> QED
      BY <1>3, <1>9, <1>10, <1>12, SumParts
  <1> QED
    BY <1>2, <1>3, <1>5, <1>6, <1>7, <1>8, <1>11, <1>13

LEMMA ClassFold ==
  ASSUME PatternConstants, RainData, tables.classes = E!ByClass
  PROVE  E!MapThenSumSet(LAMBDA k : tables.classes[k].rain, DOMAIN tables.classes) = SumOf(rain, InComplete)
  <1> DEFINE S == DOMAIN tables.classes
             I(g) == g = [s \in SUBSET S |->
                           IF s = {} THEN 0
                           ELSE LET x == CHOOSE x \in s : TRUE
                                IN  tables.classes[x].rain + g[s \ {x}]]
  <1>1. \A g : Folded(g, ClassRain, S) <=> I(g)
    <2> TAKE g
    <2>1. \A s \in SUBSET S : s # {} => tables.classes[Choice(s)].rain = ClassRain[Choice(s)]
      <3> TAKE s \in SUBSET S
      <3>1. s # {} => Choice(s) \in DOMAIN E!ByClass
        BY ChoiceIs
      <3> QED
        BY <3>1, ClassesAre
    <2>2. [s \in SUBSET S |-> IF s = {} THEN 0 ELSE ClassRain[Choice(s)] + g[s \ {Choice(s)}]]
             = [s \in SUBSET S |-> IF s = {} THEN 0 ELSE tables.classes[Choice(s)].rain + g[s \ {Choice(s)}]]
      BY <2>1
    <2> QED
      BY <2>2 DEF Folded, Choice
  <1>2. E!MapThenSumSet(LAMBDA k : tables.classes[k].rain, S) = (CHOOSE g : I(g))[S]
    BY DEF E!MapThenSumSet, E!MapThenFoldSet
  <1>3. IsFiniteSet(S) /\ Ints(ClassRain, S)
    BY ClassesAre
  <1>4. \E g : Folded(g, ClassRain, S)
    BY <1>3, FoldExists
  <1> HIDE DEF I
  <1>5. I(CHOOSE g : I(g))
    BY <1>1, <1>4
  <1>6. E!MapThenSumSet(LAMBDA k : tables.classes[k].rain, S) = SumOf(ClassRain, S)
    BY <1>1, <1>2, <1>3, <1>5, SumIs
  <1> QED
    BY <1>6, ClassesAre

-----------------------------------------------------------------------------
LEMMA TablesMatch ==
  ASSUME PatternConstants, PatternInv
  PROVE  E!TablesMatchRain
  <1> SUFFICES ASSUME tables # E!Pending PROVE E!TablesMatchRain
    BY DEF E!TablesMatchRain
  <1>1. /\ RainData /\ tables.hourly = E!Hourly /\ tables.month = E!Monthly
        /\ tables.events = E!Events /\ tables.classes = E!ByClass
    BY DEF PatternInv
  <1>2. ASSUME NEW e \in E!Events
        PROVE  /\ e.complete <=> e.first .. e.last \subseteq seen
               /\ e.complete => e.depth = E!Total(e.first .. e.last)
               /\ E!Hourly[e.hour].wet > 0
    <2>1. PICK t \in E!Wet : e = E!Event(E!EventOf(t))
      BY DEF E!Events
    <2>2. /\ e.complete <=> e.first .. e.last \subseteq seen
          /\ e.hour = E!HourOf(e.first) /\ e.first \in E!Wet
      BY <1>1, <2>1, EventOfWet
    <2>3. ASSUME e.complete PROVE e.depth = E!Total(e.first .. e.last)
      <3>1. /\ e.depth = SumOf(rain, EventSpan(e)) /\ EventSpan(e) = e.first .. e.last
            /\ EventSpan(e) \subseteq 1 .. PatternSlots
        BY <1>1, <2>3, DepthIs
      <3> QED
        BY <1>1, <3>1, TotalIs
    <2>4. E!Hourly[e.hour].wet > 0
      <3> DEFINE h == e.hour
                 T == {s \in Within(h) : rain[s] > 0}
      <3>1. e.first \in seen /\ rain[e.first] > 0 /\ h \in Hours /\ e.first \in Within(h)
        BY <1>1, <2>2, WetIs DEF E!Wet, Hours, Within
      <3>2. e.first \in T /\ T \subseteq 1 .. PatternSlots
        BY <1>1, <3>1, HourlyIs
      <3>3. E!Hourly[h].wet = Cardinality(T)
        BY <1>1, <3>1, HourlyIs
      <3> HIDE DEF T, h
      <3>4. IsFiniteSet(T) /\ Cardinality(T) \in Nat
        BY <1>1, <3>2, SlotsAre
      <3>5. Cardinality(T) > 0
        BY <3>2, <3>4, FS_EmptySet
      <3> QED
        BY <3>3, <3>5 DEF h
    <2> QED
      BY <2>2, <2>3, <2>4
  <1>3. \A e, f \in E!Events : e.first < f.first => f.first - e.last > HourSlots + 1
    BY <1>1, EventsDivide
  <1>4. /\ tables.month.rain = SumOf(rain, seen)
        /\ tables.month.rain_complete = E!Total({t \in 1 .. PatternSlots : E!HourOf(t) \in WholeHours})
        /\ tables.month.complete_hours = E!Cardinality(WholeHours)
    <2>1. {t \in 1 .. PatternSlots : E!HourOf(t) \in WholeHours} \subseteq 1 .. PatternSlots
      OBVIOUS
    <2> QED
      BY <1>1, <2>1, MonthlyIs, ECardinality, TotalIs
  <1>5. tables.month.rain = E!MapThenSumSet(LAMBDA e : e.depth, tables.events)
    <2>1. E!MapThenSumSet(LAMBDA e : e.depth, E!Events) = SumOf(EventDepth, E!Events)
      BY <1>1, DepthFold
    <2> QED
      BY <1>1, <1>4, <2>1, EventsShareOut
  <1>6. E!MapThenSumSet(LAMBDA k : tables.classes[k].rain, DOMAIN tables.classes)
           = E!Total({t \in seen : \E e \in tables.events : e.complete /\ e.first <= t /\ t <= e.last})
    <2>1. InComplete = {t \in seen : \E e \in tables.events : e.complete /\ e.first <= t /\ t <= e.last}
      BY <1>1 DEF InComplete
    <2>2. InComplete \subseteq 1 .. PatternSlots
      BY <1>1, WetIs DEF InComplete
    <2>3. E!Total(InComplete) = SumOf(rain, InComplete)
      BY <1>1, <2>2, TotalIs
    <2> QED
      BY <1>1, <2>1, <2>3, ClassFold
  <1> QED
    BY <1>1, <1>2, <1>3, <1>4, <1>5, <1>6 DEF E!TablesMatchRain, WholeHours

LEMMA PatternStart ==
  ASSUME E!Init
  PROVE  PatternInv
  BY DEF E!Init, PatternInv, RainData

LEMMA PatternStep ==
  ASSUME PatternInv, E!Next \/ UNCHANGED patternVars
  PROVE  PatternInv'
  <1>1. rain' = rain /\ seen' = seen
    BY DEF E!Next, E!Tabulate, patternVars
  <1>2. RainData'
    BY <1>1 DEF RainData, PatternInv
  <1>3. E!Pending' = E!Pending
    BY DEF E!Pending
  <1>4. E!Hourly' = E!Hourly
    BY <1>1 DEF E!Hourly, E!HourOf, E!Total, E!MapThenSumSet, E!MapThenFoldSet, E!Cardinality
  <1>5. E!Monthly' = E!Monthly
    BY <1>4 DEF E!Monthly, E!MapThenSumSet, E!MapThenFoldSet, E!Cardinality
  <1>6. E!Wet' = E!Wet
    BY <1>1 DEF E!Wet
  <1>7. E!Events' = E!Events
    <2>1. E!Begins' = E!Begins
      BY <1>6 DEF E!Begins
    <2>2. E!Events' = E!Events
      BY <1>1, <1>6, <2>1 DEF E!Events, E!Event, E!EventOf, E!RowNumber, E!HourOf, E!Total, E!Min, E!Max,
           E!MapThenSumSet, E!MapThenFoldSet, E!Cardinality
    <2> QED
      BY <2>2
  <1>8. E!ByClass' = E!ByClass
    BY <1>7 DEF E!ByClass, E!Class, E!MapThenSumSet, E!MapThenFoldSet, E!Cardinality
  <1>9. CASE tables' = tables
    BY <1>2, <1>3, <1>4, <1>5, <1>7, <1>8, <1>9 DEF PatternInv
  <1>10. CASE E!Tabulate
    BY <1>2, <1>4, <1>5, <1>7, <1>8, <1>10 DEF PatternInv, E!Tabulate
  <1> QED
    BY <1>9, <1>10 DEF E!Next, patternVars

(* Coverage, station hours, events and classes account for the rain of the  *)
(* slots with a reading (eda_patterns.py).                                   *)
LEMMA PatternsMatch ==
  ASSUME PatternConstants
  PROVE  JobSpec => [](job = "patterns" => E!TablesMatchRain)
  <1>1. JobInit => (job = "patterns" => PatternInv)
    BY PatternStart, JobStarts
  <1>2. (job = "patterns" => PatternInv) /\ [JobNext]_jobVars => (job = "patterns" => PatternInv)'
    BY PatternStep, JobSteps DEF patternVars
  <1>3. (job = "patterns" => PatternInv) => (job = "patterns" => E!TablesMatchRain)
    BY TablesMatch
  <1> QED
    BY <1>1, <1>2, <1>3, PTL DEF JobSpec

(* What counts as complete has no gap: windows of any length, a station with *)
(* any slots, readings and rain, hours and gaps of any length and any        *)
(* classes of durations (features.py, eda_patterns.py).                      *)
THEOREM GaplessIsComplete ==
  ASSUME Own \in Station, HistorySlots \in Nat, FutureSlots \in Nat, PatternConstants
  PROVE  JobSpec => []CompleteIsGapless
  <1>1. (job = "features" => F!CompleteIsGapless) /\ (job = "patterns" => E!TablesMatchRain)
           <=> CompleteIsGapless
    BY DEF CompleteIsGapless
  <1> QED
    BY <1>1, CompleteGapless, PatternsMatch, PTL
=============================================================================
