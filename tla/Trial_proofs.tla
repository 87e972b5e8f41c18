----------------------------- MODULE Trial_proofs -----------------------------
(***************************************************************************)
(* Proofs about one experimental case, for any quorums of which two have a *)
(* replica in common and none is a single one, and any behaviour of the    *)
(* wall clock.                                                             *)
(***************************************************************************)
EXTENDS MC_Trial, SequenceTheorems, TLAPS

(* The statements before the workload, and from a write that was             *)
(* acknowledged to the end of the case.                                      *)
Preparing == pc \in {"prepare x", "prepare y", "verify", "inject"}
Unwritten == Preparing \/ pc = "workload"
Reading   == pc \in {"first read", "read", "read cause", "effect"}
Probing   == pc \in {"probe effect", "probe cause"}
Measuring == pc = "measure" \/ Probing

(* The write identifier of version 1 of a key.                               *)
NewId(k) == IF k = "y" THEN "y:effect" ELSE IF Session THEN "x:new" ELSE "x:cause"

Versions == [ts : Int, version : {0, 1}, write_id : WriteIds \union {None}]

(* A cell of k, version 1 of which was written at s[k].                      *)
Good(s, k, c) ==
    /\ c \in Versions
    /\ c.version = 1 <=> c.write_id = NewId(k)
    /\ c.version = 1 => c.ts = s[k]
    /\ ~stepped => c.ts <= clock /\ (c.version = 0 => c.ts < s[k])

GoodMutation(s, m) ==
    /\ m \in [key : Key, cell : Versions, from : Node, to : Node]
    /\ Good(s, m.key, m.cell) /\ m.cell.version = 1

CellsGood(s) ==
    /\ \A n \in Node, k \in Key : Good(s, k, cell[n][k])
    /\ \A m \in mutations : GoodMutation(s, m)

(* Nothing but version 0 of k exists.                                        *)
Untouched(k) == /\ \A n \in Node : cell[n][k].version = 0
                /\ \A m \in mutations : m.key # k

Typed == /\ case \in Cases
         /\ pc \in {"prepare x", "prepare y", "verify", "inject", "workload",
                    "first read", "read", "read cause", "effect", "measure",
                    "probe effect", "probe cause", "done", "failed"}
         /\ clock \in Int /\ stepped \in BOOLEAN
         /\ ~stepped => clock >= 0
         /\ result \in Verdicts \union {None}
         /\ result # None <=> pc = "done"

Stored == /\ cell \in [Node -> [Key -> Versions]]
          /\ \E s \in [Key -> Int] : CellsGood(s)
          /\ Unwritten => Untouched("x")
          /\ Unwritten \/ Reading => Untouched("y")

(* The containers and rules of each stage.                                   *)
Faulted == /\ up = IF case.scenario = "node_stop" THEN Node \ {"N3"} ELSE Node
           /\ (IF case.scenario = "partition" THEN {"N3"} ELSE {}) =
              IF Probing THEN isolated \ {"N1"} ELSE isolated

Lab == /\ up \subseteq Node
       /\ Preparing => up = Node /\ isolated = {}
       /\ pc = "workload" \/ Reading \/ Measuring => Faulted
       /\ Probing => "N1" \in isolated

Inv0 == Typed /\ (pc # "failed" => Stored /\ Lab)

-----------------------------------------------------------------------------
(* The histories of the stages.                                              *)
Wrote(c, n, id) == Observed("write", TRUE, c, n, "x", 1, id, None)

Effect == Observed("write", TRUE, "A", "N1", "y", 1, "y:effect",
                   [key |-> "x", min_version |-> 1, write_id |-> "x:cause"])

Caused == IF case.property = MW
            THEN << Wrote("A", OtherNode, "x:cause") >>
            ELSE << Wrote("B", OtherNode, "x:cause"),
                    Observed("read", TRUE, "A", OtherNode, "x", 1, "x:cause", None) >>

(* What a read may have observed.                                            *)
Rows(n, c, k) ==
    {Observed("read", FALSE, c, n, k, None, None, None)} \union
    {Observed("read", TRUE, c, n, k, 1, NewId(k), None)} \union
    {Observed("read", TRUE, c, n, k, 0, id, None) :
        id \in (WriteIds \union {None}) \ {NewId(k)}}

History ==
    /\ Unwritten => history = << >>
    /\ pc = "first read" => case.property = MR /\ history = << Wrote("B", "N1", "x:new") >>
    /\ pc = "read" =>
         \/ case.property = RYW /\ history = << Wrote("A", "N1", "x:new") >>
         \/ /\ case.property = MR
            /\ history = << Wrote("B", "N1", "x:new"),
                            Observed("read", TRUE, "A", "N1", "x", 1, "x:new", None) >>
    /\ pc = "read cause" => case.property = WFR
                            /\ history = << Wrote("B", OtherNode, "x:cause") >>
    /\ pc = "effect" => ~Session /\ history = Caused
    /\ pc \in {"measure", "probe effect"} => ~Session /\ history = Append(Caused, Effect)
    /\ pc = "probe cause" =>
         /\ ~Session
         /\ \E row \in Rows("N1", "observer", "y") :
               /\ history = Append(Append(Caused, Effect), row)
               /\ row.version = 1 => cell["N1"]["y"].version = 1

-----------------------------------------------------------------------------
(* An acknowledged write of x is stored where its level says.                *)
Acknowledged == Reading \/ Measuring \/ result = "VIOLATION"

Spread == case.consistency # "ONE" /\ Acknowledged /\ ~stepped =>
            \E Q \in Answers(case.consistency) :
               Q \subseteq up /\ \A n \in Q : cell[n]["x"].version = 1

(* A partition keeps version 1 of x on the side it was written at.           *)
Apart == case.scenario = "partition" /\ (pc = "workload" \/ Reading \/ Measuring) =>
           IF Session THEN /\ cell["N3"]["x"].version = 0
                           /\ \A m \in mutations : m.from # "N3"
                      ELSE /\ cell["N1"]["x"].version = 0
                           /\ \A m \in mutations : m.key = "x" => m.from = "N3"

(* Requests that cannot be answered do not get further.                      *)
Stuck == /\ case.scenario = "node_stop" /\ case.consistency = "ALL" =>
               ~Reading /\ ~Measuring
         /\ case.scenario = "partition" /\ case.consistency # "ONE" /\ ~Session =>
               ~Reading /\ ~Measuring

Results == /\ RecordedIsReplayed
           /\ FaultDecides \/ stepped
           /\ case.consistency = "ALL" \/ (case.consistency = "QUORUM" /\ Session) =>
                 stepped \/ result # "VIOLATION"

Inv == /\ Inv0
       /\ pc # "failed" => History /\ Spread /\ Apart /\ Stuck
       /\ Results
-----------------------------------------------------------------------------
LEMMA Names == Node = {"N1", "N2", "N3"} /\ Key = {"x", "y"} /\ None = NoWriteId
  BY NodeAssumption, KeyAssumption, NoneIsNoWriteId

LEMMA NewIdIs ==
  ASSUME NEW k
  PROVE  NewId(k) \in WriteIds /\ NewId(k) \in {"y:effect", "x:new", "x:cause"}
  <1>1. NewId(k) \in {"y:effect", "x:new", "x:cause"}
    BY Zenon DEF NewId
  <1> QED
    BY <1>1 DEF WriteIds

LEMMA NoneIs ==
  /\ None # 0 /\ None # 1
  /\ None \notin {"A", "B", "observer", "verified N1", "x", "y", "x:cause", "y:effect"}
  /\ None \notin Node
  <1>1. \A i \in Int \union WriteIds \union Verdicts \union Node : None # i
    BY NoneIsNoValue
  <1>2. 0 \in Int /\ 1 \in Int
    OBVIOUS
  <1>3. "x:cause" \in WriteIds /\ "y:effect" \in WriteIds
    BY DEF WriteIds
  <1>4. None # "x" /\ None # "y"
    BY NoneIsNoValue, Names
  <1>5. None \notin {"A", "B", "observer", "verified N1"}
    BY NoneIsNoValue
  <1> QED
    BY <1>1, <1>2, <1>3, <1>4, <1>5, Zenon

(* The newest cell is one of those that were read.                           *)
LEMMA NewestIs ==
  ASSUME NEW S \in SUBSET Node, S # {}, NEW k \in Key,
         cell \in [Node -> [Key -> Versions]]
  PROVE  \E m \in S : /\ Newest(S, k) = cell[m][k]
                      /\ \A n \in S : cell[n][k].ts <= cell[m][k].ts
  <1> DEFINE t(n) == cell[n][k].ts
  <1>1. \A n \in Node : t(n) \in Int
    BY DEF Versions
  <1>2. \E m \in S : \A n \in S : t(n) <= t(m)
    <2> HIDE DEF t
    <2>1. t("N1") \in Int /\ t("N2") \in Int /\ t("N3") \in Int
      BY <1>1, Names
    <2>2. S \subseteq {"N1", "N2", "N3"}
      BY Names
    <2>3. CASE "N1" \in S
      BY <2>1, <2>2, <2>3
    <2>4. CASE "N1" \notin S /\ "N2" \in S
      BY <2>1, <2>2, <2>4
    <2>5. CASE "N1" \notin S /\ "N2" \notin S
      <3>1. S = {"N3"}
        BY <2>2, <2>5
      <3>2. t("N3") <= t("N3")
        BY <2>1
      <3> QED
        BY <3>1, <3>2
    <2> QED
      BY <2>3, <2>4, <2>5
  <1>3. \E c \in {cell[m][k] : m \in S} : \A m \in S : cell[m][k].ts <= c.ts
    BY <1>2
  <1>4. /\ Newest(S, k) \in {cell[m][k] : m \in S}
        /\ \A m \in S : cell[m][k].ts <= Newest(S, k).ts
    BY <1>3 DEF Newest
  <1> QED
    BY <1>4

(* What is good stays good, and version 1 wins while the clock increases.    *)
LEMMA GoodStays ==
  ASSUME NEW s, NEW k, NEW c, Good(s, k, c), case' = case,
         clock \in Int, clock' \in Int,
         ~stepped' => ~stepped /\ clock <= clock'
  PROVE  Good(s, k, c)'
  <1>1. NewId(k)' = NewId(k)
    BY DEF NewId, Session
  <1>2. c \in Versions => c.ts \in Int
    BY DEF Versions
  <1> QED
    BY <1>1, <1>2 DEF Good

LEMMA NewerGood ==
  ASSUME NEW s \in [Key -> Int], NEW k \in Key, NEW c, NEW d, Good(s, k, c), Good(s, k, d)
  PROVE  /\ Good(s, k, Newer(c, d))
         /\ Newer(c, d) \in {c, d}
         /\ ~stepped /\ (c.version = 1 \/ d.version = 1) => Newer(c, d).version = 1
         /\ c.version = 1 /\ d.version = 1 => Newer(c, d).version = 1
  <1>1. Newer(c, d) \in {c, d}
    BY DEF Newer
  <1>2. c.ts \in Int /\ d.ts \in Int /\ s[k] \in Int
        /\ c.version \in {0, 1} /\ d.version \in {0, 1}
    BY DEF Good, Versions
  <1>3. ~stepped /\ (c.version = 1 \/ d.version = 1) => Newer(c, d).version = 1
    BY <1>2 DEF Good, Newer
  <1> QED
    BY <1>1, <1>3

(* What may change when c is merged into the copies of k in S.               *)
Merged(S, k, c) ==
    \A n \in Node, j \in Key :
       /\ n \notin S \/ j # k => cell'[n][j] = cell[n][j]
       /\ ~stepped \/ c.version = 1 =>
             (cell[n][j].version = 1 => cell'[n][j].version = 1)
       /\ cell'[n][j].version = 1 =>
             cell[n][j].version = 1 \/ (n \in S /\ j = k /\ c.version = 1)
       /\ n \in S /\ j = k /\ c.version = 1 /\ ~stepped => cell'[n][j].version = 1

LEMMA MergeGood ==
  ASSUME NEW s \in [Key -> Int], CellsGood(s), cell \in [Node -> [Key -> Versions]],
         NEW S, NEW k \in Key, NEW c, Good(s, k, c), Merge(S, k, c), case' = case,
         clock' = clock, clock \in Int, stepped' = stepped, mutations' \subseteq mutations
  PROVE  /\ cell' \in [Node -> [Key -> Versions]] /\ CellsGood(s)'
         /\ Merged(S, k, c)
  <1>1. c \in Versions
    BY DEF Good
  <1>2. /\ cell' \in [Node -> [Key -> Versions]]
        /\ \A n \in Node, j \in Key :
              cell'[n][j] = IF n \in S /\ j = k THEN Newer(c, cell[n][k]) ELSE cell[n][j]
    <2>1. \A n \in Node : Newer(c, cell[n][k]) \in Versions
      BY <1>1 DEF Newer
    <2> QED
      BY <2>1 DEF Merge
  <1>3. \A n \in Node : LET d == cell[n][k] IN
          /\ Good(s, k, Newer(c, d)) /\ Newer(c, d) \in {c, d}
          /\ ~stepped /\ (c.version = 1 \/ d.version = 1) => Newer(c, d).version = 1
          /\ c.version = 1 /\ d.version = 1 => Newer(c, d).version = 1
    BY NewerGood DEF CellsGood
  <1>4. ASSUME NEW n \in Node, NEW j \in Key PROVE Good(s, j, cell'[n][j])
    BY <1>2, <1>3 DEF CellsGood
  <1>5. \A n \in Node, j \in Key : (Good(s, j, cell[n][j]))'
    <2> TAKE n \in Node, j \in Key
    <2>1. \A d : Good(s, j, d) => Good(s, j, d)'
      BY GoodStays
    <2>2. ASSUME NEW d, d = cell'[n][j] PROVE Good(s, j, d)'
      BY <1>4, <2>1, <2>2
    <2>3. (Good(s, j, cell[n][j]))' <=> \A d : d = cell'[n][j] => Good(s, j, d)'
      BY DEF Good, NewId, Session
    <2> QED
      BY <2>2, <2>3
  <1>6. \A m \in mutations' : GoodMutation(s, m)'
    <2> TAKE m \in mutations'
    <2>1. GoodMutation(s, m)
      BY DEF CellsGood
    <2>2. Good(s, m.key, m.cell)'
      BY <2>1, GoodStays DEF GoodMutation
    <2> QED
      BY <2>1, <2>2 DEF GoodMutation
  <1>7. CellsGood(s)'
    BY <1>5, <1>6 DEF CellsGood
  <1>8. ASSUME NEW n \in Node, NEW j \in Key
        PROVE  /\ n \notin S \/ j # k => cell'[n][j] = cell[n][j]
               /\ ~stepped \/ c.version = 1 =>
                     (cell[n][j].version = 1 => cell'[n][j].version = 1)
               /\ cell'[n][j].version = 1 =>
                     cell[n][j].version = 1 \/ (n \in S /\ j = k /\ c.version = 1)
               /\ n \in S /\ j = k /\ c.version = 1 /\ ~stepped => cell'[n][j].version = 1
    BY <1>2, <1>3
  <1> QED
    BY <1>2, <1>7, <1>8 DEF Merged

(* A read returns a cell of its replicas, and while the clock increases      *)
(* version 1 if one of them has it.                                          *)
LEMMA NewestGood ==
  ASSUME NEW s \in [Key -> Int], CellsGood(s), cell \in [Node -> [Key -> Versions]],
         NEW S \in SUBSET Node, S # {}, NEW k \in Key
  PROVE  /\ Good(s, k, Newest(S, k))
         /\ Newest(S, k).version = 1 => \E m \in S : cell[m][k].version = 1
         /\ ~stepped /\ (\E m \in S : cell[m][k].version = 1) => Newest(S, k).version = 1
  <1>1. PICK m \in S : /\ Newest(S, k) = cell[m][k]
                       /\ \A n \in S : cell[n][k].ts <= cell[m][k].ts
    BY NewestIs
  <1>2. \A n \in S : Good(s, k, cell[n][k])
    BY DEF CellsGood
  <1>3. \A n \in S : cell[n][k].ts \in Int /\ cell[n][k].version \in {0, 1}
    BY DEF Versions
  <1>4. s[k] \in Int
    OBVIOUS
  <1>5. ASSUME ~stepped, NEW n \in S, cell[n][k].version = 1 PROVE cell[m][k].version = 1
    <2>1. cell[n][k].ts = s[k] /\ (cell[m][k].version = 0 => cell[m][k].ts < s[k])
      BY <1>2, <1>5 DEF Good
    <2> QED
      BY <1>1, <1>3, <1>4, <2>1
  <1> QED
    BY <1>1, <1>2, <1>5

(* What a read of the replicas in S may change.                              *)
Repaired(S, k) ==
    \A m \in Node, j \in Key :
       /\ ~stepped => (cell[m][j].version = 1 => cell'[m][j].version = 1)
       /\ cell'[m][j].version = 1 =>
             \/ cell[m][j].version = 1
             \/ m \in S /\ j = k /\ \E q \in S : cell[q][k].version = 1

LEMMA ReadStep ==
  ASSUME NEW s \in [Key -> Int], CellsGood(s), cell \in [Node -> [Key -> Versions]],
         NEW n, NEW k \in Key, NEW level, NEW S, NEW ok \in BOOLEAN,
         Read(n, k, level, S, ok), up \subseteq Node,
         case' = case, clock \in Int, stepped' = stepped
  PROVE  /\ cell' \in [Node -> [Key -> Versions]] /\ CellsGood(s)'
         /\ Repaired(S, k)
  <1>1. S \in SUBSET Node
    BY DEF Read, Contacts, Reach
  <1>2. PICK T \in SUBSET S : Merge(T, k, Newest(S, k))
    BY DEF Read
  <1>3. clock' = clock /\ mutations' \subseteq mutations
    BY DEF Read
  <1>4. CASE S # {}
    <2>1. /\ Good(s, k, Newest(S, k))
          /\ Newest(S, k).version = 1 => \E m \in S : cell[m][k].version = 1
      BY <1>1, <1>4, NewestGood
    <2>2. /\ cell' \in [Node -> [Key -> Versions]] /\ CellsGood(s)'
          /\ Merged(T, k, Newest(S, k))
      BY <1>2, <1>3, <2>1, MergeGood
    <2> QED
      BY <2>1, <2>2 DEF Merged, Repaired
  <1>5. CASE S = {}
    <2>1. cell' = cell
      BY <1>2, <1>5 DEF Merge
    <2>2. \A j \in Key : \A d : Good(s, j, d) => Good(s, j, d)'
      BY <1>3, GoodStays
    <2>3. \A m \in Node, j \in Key : Good(s, j, cell[m][j])'
      <3> TAKE m \in Node, j \in Key
      <3>1. Good(s, j, cell[m][j])' <=> \A d : d = cell'[m][j] => Good(s, j, d)'
        BY DEF Good, NewId, Session
      <3> QED
        BY <2>1, <2>2, <3>1 DEF CellsGood
    <2>4. ASSUME NEW m \in mutations' PROVE GoodMutation(s, m)'
      BY <1>3, <2>2 DEF GoodMutation, CellsGood
    <2> QED
      BY <2>1, <2>3, <2>4 DEF CellsGood, Repaired
  <1> QED
    BY <1>4, <1>5

(* A read of one replica leaves it as it was.                                *)
LEMMA LocalRead ==
  ASSUME cell \in [Node -> [Key -> Versions]], NEW n \in Node, NEW k \in Key, NEW level,
         NEW S, NEW ok, Read(n, k, level, S, ok), S \subseteq {n}
  PROVE  cell' = cell /\ (S # {} => Newest(S, k) = cell[n][k])
  <1>1. PICK T \in SUBSET S : Merge(T, k, Newest(S, k))
    BY DEF Read
  <1>2. S # {} => Newest(S, k) = cell[n][k]
    BY NewestIs
  <1>3. \A c : Newer(c, c) = c
    BY DEF Newer
  <1>4. CASE T = {}
    BY <1>1, <1>2, <1>4 DEF Merge
  <1>5. CASE T = {n}
    <2>1. \A m \in T : [cell[m] EXCEPT ![k] = Newer(Newest(S, k), @)] = cell[m]
      BY <1>2, <1>3, <1>5
    <2>2. cell' = [m \in Node |-> cell[m]]
      BY <1>1, <2>1 DEF Merge
    <2> QED
      BY <1>2, <2>2
  <1> QED
    BY <1>4, <1>5

-----------------------------------------------------------------------------
(* The write of version 1 of k to the replicas in S.                         *)
Written(n, k, S) ==
    /\ \A m \in Node, j \in Key :
          /\ m \notin S \/ j # k => cell'[m][j] = cell[m][j]
          /\ ~stepped' => (m \in S => cell'[m][k].version = 1)
    /\ \A m \in mutations' : m \in mutations \/ (m.from = n /\ m.key = k)

Ticked == /\ clock' \in Int
          /\ stepped' \in BOOLEAN
          /\ ~stepped' => ~stepped /\ clock < clock'

LEMMA TickedStep ==
  ASSUME clock \in Int, stepped \in BOOLEAN, NEW t \in Ticks, clock' = clock + t,
         stepped' = (stepped \/ clock' < clock)
  PROVE  Ticked
  <1>1. t \in Int /\ t # 0 /\ clock' \in Int
    BY TicksAssumption
  <1>2. stepped' \in BOOLEAN /\ (~stepped' => ~stepped /\ ~(clock' < clock))
    BY Zenon
  <1> QED
    BY <1>1, <1>2 DEF Ticked

LEMMA WriteStep ==
  ASSUME NEW s \in [Key -> Int], CellsGood(s), cell \in [Node -> [Key -> Versions]],
         NEW n \in Node, NEW k \in Key, NEW S \in SUBSET Node, Untouched(k),
         WriteReaches(n, k, 1, NewId(k), S), clock \in Int, stepped \in BOOLEAN,
         case' = case, stepped' = (stepped \/ clock' < clock)
  PROVE  /\ cell' \in [Node -> [Key -> Versions]]
         /\ \E r \in [Key -> Int] : CellsGood(r)'
         /\ Written(n, k, S) /\ Ticked
  <1>1. PICK t \in Ticks :
           LET c == [ts |-> clock + t, version |-> 1, write_id |-> NewId(k)] IN
             /\ clock' = clock + t
             /\ Merge(S, k, c)
             /\ mutations' = mutations \union
                  {[key |-> k, cell |-> c, from |-> n, to |-> m] : m \in Node \ S}
    BY Zenon DEF WriteReaches
  <1>2. PICK c : c = [ts |-> clock + t, version |-> 1, write_id |-> NewId(k)]
    OBVIOUS
  <1>3. /\ clock' = clock + t /\ Merge(S, k, c)
        /\ mutations' = mutations \union
             {[key |-> k, cell |-> c, from |-> n, to |-> m] : m \in Node \ S}
    BY <1>1, <1>2, Zenon
  <1>4. Ticked
    BY <1>3, TickedStep
  <1>5. /\ c \in Versions /\ c.ts = clock' /\ c.version = 1 /\ c.write_id = NewId(k)
    <2>1. NewId(k) \in WriteIds
      BY NewIdIs
    <2> QED
      BY <1>2, <1>3, <1>4, <2>1 DEF Versions, Ticked
  <1>6. PICK r : r = [s EXCEPT ![k] = clock']
    OBVIOUS
  <1>7. r \in [Key -> Int] /\ r[k] = clock' /\ \A j \in Key : j # k => r[j] = s[j]
    BY <1>4, <1>6 DEF Ticked
  <1>8. \A j : NewId(j)' = NewId(j)
    BY DEF NewId, Session
  <1>9. ASSUME NEW j \in Key, NEW d, Good(s, j, d), j = k => d.version = 0
        PROVE  Good(r, j, d)'
    <2>1. CASE j = k
      BY <1>4, <1>7, <1>8, <1>9, <2>1 DEF Good, Versions, Ticked
    <2>2. CASE j # k
      <3>1. r[j] = s[j]
        BY <1>7, <2>2
      <3>2. d.ts \in Int
        BY <1>9 DEF Good, Versions
      <3> QED
        BY <1>4, <1>8, <1>9, <3>1, <3>2 DEF Good, Ticked
    <2> QED
      BY <2>1, <2>2
  <1>10. Good(r, k, c)'
    BY <1>4, <1>5, <1>7, <1>8 DEF Good, Ticked
  <1>11. \A m \in Node : cell[m][k] \in Versions /\ cell[m][k].version = 0
    BY DEF Untouched
  <1>12. \A m \in Node : Newer(c, cell[m][k]) \in {c, cell[m][k]}
    BY DEF Newer
  <1>13. \A m \in Node, j \in Key :
            cell'[m][j] = IF m \in S /\ j = k THEN Newer(c, cell[m][k]) ELSE cell[m][j]
    BY <1>3 DEF Merge
  <1>14. cell' \in [Node -> [Key -> Versions]]
    <2>1. \A m \in Node : Newer(c, cell[m][k]) \in Versions
      BY <1>5, <1>11, <1>12
    <2> QED
      BY <1>3, <2>1 DEF Merge
  <1>15. ASSUME NEW m \in Node, NEW j \in Key, NEW d, d = cell'[m][j]
         PROVE  Good(r, j, d)'
    <2>1. Good(s, j, cell[m][j])
      BY DEF CellsGood
    <2>2. CASE m \in S /\ j = k
      BY <1>9, <1>10, <1>11, <1>12, <1>13, <1>15, <2>1, <2>2
    <2>3. CASE ~(m \in S /\ j = k)
      BY <1>9, <1>11, <1>13, <1>15, <2>1, <2>3
    <2> QED
      BY <2>2, <2>3
  <1>16. \A m \in Node, j \in Key : Good(r, j, cell[m][j])'
    <2> TAKE m \in Node, j \in Key
    <2>1. Good(r, j, cell[m][j])' <=> \A d : d = cell'[m][j] => Good(r, j, d)'
      BY DEF Good, NewId, Session
    <2> QED
      BY <1>15, <2>1
  <1>17. ASSUME NEW m \in mutations' PROVE GoodMutation(r, m)'
    <2>1. CASE m \in mutations
      <3>1. GoodMutation(s, m) /\ m.key # k
        BY <2>1 DEF CellsGood, Untouched
      <3> QED
        BY <1>9, <3>1 DEF GoodMutation
    <2>2. CASE m \notin mutations
      <3>1. PICK q \in Node : m = [key |-> k, cell |-> c, from |-> n, to |-> q]
        BY <1>3, <2>2
      <3>2. m.key = k /\ m.cell = c /\ m \in [key : Key, cell : Versions, from : Node, to : Node]
        BY <1>5, <3>1
      <3> QED
        BY <1>5, <1>10, <3>2 DEF GoodMutation
    <2> QED
      BY <2>1, <2>2
  <1>18. CellsGood(r)'
    BY <1>16, <1>17 DEF CellsGood
  <1>19. ASSUME ~stepped', NEW m \in S PROVE cell'[m][k].version = 1
    <2>1. Good(s, k, cell[m][k]) /\ cell[m][k].version = 0
      BY <1>11 DEF CellsGood
    <2>2. cell[m][k].ts < clock' /\ cell[m][k].ts \in Int
      BY <1>4, <1>19, <2>1 DEF Good, Versions, Ticked
    <2>3. Newer(c, cell[m][k]) = c
      BY <1>4, <1>5, <2>2 DEF Newer, Ticked
    <2> QED
      BY <1>5, <1>13, <2>3
  <1>20. Written(n, k, S)
    BY <1>3, <1>13, <1>19 DEF Written
  <1> QED
    BY <1>4, <1>7, <1>14, <1>18, <1>20

(* The writes of version 0, which reach every replica.                       *)
LEMMA InitialStep ==
  ASSUME NEW s \in [Key -> Int], CellsGood(s), cell \in [Node -> [Key -> Versions]],
         NEW k \in Key, NEW id \in WriteIds, \A j \in Key : Untouched(j) /\ NewId(j) # id,
         WriteReaches("N1", k, 0, id, Node), clock \in Int, stepped \in BOOLEAN,
         case' = case, stepped' = (stepped \/ clock' < clock)
  PROVE  /\ cell' \in [Node -> [Key -> Versions]]
         /\ \E r \in [Key -> Int] : CellsGood(r)'
         /\ \A j \in Key : Untouched(j)'
         /\ Ticked
  <1>1. PICK t \in Ticks :
           LET c == [ts |-> clock + t, version |-> 0, write_id |-> id] IN
             /\ clock' = clock + t
             /\ Merge(Node, k, c)
             /\ mutations' = mutations \union
                  {[key |-> k, cell |-> c, from |-> "N1", to |-> m] : m \in Node \ Node}
    BY Zenon DEF WriteReaches
  <1>2. PICK c : c = [ts |-> clock + t, version |-> 0, write_id |-> id]
    OBVIOUS
  <1>3. clock' = clock + t /\ Merge(Node, k, c)
    BY <1>1, <1>2, Zenon
  <1>4. Ticked
    BY <1>3, TickedStep
  <1>5. mutations = {}
    BY DEF Untouched, CellsGood, GoodMutation
  <1>6. mutations' = {}
    BY <1>1, <1>5
  <1>7. c \in Versions /\ c.ts = clock' /\ c.version = 0 /\ c.write_id = id
    BY <1>2, <1>3, <1>4 DEF Versions, Ticked
  <1>8. PICK r : r = [j \in Key |-> clock' + 1]
    OBVIOUS
  <1>9. r \in [Key -> Int] /\ \A j \in Key : r[j] = clock' + 1
    BY <1>4, <1>8 DEF Ticked
  <1>10. \A j : NewId(j)' = NewId(j)
    BY DEF NewId, Session
  <1>11. ASSUME NEW j \in Key, NEW d, d = c \/ (Good(s, j, d) /\ d.version = 0)
         PROVE  Good(r, j, d)'
    <2>1. CASE d = c
      BY <1>4, <1>7, <1>9, <1>10, <2>1 DEF Good, Ticked
    <2>2. CASE Good(s, j, d) /\ d.version = 0
      <3>1. d.ts \in Int
        BY <2>2 DEF Good, Versions
      <3> QED
        BY <1>4, <1>9, <1>10, <2>2, <3>1 DEF Good, Ticked
    <2> QED
      BY <1>11, <2>1, <2>2
  <1>12. \A m \in Node, j \in Key :
            cell'[m][j] = IF j = k THEN Newer(c, cell[m][k]) ELSE cell[m][j]
    BY <1>3 DEF Merge
  <1>13. \A m \in Node : Newer(c, cell[m][k]) \in {c, cell[m][k]}
    BY DEF Newer
  <1>14. cell' \in [Node -> [Key -> Versions]]
    <2>1. \A m \in Node : Newer(c, cell[m][k]) \in Versions
      BY <1>7, <1>13
    <2> QED
      BY <1>3, <2>1 DEF Merge
  <1>15. ASSUME NEW m \in Node, NEW j \in Key
         PROVE  cell'[m][j] = c \/ (Good(s, j, cell'[m][j]) /\ cell'[m][j].version = 0)
    BY <1>12, <1>13 DEF CellsGood, Untouched
  <1>16. \A m \in Node, j \in Key : Good(r, j, cell[m][j])'
    <2> TAKE m \in Node, j \in Key
    <2>1. Good(r, j, cell[m][j])' <=> \A d : d = cell'[m][j] => Good(r, j, d)'
      BY DEF Good, NewId, Session
    <2> QED
      BY <1>11, <1>15, <2>1
  <1>17. CellsGood(r)'
    BY <1>6, <1>16 DEF CellsGood
  <1>18. \A j \in Key : Untouched(j)'
    BY <1>6, <1>7, <1>15 DEF Untouched
  <1> QED
    BY <1>4, <1>9, <1>14, <1>17, <1>18

(* What a read through n of the replicas in S observes.                      *)
LEMMA RowIs ==
  ASSUME NEW s \in [Key -> Int], CellsGood(s), cell \in [Node -> [Key -> Versions]],
         NEW S \in SUBSET Node, S # {}, NEW k \in Key, NEW n, NEW c, NEW ok \in BOOLEAN
  PROVE  /\ Row(n, c, k, S, ok) \in Rows(n, c, k)
         /\ Row(n, c, k, S, ok).status = "ok" <=> ok
         /\ ok => (Row(n, c, k, S, ok).version = 1 <=> Newest(S, k).version = 1)
         /\ ok => Row(n, c, k, S, ok).write_id = Newest(S, k).write_id
         /\ ~ok => Row(n, c, k, S, ok).version # 1
         /\ Row(n, c, k, S, ok).version = 1 => \E m \in S : cell[m][k].version = 1
         /\ ~stepped /\ ok /\ (\E m \in S : cell[m][k].version = 1) =>
               Row(n, c, k, S, ok).version = 1
  <1> DEFINE w == Newest(S, k)
  <1>1. /\ Good(s, k, w)
        /\ w.version = 1 => \E m \in S : cell[m][k].version = 1
        /\ ~stepped /\ (\E m \in S : cell[m][k].version = 1) => w.version = 1
    BY NewestGood
  <1>2. /\ w.version \in {0, 1} /\ w.write_id \in WriteIds \union {None}
        /\ w.version = 1 <=> w.write_id = NewId(k)
    BY <1>1 DEF Good, Versions
  <1>3. None # 1
    BY NoneIs
  <1>4. CASE ok
    <2>1. PICK v, i : v = w.version /\ i = w.write_id
      OBVIOUS
    <2>2. Row(n, c, k, S, ok) = Observed("read", TRUE, c, n, k, v, i, None)
      BY <1>4, <2>1 DEF Row
    <2>3. v \in {0, 1} /\ i \in WriteIds \union {None} /\ (v = 1 <=> i = NewId(k))
      BY <1>2, <2>1
    <2>4. Observed("read", TRUE, c, n, k, v, i, None) \in Rows(n, c, k)
      <3>1. CASE v = 1
        BY <2>3, <3>1 DEF Rows
      <3>2. CASE v = 0
        BY <2>3, <3>2 DEF Rows
      <3> QED
        BY <2>3, <3>1, <3>2
    <2>5. LET r == Observed("read", TRUE, c, n, k, v, i, None) IN
          r.status = "ok" /\ r.version = v /\ r.write_id = i
      BY DEF Observed
    <2> QED
      BY <1>1, <1>4, <2>1, <2>2, <2>4, <2>5
  <1>5. CASE ~ok
    <2>1. Row(n, c, k, S, ok) = Observed("read", FALSE, c, n, k, None, None, None)
      BY <1>5 DEF Row
    <2> QED
      BY <1>3, <1>5, <2>1 DEF Rows, Observed
  <1> QED
    BY <1>4, <1>5

(* The rows of a read.                                                       *)
LEMMA RowKinds ==
  ASSUME NEW n, NEW c, NEW k, NEW r \in Rows(n, c, k)
  PROVE  /\ r.op = "read" /\ r.client = c /\ r.node = n /\ r.key = k /\ r.depends_on = None
         /\ \/ r.status = "error" /\ r.version = None
            \/ r.status = "ok" /\ r.version = 1 /\ r.write_id = NewId(k)
            \/ r.status = "ok" /\ r.version = 0 /\ r.write_id # NewId(k)
  BY DEF Rows, Observed

LEMMA RowOfVersion1 ==
  ASSUME NEW n, NEW c, NEW k, NEW r \in Rows(n, c, k), r.version = 1
  PROVE  r = Observed("read", TRUE, c, n, k, 1, NewId(k), None)
  <1>1. ASSUME NEW v, NEW id, NEW ok \in BOOLEAN, r = Observed("read", ok, c, n, k, v, id, None)
        PROVE  v = 1
    BY <1>1 DEF Observed
  <1>2. None # 1
    BY NoneIs
  <1>3. 0 # 1
    OBVIOUS
  <1> QED
    BY <1>1, <1>2, <1>3 DEF Rows

-----------------------------------------------------------------------------
(* What the checker says of the histories of a case.  First those without    *)
(* anything to compare.                                                      *)
LEMMA NoPairNoVerdict ==
  ASSUME NEW p \in {RYW, MR}, NEW h, \A a, b \in DOMAIN h : ~SessionPair(p, h, a, b)
  PROVE  Check(p, h) = "INCONCLUSIVE"
  <1>1. SessionVerdict(p, h) = "INCONCLUSIVE"
    BY DEF SessionVerdict, Stale, Finish
  <1> QED
    BY <1>1 DEF Check, RYW, MR, MW, WFR

LEMMA NoEffectNoVerdict ==
  ASSUME NEW p \in {MW, WFR}, NEW h,
         \A i \in DOMAIN h : /\ h[i].op \in {"write", "read"}
                             /\ h[i].op = "write" =>
                                   h[i].depends_on = None \/ h[i].status # "ok"
  PROVE  Check(p, h) = "INCONCLUSIVE"
  <1>1. ~HasProbe(h) /\ \A k \in DOMAIN h : ~UsableAudit(h, k)
    BY DEF HasProbe, UsableAudit
  <1>2. AuditVerdict(h) = "INCONCLUSIVE"
    BY <1>1 DEF AuditVerdict, Finish
  <1>3. Candidates(WFR, h) = {}
    BY DEF Candidates, Justifies
  <1>4. ObserverVerdict(h) = "INCONCLUSIVE"
    BY <1>3 DEF ObserverVerdict, Finish
  <1>5. p = MW \/ p = WFR
    OBVIOUS
  <1>6. p \notin {RYW, MR} /\ MW # WFR
    BY DEF MW, WFR, RYW, MR
  <1> QED
    BY <1>1, <1>2, <1>4, <1>5, <1>6 DEF Check

(* A session case: the first event is a write or a read of version 1 by the  *)
(* client, the last one a read of its.                                       *)
LEMMA SessionCase ==
  ASSUME NEW p \in {RYW, MR}, NEW h, NEW a \in {1, 2}, DOMAIN h = 1 .. (a + 1),
         h[a].op = PriorOp(p), h[a].status = "ok", h[a].client = "A", h[a].key = "x",
         h[a].version = 1,
         a = 2 => h[1].op = "write" /\ h[1].status = "ok" /\ p = MR,
         NEW n, h[a + 1] \in Rows(n, "A", "x")
  PROVE  /\ h[a + 1].status # "ok" => Check(p, h) = "INCONCLUSIVE"
         /\ h[a + 1].status = "ok" /\ h[a + 1].version = 1 => Check(p, h) = "PASS"
         /\ h[a + 1].status = "ok" /\ h[a + 1].version # 1 => Check(p, h) = "VIOLATION"
  <1> DEFINE b == a + 1
  <1>1. /\ h[b].op = "read" /\ h[b].client = "A" /\ h[b].key = "x"
        /\ \/ h[b].status = "error" /\ h[b].version = None
           \/ h[b].status = "ok" /\ h[b].version = 1
           \/ h[b].status = "ok" /\ h[b].version = 0
    BY RowKinds
  <1>2. None \notin {"A", "x", 0, 1}
    BY NoneIs
  <1>3. Check(p, h) = SessionVerdict(p, h)
    BY DEF Check, RYW, MR, MW, WFR
  <1>4. a \in DOMAIN h /\ b \in DOMAIN h /\ a < b
    OBVIOUS
  <1>5. \A i, j \in DOMAIN h : SessionPair(p, h, i, j) => i = a /\ j = b
    <2> SUFFICES ASSUME NEW i \in DOMAIN h, NEW j \in DOMAIN h, SessionPair(p, h, i, j)
                 PROVE  i = a /\ j = b
      OBVIOUS
    <2>1. i < j /\ h[i].op = PriorOp(p) /\ h[j].op = "read"
      BY DEF SessionPair
    <2>2. CASE a = 1
      BY <2>1, <2>2
    <2>3. CASE a = 2
      <3>1. h[1].op # PriorOp(p)
        BY <2>3 DEF PriorOp, RYW, MR, MW
      <3> QED
        BY <2>1, <2>3, <3>1
    <2> QED
      BY <2>2, <2>3
  <1>6. h[b].status = "ok" => SessionPair(p, h, a, b)
    BY <1>1, <1>2, <1>4 DEF SessionPair, Counted
  <1>7. CASE h[b].status # "ok"
    <2>1. ~SessionPair(p, h, a, b)
      BY <1>7 DEF SessionPair, Counted
    <2> QED
      BY <1>5, <1>7, <2>1, NoPairNoVerdict
  <1>8. CASE h[b].status = "ok" /\ h[b].version = 1
    <2>1. \A i, j \in DOMAIN h : ~Stale(p, h, i, j)
      BY <1>5, <1>8 DEF Stale
    <2>2. ~Incomplete(h)
      BY <1>8 DEF Incomplete
    <2> QED
      BY <1>3, <1>4, <1>6, <1>8, <2>1, <2>2 DEF SessionVerdict, Finish
  <1>9. CASE h[b].status = "ok" /\ h[b].version # 1
    <2>1. Stale(p, h, a, b)
      BY <1>1, <1>2, <1>6, <1>9 DEF Stale
    <2> QED
      BY <1>3, <1>4, <1>9, <2>1 DEF SessionVerdict
  <1> QED
    BY <1>7, <1>8, <1>9

(* A dependency case that gets as far as the probe: the effect at b, its     *)
(* cause just before, and the two reads of the observer after it.            *)
LEMMA ProbeCase ==
  ASSUME NEW p \in {MW, WFR}, NEW b \in {2, 3}, b = 2 <=> p = MW,
         NEW h, DOMAIN h = 1 .. (b + 3),
         h[b - 1].op = PriorOp(p), h[b - 1].status = "ok", h[b - 1].client = "A",
         h[b - 1].key = "x", h[b - 1].version = 1, h[b - 1].write_id = "x:cause",
         h[1].op = "write", h[1].status = "ok", h[1].depends_on = None,
         h[b] = Effect, ~Session,
         NEW f \in Rows("N1", "observer", "y"), NEW g \in Rows("N1", "observer", "x"),
         h[b + 1] = f, h[b + 2] = g, h[b + 3] = ProbeEvent(f, g)
  PROVE  /\ ~(f.version = 1 /\ g.status = "ok") => Check(p, h) = "INCONCLUSIVE"
         /\ f.version = 1 /\ g.status = "ok" /\ g.version = 1 => Check(p, h) = "PASS"
         /\ f.version = 1 /\ g.status = "ok" /\ g.version # 1 => Check(p, h) = "VIOLATION"
  <1> DEFINE seen == f.version = 1 /\ g.status = "ok"
  <1>1. NewId("y") = "y:effect" /\ NewId("x") = "x:cause"
    BY DEF NewId
  <1>2. /\ f.op = "read" /\ f.client = "observer" /\ f.depends_on = None
        /\ \/ f.status = "error" /\ f.version = None
           \/ f.status = "ok" /\ f.version = 1 /\ f.write_id = "y:effect"
           \/ f.status = "ok" /\ f.version = 0 /\ f.write_id # "y:effect"
    BY <1>1, RowKinds
  <1>3. /\ g.op = "read" /\ g.client = "observer" /\ g.depends_on = None
        /\ \/ g.status = "error" /\ g.version = None
           \/ g.status = "ok" /\ g.version = 1 /\ g.write_id = "x:cause"
           \/ g.status = "ok" /\ g.version = 0 /\ g.write_id # "x:cause"
    BY <1>1, RowKinds
  <1>4. /\ h[b].op = "write" /\ h[b].status = "ok" /\ h[b].client = "A" /\ h[b].key = "y"
        /\ h[b].version = 1 /\ h[b].write_id = "y:effect"
        /\ h[b].depends_on = [key |-> "x", min_version |-> 1, write_id |-> "x:cause"]
        /\ h[b].depends_on # None
    <2>1. "x:cause" \in WriteIds
      BY DEF WriteIds
    <2>2. [key |-> "x", min_version |-> 1, write_id |-> "x:cause"] \in
             [key : Key, min_version : {0, 1}, write_id : WriteIds]
      BY <2>1, Names
    <2>3. [key |-> "x", min_version |-> 1, write_id |-> "x:cause"] # None
      BY <2>2, NoneIsNoValue
    <2> QED
      BY <2>3 DEF Effect, Observed
  <1>5. /\ h[b + 3].op = "dependency_probe" /\ h[b + 3].node = "N1" /\ h[b + 3].key = "y"
        /\ h[b + 3].status = IF f.status = "ok" /\ g.status = "ok" THEN "ok" ELSE "error"
        /\ h[b + 3].version = f.version /\ h[b + 3].write_id = f.write_id
        /\ h[b + 3].depends_on = None
        /\ h[b + 3].probe.local_observation = TRUE /\ h[b + 3].probe.control_id = "verified N1"
        /\ h[b + 3].probe.cause_key = "x" /\ h[b + 3].probe.cause_version = g.version
        /\ h[b + 3].probe.cause_write_id = g.write_id
    <2>1. PICK v : v = IF f.status = "ok" /\ g.status = "ok" THEN "ok" ELSE "error"
      OBVIOUS
    <2>2. PICK t : t = [local_observation |-> TRUE, control_id |-> "verified N1",
                        cause_key |-> "x", cause_version |-> g.version,
                        cause_write_id |-> g.write_id]
      OBVIOUS
    <2>3. h[b + 3] = [op |-> "dependency_probe", status |-> v, client |-> None,
                      node |-> "N1", key |-> "y", version |-> f.version,
                      write_id |-> f.write_id, depends_on |-> None,
                      mock |-> FALSE, seq |-> None, probe |-> t]
      BY <2>1, <2>2, Zenon DEF ProbeEvent
    <2>4. h[b + 3].probe = t
      BY <2>3
    <2>5. t.local_observation = TRUE
      BY <2>2
    <2>6. t.control_id = "verified N1" /\ t.cause_key = "x" /\ t.cause_version = g.version
          /\ t.cause_write_id = g.write_id
      BY <2>2
    <2>7. /\ h[b + 3].op = "dependency_probe" /\ h[b + 3].node = "N1" /\ h[b + 3].key = "y"
          /\ h[b + 3].version = f.version /\ h[b + 3].write_id = f.write_id
          /\ h[b + 3].depends_on = None
      BY <2>3
    <2>8. h[b + 3].status = v
      BY <2>3
    <2> QED
      BY <2>1, <2>4, <2>5, <2>6, <2>7, <2>8
  <1>6. \A i \in DOMAIN h : i \in {1, b - 1, b, b + 1, b + 2, b + 3}
    OBVIOUS
  <1>7. PriorOp(p) = IF b = 2 THEN "write" ELSE "read"
    BY DEF PriorOp, RYW, MR, MW, WFR
  <1>8. ASSUME NEW i \in DOMAIN h, NEW j \in DOMAIN h, Justifies(p, h, i, j)
        PROVE  i = b - 1 /\ j = b
    <2>1. /\ i < j /\ h[j].op = "write" /\ h[j].depends_on # None
          /\ h[i].op = PriorOp(p)
      BY <1>8 DEF Justifies
    <2>2. j = b
      <3>1. j # 1 /\ j # b + 1 /\ j # b + 2 /\ j # b + 3
        BY <1>2, <1>3, <1>5, <2>1
      <3>2. j # b - 1
        BY <1>7, <2>1
      <3> QED
        BY <1>6, <3>1, <3>2
    <2>3. i = b - 1
      BY <1>7, <2>1, <2>2
    <2> QED
      BY <2>2, <2>3
  <1>9. Justifies(p, h, b - 1, b)
    <2>1. b - 1 < b
      OBVIOUS
    <2>2. LET dep == h[b].depends_on IN
          dep.key = "x" /\ dep.min_version = 1 /\ dep.write_id = "x:cause"
      BY <1>4
    <2> QED
      BY <1>4, <2>1, <2>2, NoneIs DEF Justifies
  <1>10. b \in DOMAIN h /\ b - 1 \in DOMAIN h /\ b + 3 \in DOMAIN h
    OBVIOUS
  <1>11. Candidates(p, h) = {b}
    BY <1>8, <1>9, <1>10 DEF Candidates
  <1>12. Cause(p, h, b) = b - 1
    <2>1. b - 1 <= b - 1
      OBVIOUS
    <2> QED
      BY <1>8, <1>9, <1>10, <2>1 DEF Cause
  <1>13. \A e \in DOMAIN h : Exposes(p, h, e, b) => e = b + 3
    BY <1>2, <1>3, <1>4, <1>6 DEF Exposes, PriorOp
  <1>14. Exposes(p, h, b + 3, b) <=> seen
    <2>1. ASSUME f.version = 1 PROVE f.status = "ok" /\ f.write_id = "y:effect"
      <3>1. f.version # None /\ f.version # 0
        <4>1. f.version # None
          BY <2>1, NoneIs, Zenon
        <4>2. f.version # 0
          BY <2>1
        <4> QED
          BY <4>1, <4>2
      <3> QED
        BY <1>2, <3>1
    <2>2. seen => f.status = "ok" /\ f.write_id = "y:effect" /\ g.version # None
      BY <1>3, <2>1, NoneIs
    <2>3. h[b + 3].status = "ok" <=> f.status = "ok" /\ g.status = "ok"
      BY <1>5
    <2>4. b < b + 3
      OBVIOUS
    <2>5. /\ h[b + 3].node # None /\ h[b + 3].probe.control_id # None
          /\ h[b + 3].key = h[b].key /\ h[b].write_id # None
          /\ h[b + 3].probe.cause_key = h[Cause(p, h, b)].key
      <3>1. None # "N1" /\ None # "verified N1" /\ None # "y:effect"
        BY NoneIs, Names
      <3>2. h[b].key = "y" /\ h[b].write_id = "y:effect"
        BY <1>4
      <3>3. h[Cause(p, h, b)].key = "x"
        BY <1>12
      <3> QED
        BY <1>5, <3>1, <3>2, <3>3
    <2>6. h[b + 3].probe.local_observation
      BY <1>5, Zenon
    <2>7. Exposes(p, h, b + 3, b) => seen
      BY <1>4, <1>5, <2>3 DEF Exposes
    <2>8. ASSUME seen PROVE Exposes(p, h, b + 3, b)
      <3>1. h[b + 3].version = h[b].version /\ h[b + 3].write_id = h[b].write_id
        BY <1>4, <1>5, <2>2, <2>8
      <3>2. h[b + 3].probe.cause_version # None
        BY <1>5, <2>2, <2>8
      <3>3. h[b + 3].status = "ok" /\ h[b + 3].op = "dependency_probe"
        BY <1>5, <2>2, <2>3, <2>8
      <3> QED
        BY <2>4, <2>5, <2>6, <3>1, <3>2, <3>3, Zenon DEF Exposes
    <2> QED
      BY <2>7, <2>8
  <1>15. Check(p, h) = ProbeVerdict(p, h)
    BY <1>5, <1>10 DEF Check, HasProbe, RYW, MR, MW, WFR
  <1>16. ProbeVerdict(p, h) = IF \E e \in DOMAIN h : LacksCause(p, h, e, b)
                              THEN "VIOLATION"
                              ELSE Finish(\E e \in DOMAIN h : Covers(p, h, e, b), h)
    BY <1>11 DEF ProbeVerdict
  <1> HIDE DEF seen
  <1>17. ASSUME ~seen PROVE Check(p, h) = "INCONCLUSIVE"
    <2>1. \A e \in DOMAIN h : ~LacksCause(p, h, e, b) /\ ~Covers(p, h, e, b)
      BY <1>13, <1>14, <1>17 DEF LacksCause, Covers
    <2> QED
      BY <1>15, <1>16, <2>1 DEF Finish
  <1>18. ASSUME seen, g.version # 1 PROVE Check(p, h) = "VIOLATION"
    <2>1. LacksCause(p, h, b + 3, b)
      <3>1. g.version = 0
        BY <1>3, <1>18 DEF seen
      <3>2. h[b + 3].probe.cause_version = 0 /\ h[Cause(p, h, b)].version = 1
        BY <1>5, <1>12, <3>1
      <3>3. Exposes(p, h, b + 3, b)
        BY <1>14, <1>18
      <3> QED
        BY <3>2, <3>3 DEF LacksCause
    <2> QED
      BY <1>10, <1>15, <1>16, <2>1
  <1>19. ASSUME seen, g.version = 1 PROVE Check(p, h) = "PASS"
    <2>1. \A e \in DOMAIN h : ~LacksCause(p, h, e, b)
      <3>1. h[b + 3].probe.cause_version = 1 /\ h[Cause(p, h, b)].version = 1
        BY <1>5, <1>12, <1>19
      <3> QED
        BY <1>13, <3>1 DEF LacksCause
    <2>2. Covers(p, h, b + 3, b)
      <3>1. h[b + 3].probe.cause_write_id = h[Cause(p, h, b)].write_id
        <4>1. g.version # None
          BY <1>19, NoneIs, Zenon
        <4>2. g.version # 0
          BY <1>19
        <4>3. g.write_id = "x:cause"
          BY <1>3, <4>1, <4>2
        <4>4. h[Cause(p, h, b)].write_id = "x:cause"
          BY <1>12
        <4> QED
          BY <1>5, <4>3, <4>4
      <3> QED
        BY <1>10, <1>14, <1>19, <2>1, <3>1 DEF Covers
    <2>3. h[b + 3].status = "ok" /\ f.status = "ok" /\ g.status = "ok"
      BY <1>2, <1>5, <1>19, NoneIs DEF seen
    <2>4. ~Incomplete(h)
      BY <1>4, <1>6, <2>3 DEF Incomplete
    <2> QED
      BY <1>10, <1>15, <1>16, <2>1, <2>2, <2>4 DEF Finish
  <1> QED
    BY <1>17, <1>18, <1>19 DEF seen

-----------------------------------------------------------------------------
(* What holds of the cluster wherever a case has got to.                     *)
Base == /\ case \in Cases
        /\ clock \in Int /\ stepped \in BOOLEAN
        /\ ~stepped => clock >= 0
        /\ cell \in [Node -> [Key -> Versions]]
        /\ \E s \in [Key -> Int] : CellsGood(s)
        /\ up \subseteq Node

(* How the recorded clock moves with the case.                               *)
Moved == case' = case /\ stepped' = (stepped \/ clock' < clock)

LEMMA InvBase ==
  ASSUME Inv, pc # "failed"
  PROVE  Base
  BY DEF Inv, Inv0, Typed, Stored, Lab, Base

LEMMA TickedBase ==
  ASSUME Base, Moved, Ticked
  PROVE  /\ case' \in Cases /\ clock' \in Int /\ stepped' \in BOOLEAN
         /\ ~stepped' => clock' >= 0
  BY DEF Base, Moved, Ticked

LEMMA SameClock ==
  ASSUME clock \in Int, stepped \in BOOLEAN, clock' = clock,
         stepped' = (stepped \/ clock' < clock)
  PROVE  stepped' = stepped
  <1>1. ~(clock' < clock)
    OBVIOUS
  <1> QED
    BY <1>1, Zenon

LEMMA WriteBase ==
  ASSUME Base, Moved, NEW n \in Node, NEW k \in Key, NEW S \in SUBSET Node, Untouched(k),
         WriteReaches(n, k, 1, NewId(k), S)
  PROVE  Base' /\ Written(n, k, S) /\ (~stepped' => ~stepped) /\ up' = up /\ isolated' = isolated
  <1>1. PICK s \in [Key -> Int] : CellsGood(s)
    BY DEF Base
  <1>2. /\ cell' \in [Node -> [Key -> Versions]]
        /\ \E r \in [Key -> Int] : CellsGood(r)'
        /\ Written(n, k, S) /\ Ticked
    BY <1>1, WriteStep DEF Base, Moved
  <1>3. up' = up /\ isolated' = isolated
    BY DEF WriteReaches
  <1> QED
    BY <1>2, <1>3 DEF Base, Moved, Ticked

(* A read that was answered or not, ...                                      *)
LEMMA ReadBase ==
  ASSUME Base, Moved, NEW n, NEW k \in Key, NEW level \in Levels, NEW S,
         NEW ok \in BOOLEAN, Read(n, k, level, S, ok)
  PROVE  /\ Base' /\ Repaired(S, k) /\ S \in SUBSET Node /\ S \subseteq Contacts(n)
         /\ stepped' = stepped /\ up' = up /\ isolated' = isolated /\ mutations' = mutations
         /\ ok => S # {} /\ S \in Answers(level)
  <1>1. PICK s \in [Key -> Int] : CellsGood(s)
    BY DEF Base
  <1>2. /\ clock' = clock /\ up' = up /\ isolated' = isolated /\ mutations' = mutations
        /\ S \subseteq Contacts(n) /\ S \in SUBSET Node
    BY DEF Read, Base, Contacts, Reach
  <1>3. stepped' = stepped
    BY <1>2, SameClock DEF Base, Moved
  <1>4. /\ cell' \in [Node -> [Key -> Versions]] /\ CellsGood(s)'
        /\ Repaired(S, k)
    BY <1>1, <1>3, ReadStep DEF Base, Moved
  <1>5. Base'
    BY <1>2, <1>3, <1>4 DEF Base, Moved
  <1>6. ok => S # {} /\ S \in Answers(level)
    <2>1. \A A \in Answers(level) : A # {}
      BY QuorumAssumption, Names DEF Answers, Levels
    <2> QED
      BY <2>1 DEF Read
  <1> QED
    BY <1>2, <1>3, <1>4, <1>5, <1>6

(* ... and the row r it returns.                                             *)
Returned(r, n, c, k, S, ok) ==
    /\ r \in Rows(n, c, k)
    /\ r.status = "ok" <=> ok
    /\ r.version = 1 => ok /\ \E m \in S : cell[m][k].version = 1
    /\ ~stepped /\ ok /\ (\E m \in S : cell[m][k].version = 1) => r.version = 1
    /\ ok => (r.version = 1 <=> Newest(S, k).version = 1)

LEMMA ReadRow ==
  ASSUME Base, NEW n, NEW c, NEW k \in Key, NEW S \in SUBSET Node, NEW ok \in BOOLEAN,
         ok => S # {}
  PROVE  Returned(Row(n, c, k, S, ok), n, c, k, S, ok)
  <1>1. PICK s \in [Key -> Int] : CellsGood(s)
    BY DEF Base
  <1>2. CASE S # {}
    BY <1>1, <1>2, RowIs DEF Base, Returned
  <1>3. CASE S = {}
    <2>1. ~ok
      BY <1>3
    <2>2. Row(n, c, k, S, ok) = Observed("read", FALSE, c, n, k, None, None, None)
      BY <2>1 DEF Row
    <2>3. LET r == Observed("read", FALSE, c, n, k, None, None, None) IN
          r.status = "error" /\ r.version = None
      BY DEF Observed
    <2>4. Row(n, c, k, S, ok).version # 1
      BY <2>2, <2>3, NoneIs
    <2> QED
      BY <2>1, <2>2, <2>3, <2>4 DEF Rows, Returned
  <1> QED
    BY <1>2, <1>3

LEMMA DeliverBase ==
  ASSUME Base, Moved, NEW m \in mutations, Merge({m.to}, m.key, m.cell),
         mutations' = mutations \ {m}, UNCHANGED <<up, isolated, clock>>
  PROVE  /\ Base' /\ stepped' = stepped
         /\ m.key \in Key /\ m.to \in Node /\ m.from \in Node
         /\ \A n \in Node, j \in Key :
               /\ cell[n][j].version = 1 => cell'[n][j].version = 1
               /\ cell'[n][j].version = 1 =>
                     cell[n][j].version = 1 \/ (n = m.to /\ j = m.key)
  <1>1. PICK s \in [Key -> Int] : CellsGood(s)
    BY DEF Base
  <1>2. GoodMutation(s, m)
    BY <1>1 DEF CellsGood
  <1>3. /\ m.key \in Key /\ m.to \in Node /\ m.from \in Node
        /\ Good(s, m.key, m.cell) /\ m.cell.version = 1
    BY <1>2 DEF GoodMutation
  <1>4. stepped' = stepped
    BY SameClock DEF Base, Moved
  <1>5. /\ cell' \in [Node -> [Key -> Versions]] /\ CellsGood(s)'
        /\ Merged({m.to}, m.key, m.cell)
    BY <1>1, <1>3, <1>4, MergeGood DEF Base, Moved
  <1>6. Base'
    BY <1>4, <1>5 DEF Base, Moved
  <1> QED
    BY <1>3, <1>4, <1>5, <1>6 DEF Merged

(* A container stops or is isolated, or nothing happens to the cluster.      *)
LEMMA FaultBase ==
  ASSUME Base, Moved, NEW n \in Node, Stop(n) \/ Isolate(n) \/ UNCHANGED clusterVars
  PROVE  Base' /\ stepped' = stepped /\ cell' = cell
  <1>1. PICK s \in [Key -> Int] : CellsGood(s)
    BY DEF Base
  <1>2. clock' = clock /\ cell' = cell /\ up' \subseteq up
    BY DEF Stop, Isolate, clusterVars
  <1>3. stepped' = stepped
    BY <1>2, SameClock DEF Base, Moved
  <1>4. \A j \in Key : \A d : Good(s, j, d) => Good(s, j, d)'
    BY <1>2, <1>3, GoodStays DEF Base, Moved
  <1>5. \A m \in Node, j \in Key : Good(s, j, cell[m][j])'
    <2> TAKE m \in Node, j \in Key
    <2>1. Good(s, j, cell[m][j])' <=> \A d : d = cell'[m][j] => Good(s, j, d)'
      BY DEF Good, NewId, Session
    <2> QED
      BY <1>1, <1>2, <1>4, <2>1 DEF CellsGood
  <1>6. ASSUME NEW m \in mutations' PROVE GoodMutation(s, m)'
    <2>1. \/ m \in mutations
          \/ \E q \in mutations : m = [q EXCEPT !.from = n]
      BY DEF Stop, Isolate, clusterVars
    <2>2. \E q \in mutations : /\ m \in [key : Key, cell : Versions, from : Node, to : Node]
                               /\ m.key = q.key /\ m.cell = q.cell
      BY <1>1, <2>1 DEF CellsGood, GoodMutation
    <2> QED
      BY <1>1, <1>4, <2>2 DEF CellsGood, GoodMutation
  <1> QED
    BY <1>2, <1>3, <1>5, <1>6 DEF Base, Moved, CellsGood

-----------------------------------------------------------------------------
(* The step from a case without a result to one with a result (VerdictIsReal *)
(* for one step).                                                            *)
Real ==
    result = None /\ result' \in {"PASS", "VIOLATION"} =>
      /\ Session /\ result' = "VIOLATION" => \E n \in Node : cell[n]["x"].version < 1
      /\ ~Session => /\ cell["N1"]["y"].write_id = "y:effect"
                     /\ result' = "PASS" <=> cell["N1"]["x"].write_id = "x:cause"

LEMMA NoneIsNoVerdict == None \notin {"PASS", "VIOLATION", "INCONCLUSIVE"}
  BY NoneIsNoValue DEF Verdicts

LEMMA Undecided ==
  ASSUME result' = None
  PROVE  Results' /\ Real
  BY NoneIsNoVerdict DEF Results, Real, RecordedIsReplayed, FaultDecides

LEMMA Inconclusive ==
  ASSUME result' = "INCONCLUSIVE", Check(case.property, history)' = "INCONCLUSIVE"
  PROVE  Results' /\ Real
  BY DEF Results, Real, RecordedIsReplayed, FaultDecides

LEMMA Failing ==
  ASSUME case' \in Cases, clock' \in Int, stepped' \in BOOLEAN, ~stepped' => clock' >= 0,
         pc' = "failed", result' = None
  PROVE  Inv' /\ Real
  BY Undecided, NoneIsNoVerdict DEF Inv, Inv0, Typed, Verdicts

LEMMA Done ==
  ASSUME Base', pc' = "done", result' \in Verdicts, Results', Spread'
  PROVE  Inv'
  <1>1. Typed'
    BY NoneIsNoVerdict DEF Typed, Base, Verdicts
  <1>2. Stored' /\ Lab'
    BY DEF Stored, Lab, Base, Unwritten, Preparing, Reading, Measuring, Probing
  <1>3. History' /\ Apart' /\ Stuck'
    BY DEF History, Apart, Stuck, Unwritten, Preparing, Reading, Measuring, Probing
  <1> QED
    BY <1>1, <1>2, <1>3 DEF Inv, Inv0

LEMMA Ending ==
  ASSUME Base', pc' = "done", result' = "INCONCLUSIVE",
         Check(case.property, history)' = "INCONCLUSIVE"
  PROVE  Inv' /\ Real
  <1>1. Spread'
    BY DEF Spread, Acknowledged, Reading, Measuring, Probing
  <1> QED
    BY <1>1, Done, Inconclusive DEF Verdicts

(* A case that goes on.                                                      *)
LEMMA Going ==
  ASSUME Base', result' = None,
         pc' \in {"prepare x", "prepare y", "verify", "inject", "workload", "first read",
                  "read", "read cause", "effect", "measure", "probe effect", "probe cause"},
         Unwritten' => Untouched("x")', Unwritten' \/ Reading' => Untouched("y")',
         Lab', History', Spread', Apart', Stuck'
  PROVE  Inv' /\ Real
  <1>1. Typed' /\ Stored'
    BY NoneIsNoVerdict DEF Typed, Stored, Base
  <1> QED
    BY <1>1, Undecided DEF Inv, Inv0

(* While the case is being prepared, nothing is claimed of its workload.     *)
LEMMA GoingPreparing ==
  ASSUME Base', result' = None, Preparing', Untouched("x")', Untouched("y")',
         up' = Node, isolated' = {}, history' = << >>
  PROVE  Inv' /\ Real
  <1>1. Lab' /\ History'
    BY DEF Lab, History, Unwritten, Preparing, Reading, Measuring, Probing
  <1>2. Spread' /\ Apart' /\ Stuck'
    BY NoneIsNoVerdict
       DEF Spread, Acknowledged, Apart, Stuck, Preparing, Reading, Measuring, Probing
  <1> QED
    BY <1>1, <1>2, Going DEF Preparing

-----------------------------------------------------------------------------
LEMMA PrepareWriteStep ==
  ASSUME Inv, Moved, NEW k \in Key, NEW id \in {"x:initial", "y:initial"},
         NEW here \in {"prepare x", "prepare y"}, NEW next \in {"prepare y", "verify"},
         PrepareWrite(k, id, here, next)
  PROVE  Inv' /\ Real
  <1>1. /\ pc = here /\ Preparing /\ Base /\ result = None /\ history = << >>
        /\ up = Node /\ isolated = {} /\ \A j \in Key : Untouched(j)
    BY InvBase, Names DEF PrepareWrite, Preparing, Unwritten, Inv, Inv0, Typed, Stored, Lab,
                          History
  <1>2. id \in WriteIds /\ \A j \in Key : NewId(j) # id
    BY NewIdIs DEF WriteIds
  <1>3. PICK ok \in BOOLEAN, S \in SUBSET Contacts("N1") :
             /\ ok => S \in Answers("ALL")
             /\ WriteReaches("N1", k, 0, id, S)
             /\ IF ok THEN pc' = next /\ NoResult ELSE GiveUp
    BY DEF PrepareWrite, Write
  <1>4. history' = << >> /\ result' = None
    BY <1>1, <1>3 DEF PrepareWrite, NoResult, GiveUp
  <1>5. CASE ok
    <2>1. S = Node
      BY <1>3, <1>5 DEF Answers
    <2>2. PICK s \in [Key -> Int] : CellsGood(s)
      BY <1>1 DEF Base
    <2>3. /\ cell' \in [Node -> [Key -> Versions]]
          /\ \E r \in [Key -> Int] : CellsGood(r)'
          /\ \A j \in Key : Untouched(j)'
          /\ Ticked
      BY <1>1, <1>2, <1>3, <2>1, <2>2, InitialStep DEF Base, Moved
    <2>4. up' = up /\ isolated' = isolated
      BY <1>3 DEF WriteReaches
    <2>5. Base'
      BY <1>1, <2>3, <2>4, TickedBase DEF Base, Moved
    <2>6. Untouched("x")' /\ Untouched("y")'
      BY <2>3, Names
    <2>7. Preparing'
      BY <1>3, <1>5 DEF Preparing
    <2> QED
      BY <1>1, <1>4, <2>4, <2>5, <2>6, <2>7, GoingPreparing
  <1>6. CASE ~ok
    <2>1. Ticked
      <3>1. PICK t \in Ticks : clock' = clock + t
        BY <1>3 DEF WriteReaches
      <3> QED
        BY <1>1, <3>1, TickedStep DEF Base, Moved
    <2> QED
      BY <1>1, <1>3, <1>4, <1>6, <2>1, TickedBase, Failing DEF GiveUp
  <1> QED
    BY <1>5, <1>6

LEMMA ReadKeepsUntouched ==
  ASSUME NEW S \in SUBSET Node, NEW k \in Key, NEW j \in Key, Repaired(S, k), Untouched(j),
         mutations' = mutations, cell' \in [Node -> [Key -> Versions]]
  PROVE  Untouched(j)'
  BY SMTT(40) DEF Repaired, Untouched, Versions

LEMMA PrepareVerifyStep ==
  ASSUME Inv, Moved, PrepareVerify
  PROVE  Inv' /\ Real
  <1>1. /\ Preparing /\ Base /\ result = None /\ history = << >>
        /\ up = Node /\ isolated = {} /\ Untouched("x") /\ Untouched("y")
    BY InvBase, Names DEF PrepareVerify, Preparing, Unwritten, Inv, Inv0, Typed, Stored, Lab,
                          History
  <1>0. PICK ok \in BOOLEAN, S \in SUBSET Node :
             \E n : /\ Read(n, "x", "ONE", S, ok)
                   /\ pc' \in {"inject", pc, "failed"}
    BY DEF PrepareVerify
  <1>2. PICK n : /\ Read(n, "x", "ONE", S, ok)
                 /\ pc' \in {"inject", pc, "failed"}
    BY <1>0
  <1>3. history' = << >> /\ result' = None
    BY <1>1 DEF PrepareVerify
  <1>4. /\ Base' /\ Repaired(S, "x")
        /\ stepped' = stepped /\ up' = up /\ isolated' = isolated /\ mutations' = mutations
    BY <1>1, <1>2, ReadBase, Names DEF Levels
  <1>5. Untouched("x")' /\ Untouched("y")'
    BY <1>1, <1>4, ReadKeepsUntouched, Names DEF Base
  <1>6. CASE pc' = "failed"
    BY <1>3, <1>4, <1>6, Failing DEF Base
  <1>7. CASE pc' # "failed"
    <2>1. Preparing'
      BY <1>1, <1>2, <1>7 DEF Preparing
    <2> QED
      BY <1>1, <1>3, <1>4, <1>5, <2>1, GoingPreparing
  <1> QED
    BY <1>6, <1>7

LEMMA InjectStep ==
  ASSUME Inv, Moved, Inject
  PROVE  Inv' /\ Real
  <1>1. /\ Preparing /\ Base /\ result = None /\ history = << >>
        /\ up = Node /\ isolated = {} /\ Untouched("x") /\ Untouched("y")
    BY InvBase, Names DEF Inject, Preparing, Unwritten, Inv, Inv0, Typed, Stored, Lab,
                          History
  <1>2. mutations = {}
    <2>1. \A m \in mutations : m.key \in {"x", "y"}
      BY <1>1, Names DEF Base, CellsGood, GoodMutation
    <2> QED
      BY <1>1, <2>1 DEF Untouched
  <1>3. pc' = "workload" /\ history' = << >> /\ result' = None /\ case' = case
    BY <1>1 DEF Inject, NoResult, Keep
  <1>4. case.scenario \in {"normal", "node_stop", "partition"}
    BY <1>1 DEF Base, Cases, Scenarios
  <1>5. /\ Base' /\ cell' = cell /\ mutations' = {} /\ Faulted'
    <2>1. CASE case.scenario = "node_stop"
      <3>1. Stop("N3")
        BY <2>1 DEF Inject
      <3>2. Base' /\ cell' = cell
        BY <1>1, <3>1, FaultBase, Names
      <3>3. up' = Node \ {"N3"} /\ isolated' = {} /\ mutations' = {}
        BY <1>1, <1>2, <3>1 DEF Stop
      <3> QED
        BY <1>3, <2>1, <3>2, <3>3 DEF Faulted, Probing
    <2>2. CASE case.scenario = "partition"
      <3>1. Isolate("N3")
        BY <2>2 DEF Inject
      <3>2. Base' /\ cell' = cell
        BY <1>1, <3>1, FaultBase, Names
      <3>3. up' = Node /\ isolated' = {"N3"} /\ mutations' = {}
        BY <1>1, <1>2, <3>1 DEF Isolate
      <3> QED
        BY <1>3, <2>2, <3>2, <3>3 DEF Faulted, Probing
    <2>3. CASE case.scenario = "normal"
      <3>1. UNCHANGED clusterVars
        BY <2>3 DEF Inject
      <3>2. Base' /\ cell' = cell
        BY <1>1, <3>1, FaultBase, Names
      <3>3. up' = Node /\ isolated' = {} /\ mutations' = {}
        BY <1>1, <1>2, <3>1 DEF clusterVars
      <3> QED
        BY <1>3, <2>3, <3>2, <3>3 DEF Faulted, Probing
    <2> QED
      BY <1>4, <2>1, <2>2, <2>3
  <1>6. Untouched("x")' /\ Untouched("y")'
    BY <1>1, <1>5 DEF Untouched
  <1>7. Lab'
    BY <1>3, <1>5 DEF Lab, Preparing, Reading, Measuring, Probing, Base
  <1>8. History' /\ Spread' /\ Stuck'
    BY <1>3, NoneIsNoVerdict
       DEF History, Unwritten, Preparing, Spread, Acknowledged, Stuck, Reading, Measuring,
           Probing
  <1>9. Apart'
    BY <1>5, <1>6, Names DEF Apart, Untouched
  <1> QED
    BY <1>3, <1>5, <1>6, <1>7, <1>8, <1>9, Going

LEMMA MeasureStep ==
  ASSUME Inv, Moved, Measure
  PROVE  Inv' /\ Real
  <1>1. pc = "measure" /\ Base /\ result = None /\ Faulted /\ History /\ Spread /\ Apart /\ Stuck
    BY InvBase DEF Measure, Inv, Inv0, Typed, Lab, Measuring
  <1>2. /\ pc' = "probe effect" /\ history' = history /\ result' = None /\ case' = case
        /\ Isolate("N1") /\ up' = up /\ isolated' = isolated \union {"N1"}
    BY <1>1 DEF Measure, NoResult, Keep, Isolate
  <1>3. Base' /\ stepped' = stepped /\ cell' = cell
    BY <1>1, <1>2, FaultBase, Names
  <1>4. ~Session /\ history = Append(Caused, Effect)
    BY <1>1 DEF History
  <1>5. isolated = IF case.scenario = "partition" THEN {"N3"} ELSE {}
    BY <1>1 DEF Faulted, Probing
  <1>6. Lab'
    <2>1. isolated' \ {"N1"} = isolated
      BY <1>2, <1>5
    <2>2. Faulted'
      BY <1>1, <1>2, <1>5, <2>1 DEF Faulted, Probing
    <2> QED
      BY <1>2, <1>3, <2>2 DEF Lab, Preparing, Reading, Measuring, Probing, Base
  <1>7. History'
    BY <1>2, <1>4 DEF History, Unwritten, Preparing, Session, Caused, OtherNode
  <1>8. Spread' /\ Stuck'
    BY <1>1, <1>2, <1>3 DEF Spread, Acknowledged, Stuck, Session, Reading, Measuring, Probing
  <1>9. Apart'
    <2> SUFFICES ASSUME case.scenario = "partition"
                 PROVE  /\ cell["N1"]["x"].version = 0
                        /\ \A m \in mutations' : m.key = "x" => m.from = "N3"
      BY <1>2, <1>3, <1>4 DEF Apart, Session
    <2>1. /\ cell["N1"]["x"].version = 0
          /\ \A m \in mutations : m.key = "x" => m.from = "N3"
      BY <1>1, <1>4 DEF Apart, Measuring
    <2>2. PICK Q \in SUBSET {m \in mutations : m.to = "N1" /\ m.to \in Reach(m.from)} :
             mutations' = (mutations \ Q) \union {[m EXCEPT !.from = "N1"] : m \in Q}
      BY <1>2 DEF Isolate
    <2>3. \A m \in Q : m.key # "x"
      BY <1>5, <2>1 DEF Reach
    <2>4. \A m \in Q : [m EXCEPT !.from = "N1"].key = m.key
      BY <1>1 DEF Base, CellsGood, GoodMutation
    <2> QED
      BY ZenonT(40), <2>1, <2>2, <2>3, <2>4
  <1> QED
    BY <1>2, <1>3, <1>6, <1>7, <1>8, <1>9, Going DEF Unwritten, Preparing, Reading

LEMMA DeliverStep ==
  ASSUME Inv, Moved, Deliver, UNCHANGED trialVars
  PROVE  Inv' /\ Real
  <1>0. pc' = pc /\ history' = history /\ result' = result /\ case' = case
    BY DEF trialVars
  <1>1. Real
    BY <1>0, NoneIsNoVerdict DEF Real
  <1>2. CASE pc = "failed"
    <2>1. clock' = clock
      BY DEF Deliver
    <2>2. stepped' = stepped
      BY <2>1, SameClock DEF Moved, Inv, Inv0, Typed
    <2> QED
      BY <1>0, <1>1, <1>2, <2>1, <2>2
         DEF Inv, Inv0, Typed, Results, RecordedIsReplayed, FaultDecides, Session
  <1>3. CASE pc # "failed"
    <2>1. Base
      BY <1>3, InvBase
    <2>2. PICK m \in mutations : /\ m.from \in up /\ m.to \in Reach(m.from)
                                 /\ Merge({m.to}, m.key, m.cell)
                                 /\ mutations' = mutations \ {m}
                                 /\ UNCHANGED <<up, isolated, clock>>
      BY DEF Deliver
    <2>3. /\ Base' /\ stepped' = stepped
          /\ m.key \in Key /\ m.to \in Node /\ m.from \in Node
          /\ \A n \in Node, j \in Key :
                /\ cell[n][j].version = 1 => cell'[n][j].version = 1
                /\ cell'[n][j].version = 1 =>
                      cell[n][j].version = 1 \/ (n = m.to /\ j = m.key)
      BY <2>1, <2>2, DeliverBase
    <2>4. \A n \in Node, j \in Key : cell[n][j].version \in {0, 1} /\ cell'[n][j].version \in {0, 1}
      BY <2>1, <2>3 DEF Base, Versions
    <2>5. Typed'
      BY <1>0, <2>2, <2>3 DEF Inv, Inv0, Typed, Base
    <2>6. \A k \in Key : Untouched(k) => Untouched(k)'
      BY <2>2, <2>3, <2>4 DEF Untouched
    <2>7. Stored'
      BY <1>0, <1>3, <2>3, <2>6, Names
         DEF Stored, Base, Inv, Inv0, Unwritten, Preparing, Reading
    <2>8. Lab'
      BY <1>0, <1>3, <2>2
         DEF Lab, Faulted, Inv, Inv0, Preparing, Reading, Measuring, Probing
    <2>9. History'
      <3>1. Session' = Session /\ Caused' = Caused
        BY <1>0 DEF Session, Caused, OtherNode
      <3>2. cell["N1"]["y"].version = 1 => cell'["N1"]["y"].version = 1
        BY <2>3, Names
      <3>3. Rows("N1", "observer", "y")' = Rows("N1", "observer", "y")
        BY <1>0 DEF Rows, NewId, Session
      <3>4. Effect' = Effect /\ \A c, n, id : Wrote(c, n, id)' = Wrote(c, n, id)
        BY DEF Effect, Wrote
      <3>5. History
        BY <1>3 DEF Inv
      <3>6. CASE pc = "probe cause"
        BY <1>0, <3>1, <3>2, <3>3, <3>4, <3>5, <3>6 DEF History, Unwritten, Preparing
      <3>7. CASE pc # "probe cause"
        BY <1>0, <3>1, <3>4, <3>5, <3>7 DEF History, Unwritten, Preparing, OtherNode
      <3> QED
        BY <3>6, <3>7
    <2>10. Spread'
      <3> SUFFICES ASSUME case.consistency # "ONE", Acknowledged, ~stepped
                   PROVE  \E Q \in Answers(case.consistency) :
                             Q \subseteq up /\ \A n \in Q : cell'[n]["x"].version = 1
        BY <1>0, <2>2, <2>3 DEF Spread, Acknowledged, Reading, Measuring, Probing
      <3>1. PICK Q \in Answers(case.consistency) :
               Q \subseteq up /\ \A n \in Q : cell[n]["x"].version = 1
        BY <1>3 DEF Inv, Spread
      <3> QED
        BY <2>1, <2>3, <3>1, Names DEF Base
    <2>11. Stuck'
      BY <1>0, <1>3 DEF Stuck, Inv, Session, Reading, Measuring, Probing
    <2>12. Apart'
      <3> SUFFICES ASSUME case.scenario = "partition", pc = "workload" \/ Reading \/ Measuring
                   PROVE  IF Session THEN /\ cell'["N3"]["x"].version = 0
                                          /\ \A q \in mutations' : q.from # "N3"
                                     ELSE /\ cell'["N1"]["x"].version = 0
                                          /\ \A q \in mutations' : q.key = "x" => q.from = "N3"
        BY <1>0 DEF Apart, Session, Reading, Measuring, Probing
      <3>1. Apart /\ Lab
        BY <1>3 DEF Inv, Inv0
      <3>2. "N3" \in isolated
        BY <3>1 DEF Lab, Faulted
      <3>3. m.to = "N3" <=> m.from = "N3"
        BY <2>2, <3>2 DEF Reach
      <3>4. CASE Session
        <4>1. /\ cell["N3"]["x"].version = 0
              /\ \A q \in mutations : q.from # "N3"
          BY <3>1, <3>4 DEF Apart
        <4>2. cell'["N3"]["x"].version = 0
          BY <2>2, <2>3, <2>4, <3>3, <4>1, Names
        <4> QED
          BY <2>2, <3>4, <4>1, <4>2
      <3>5. CASE ~Session
        <4>1. /\ cell["N1"]["x"].version = 0
              /\ \A q \in mutations : q.key = "x" => q.from = "N3"
          BY <3>1, <3>5 DEF Apart
        <4>2. cell'["N1"]["x"].version = 0
          BY <2>2, <2>3, <2>4, <3>3, <4>1, Names
        <4> QED
          BY <2>2, <3>5, <4>1, <4>2
      <3> QED
        BY <3>4, <3>5
    <2>13. Results'
      BY <1>0, <2>3 DEF Inv, Results, RecordedIsReplayed, FaultDecides, Session
    <2> QED
      BY <1>1, <2>5, <2>7, <2>8, <2>9, <2>10, <2>11, <2>12, <2>13 DEF Inv, Inv0
  <1> QED
    BY <1>2, <1>3

-----------------------------------------------------------------------------
(* The write of x of a workload, acknowledged or not.                        *)
LEMMA WorkloadStart ==
  ASSUME Inv, pc = "workload"
  PROVE  /\ Base /\ result = None /\ history = << >> /\ Untouched("x") /\ Untouched("y")
         /\ Faulted /\ Apart /\ up \subseteq Node
  BY InvBase, Names DEF Inv, Inv0, Typed, Stored, Lab, History, Unwritten

LEMMA WriteXStep ==
  ASSUME Inv, Moved, pc = "workload", NEW n \in Node, NEW ok \in BOOLEAN, NEW c,
         n = IF Session THEN "N1" ELSE OtherNode,
         WriteOp(n, c, "x", NewId("x"), None, ok)
  PROVE  /\ Base' /\ Untouched("y")'
         /\ history' = << Observed("write", ok, c, n, "x", 1, NewId("x"), None) >>
         /\ ok /\ result' = None /\ pc' \in {"first read", "read", "read cause", "effect"} =>
               Lab' /\ Spread' /\ Apart' /\ Stuck'
  <1>1. /\ Base /\ history = << >> /\ Untouched("x") /\ Untouched("y") /\ Faulted /\ Apart
    BY WorkloadStart
  <1>2. PICK S \in SUBSET Contacts(n) : /\ ok => S \in Answers(case.consistency)
                                        /\ WriteReaches(n, "x", 1, NewId("x"), S)
    BY DEF WriteOp, Write
  <1>3. S \subseteq up /\ S \in SUBSET Node
    BY <1>1, <1>2 DEF Contacts, Reach, Base
  <1>4. /\ Base' /\ Written(n, "x", S) /\ (~stepped' => ~stepped)
        /\ up' = up /\ isolated' = isolated
    BY <1>1, <1>2, <1>3, WriteBase, Names
  <1>5. case' = case
    BY DEF Moved
  <1>6. Untouched("y")'
    BY <1>1, <1>4, Names DEF Untouched, Written
  <1>7. history' = << Observed("write", ok, c, n, "x", 1, NewId("x"), None) >>
    BY <1>1 DEF WriteOp
  <1>8. ASSUME ok, result' = None, pc' \in {"first read", "read", "read cause", "effect"}
        PROVE  Lab' /\ Spread' /\ Apart' /\ Stuck'
    <2>1. S \in Answers(case.consistency)
      BY <1>2, <1>8
    <2>2. Faulted' /\ Lab'
      <3>1. Faulted'
        BY <1>1, <1>4, <1>5, <1>8 DEF Faulted, Probing
      <3> QED
        BY <1>4, <1>8, <3>1 DEF Lab, Preparing, Reading, Measuring, Probing, Base
    <2>3. Spread'
      BY <1>3, <1>4, <1>5, <2>1, Names DEF Spread, Written
    <2>4. Apart'
      <3> SUFFICES ASSUME case.scenario = "partition" PROVE Apart'
        BY <1>5 DEF Apart
      <3>1. isolated = {"N3"} /\ up = Node
        BY <1>1 DEF Faulted, Probing
      <3>2. CASE Session
        <4>1. n = "N1" /\ "N3" \notin S
          BY <1>2, <3>1, <3>2 DEF Contacts, Reach
        <4>2. /\ cell["N3"]["x"].version = 0
              /\ \A m \in mutations : m.from # "N3"
          BY <1>1, <3>2 DEF Apart
        <4>3. cell'["N3"]["x"].version = 0
          BY <1>4, <4>1, <4>2, Names DEF Written
        <4>4. \A m \in mutations' : m.from # "N3"
          BY <1>4, <4>1, <4>2 DEF Written
        <4> QED
          BY <1>5, <3>2, <4>3, <4>4 DEF Apart, Session
      <3>3. CASE ~Session
        <4>1. n = "N3" /\ "N1" \notin S
          BY <1>2, <3>1, <3>3 DEF Contacts, Reach, OtherNode
        <4>2. /\ cell["N1"]["x"].version = 0
              /\ \A m \in mutations : m.key = "x" => m.from = "N3"
          BY <1>1, <3>3 DEF Apart
        <4>3. cell'["N1"]["x"].version = 0
          BY <1>4, <4>1, <4>2, Names DEF Written
        <4>4. \A m \in mutations' : m.key = "x" => m.from = "N3"
          BY <1>4, <4>1, <4>2 DEF Written
        <4> QED
          BY <1>5, <3>3, <4>3, <4>4 DEF Apart, Session
      <3> QED
        BY <3>2, <3>3
    <2>5. Stuck'
      <3>1. ~(case.scenario = "node_stop" /\ case.consistency = "ALL")
        <4> SUFFICES ASSUME case.scenario = "node_stop", case.consistency = "ALL"
                     PROVE  FALSE
          OBVIOUS
        <4>1. up = Node \ {"N3"} /\ S = Node
          BY <1>1, <2>1 DEF Faulted, Answers
        <4> QED
          BY <1>3, <4>1, Names
      <3>2. ~(case.scenario = "partition" /\ case.consistency # "ONE" /\ ~Session)
        <4> SUFFICES ASSUME case.scenario = "partition", case.consistency # "ONE", ~Session
                     PROVE  FALSE
          OBVIOUS
        <4>1. S \subseteq {"N3"}
          BY <1>1, <1>2 DEF Faulted, Probing, Contacts, Reach, OtherNode
        <4>2. CASE case.consistency = "ALL"
          BY <2>1, <4>1, <4>2, Names DEF Answers
        <4>3. CASE case.consistency = "QUORUM"
          BY <2>1, <4>1, <4>3, QuorumAssumption, Names DEF Answers
        <4> QED
          BY <1>1, <4>2, <4>3 DEF Base, Cases, Levels
      <3> QED
        BY <1>5, <3>1, <3>2 DEF Stuck, Session
    <2> QED
      BY <2>2, <2>3, <2>4, <2>5
  <1> QED
    BY <1>4, <1>6, <1>7, <1>8

LEMMA OneEvent ==
  ASSUME NEW p \in Properties, NEW c, NEW n, NEW id
  PROVE  Check(p, << Observed("write", FALSE, c, n, "x", 1, id, None) >>) = "INCONCLUSIVE"
  <1> DEFINE h == << Observed("write", FALSE, c, n, "x", 1, id, None) >>
  <1>1. DOMAIN h = {1} /\ h[1].op = "write" /\ h[1].status = "error"
    BY DEF Observed
  <1> HIDE DEF h
  <1>2. CASE p \in {RYW, MR}
    <2>1. \A a, b \in DOMAIN h : ~SessionPair(p, h, a, b)
      BY <1>1 DEF SessionPair
    <2> QED
      BY <1>2, <2>1, NoPairNoVerdict DEF h
  <1>3. CASE p \in {MW, WFR}
    <2>1. \A i \in DOMAIN h : h[i].op \in {"write", "read"} /\ h[i].status # "ok"
      BY <1>1
    <2>2. Check(p, h) = "INCONCLUSIVE"
      BY <1>3, <2>1, NoEffectNoVerdict
    <2> QED
      BY <2>2 DEF h
  <1> QED
    BY <1>2, <1>3 DEF Properties

LEMMA WriteNewStep ==
  ASSUME Inv, Moved, WriteNew
  PROVE  Inv' /\ Real
  <1>1. /\ pc = "workload" /\ case.property \in {RYW, MR} /\ Session /\ NewId("x") = "x:new"
        /\ Base /\ result = None /\ case' = case
    BY WorkloadStart DEF WriteNew, Session, NewId, Keep
  <1>2. PICK c : c = IF case.property = RYW THEN "A" ELSE "B"
    OBVIOUS
  <1>3. PICK ok \in BOOLEAN :
             /\ WriteOp("N1", c, "x", NewId("x"), None, ok)
             /\ IF ok THEN /\ pc' = IF case.property = MR THEN "first read" ELSE "read"
                           /\ NoResult
                      ELSE Judge
    BY <1>1, <1>2, Zenon DEF WriteNew
  <1>4. /\ Base' /\ Untouched("y")'
        /\ history' = << Observed("write", ok, c, "N1", "x", 1, NewId("x"), None) >>
        /\ ok /\ result' = None /\ pc' \in {"first read", "read", "read cause", "effect"} =>
               Lab' /\ Spread' /\ Apart' /\ Stuck'
    BY <1>1, <1>3, WriteXStep, Names
  <1>5. CASE ok
    <2>1. result' = None /\ pc' = IF case.property = MR THEN "first read" ELSE "read"
      BY <1>1, <1>3, <1>5 DEF NoResult
    <2>2. history' = << Wrote(c, "N1", "x:new") >>
      BY <1>1, <1>4, <1>5 DEF Wrote
    <2>3. History'
      BY <1>1, <1>2, <2>1, <2>2
         DEF History, Unwritten, Preparing, Session, Wrote, RYW, MR, MW, WFR
    <2> QED
      BY <1>1, <1>4, <1>5, <2>1, <2>3, Going DEF Unwritten, Preparing
  <1>6. CASE ~ok
    <2>1. history' = << Observed("write", FALSE, c, "N1", "x", 1, NewId("x"), None) >>
      BY <1>4, <1>6
    <2>2. Check(case.property, history') = "INCONCLUSIVE"
      BY <1>1, <2>1, OneEvent DEF Properties
    <2> QED
      BY <1>1, <1>3, <1>4, <1>6, <2>2, Ending DEF Judge
  <1> QED
    BY <1>5, <1>6

LEMMA WriteCauseStep ==
  ASSUME Inv, Moved, WriteCause
  PROVE  Inv' /\ Real
  <1>1. /\ pc = "workload" /\ case.property \in {MW, WFR} /\ ~Session /\ NewId("x") = "x:cause"
        /\ Base /\ result = None /\ case' = case
    BY WorkloadStart DEF WriteCause, Session, NewId, Keep, RYW, MR, MW, WFR
  <1>2. PICK c : c = IF case.property = MW THEN "A" ELSE "B"
    OBVIOUS
  <1>3. PICK ok \in BOOLEAN :
             /\ WriteOp(OtherNode, c, "x", NewId("x"), None, ok)
             /\ IF ok THEN /\ pc' = IF case.property = WFR THEN "read cause" ELSE "effect"
                           /\ NoResult
                      ELSE Judge
    BY <1>1, <1>2, Zenon DEF WriteCause
  <1>4. /\ Base' /\ Untouched("y")'
        /\ history' = << Observed("write", ok, c, OtherNode, "x", 1, NewId("x"), None) >>
        /\ ok /\ result' = None /\ pc' \in {"first read", "read", "read cause", "effect"} =>
               Lab' /\ Spread' /\ Apart' /\ Stuck'
    <2>1. OtherNode \in Node
      BY Names DEF OtherNode
    <2> QED
      BY <1>1, <1>3, <2>1, WriteXStep
  <1>5. CASE ok
    <2>1. result' = None /\ pc' = IF case.property = WFR THEN "read cause" ELSE "effect"
      BY <1>1, <1>3, <1>5 DEF NoResult
    <2>2. history' = << Wrote(c, OtherNode, "x:cause") >>
      BY <1>1, <1>4, <1>5 DEF Wrote
    <2>3. History'
      BY <1>1, <1>2, <2>1, <2>2
         DEF History, Unwritten, Preparing, Session, Wrote, Caused, OtherNode, RYW, MR, MW, WFR
    <2> QED
      BY <1>1, <1>4, <1>5, <2>1, <2>3, Going DEF Unwritten, Preparing
  <1>6. CASE ~ok
    <2>1. history' = << Observed("write", FALSE, c, OtherNode, "x", 1, NewId("x"), None) >>
      BY <1>4, <1>6
    <2>2. Check(case.property, history') = "INCONCLUSIVE"
      BY <1>1, <2>1, OneEvent DEF Properties
    <2> QED
      BY <1>1, <1>3, <1>4, <1>6, <2>2, Ending DEF Judge
  <1> QED
    BY <1>5, <1>6

-----------------------------------------------------------------------------
LEMMA RepairedSpread ==
  ASSUME Base, Spread, Acknowledged, case' = case, stepped' = stepped, up' = up,
         NEW S \in SUBSET Node, NEW k \in Key, Repaired(S, k)
  PROVE  Spread'
  <1> SUFFICES ASSUME case.consistency # "ONE", ~stepped
               PROVE  \E Q \in Answers(case.consistency) :
                         Q \subseteq up /\ \A n \in Q : cell'[n]["x"].version = 1
    BY DEF Spread
  <1>1. PICK Q \in Answers(case.consistency) :
           Q \subseteq up /\ \A n \in Q : cell[n]["x"].version = 1
    BY DEF Spread
  <1> QED
    BY <1>1, Names DEF Base, Repaired

(* The reads of x of a workload.                                             *)
LEMMA ReadXStep ==
  ASSUME Inv, Moved, Reading, NEW n, n = OtherNode \/ (n = "N1" /\ Session),
         NEW ok \in BOOLEAN, NEW S \in SUBSET Node, Read(n, "x", case.consistency, S, ok)
  PROVE  /\ Base /\ Base' /\ Untouched("y")' /\ S \subseteq Contacts(n)
         /\ Returned(Row(n, "A", "x", S, ok), n, "A", "x", S, ok)
         /\ ok => S # {} /\ S \in Answers(case.consistency)
         /\ Spread' /\ stepped' = stepped
         /\ pc' \in {"read", "effect"} => Lab' /\ Apart' /\ Stuck'
  <1>1. /\ Base /\ result = None /\ Untouched("y") /\ Faulted /\ Apart /\ Stuck /\ Spread
    BY InvBase DEF Inv, Inv0, Typed, Stored, Lab, Reading
  <1>2. case' = case /\ case.consistency \in Levels
    BY <1>1 DEF Moved, Base, Cases
  <1>3. /\ Base' /\ Repaired(S, "x") /\ S \subseteq Contacts(n)
        /\ stepped' = stepped /\ up' = up /\ isolated' = isolated /\ mutations' = mutations
        /\ ok => S # {} /\ S \in Answers(case.consistency)
    BY SMTT(40), <1>1, <1>2, ReadBase, Names
  <1>4. Returned(Row(n, "A", "x", S, ok), n, "A", "x", S, ok)
    BY <1>1, <1>3, ReadRow, Names
  <1>5. Untouched("y")'
    BY <1>1, <1>3, ReadKeepsUntouched, Names DEF Base
  <1>6. Spread'
    BY <1>1, <1>2, <1>3, RepairedSpread, Names DEF Acknowledged
  <1>7. ASSUME pc' \in {"read", "effect"} PROVE Lab' /\ Apart' /\ Stuck'
    <2>1. Faulted'
      BY <1>1, <1>2, <1>3, <1>7 DEF Faulted, Probing, Reading
    <2>2. Lab'
      BY <1>3, <1>7, <2>1 DEF Lab, Preparing, Reading, Measuring, Probing, Base
    <2>3. Stuck'
      BY <1>1, <1>2, <1>7 DEF Stuck, Session, Reading, Measuring, Probing
    <2>4. Apart'
      <3> SUFFICES ASSUME case.scenario = "partition" PROVE Apart'
        BY <1>2 DEF Apart
      <3>1. isolated = {"N3"} /\ up = Node
        BY <1>1 DEF Faulted, Probing, Reading
      <3>2. \A m \in Node : cell'[m]["x"].version \in {0, 1}
        BY <1>3, Names DEF Base, Versions
      <3>3. OtherNode = "N3"
        BY DEF OtherNode
      <3>4. CASE Session
        <4>1. /\ cell["N3"]["x"].version = 0
              /\ \A m \in mutations : m.from # "N3"
          BY <1>1, <3>4 DEF Apart
        <4>2. n = "N3" => S \subseteq {"N3"}
          BY <1>3, <3>1 DEF Contacts, Reach
        <4>3. n = "N1" => "N3" \notin S
          BY <1>3, <3>1 DEF Contacts, Reach
        <4>4. cell'["N3"]["x"].version = 0
          BY <1>3, <3>2, <3>3, <4>1, <4>2, <4>3, Names DEF Repaired
        <4> QED
          BY <1>2, <1>3, <3>4, <4>1, <4>4 DEF Apart, Session
      <3>5. CASE ~Session
        <4>1. /\ cell["N1"]["x"].version = 0
              /\ \A m \in mutations : m.key = "x" => m.from = "N3"
          BY <1>1, <3>5 DEF Apart
        <4>2. S \subseteq {"N3"}
          BY <1>3, <3>1, <3>3, <3>5 DEF Contacts, Reach
        <4>3. cell'["N1"]["x"].version = 0
          BY <1>3, <3>2, <4>1, <4>2, Names DEF Repaired
        <4> QED
          BY <1>2, <1>3, <3>5, <4>1, <4>3 DEF Apart, Session
      <3> QED
        BY <3>4, <3>5
    <2> QED
      BY <2>2, <2>3, <2>4
  <1> QED
    BY <1>1, <1>3, <1>4, <1>5, <1>6, <1>7

LEMMA Append2 ==
  ASSUME NEW a, NEW b
  PROVE  Append(<< a >>, b) = << a, b >>
  <1>1. << a >> \in Seq({a, b})
    OBVIOUS
  <1>2. /\ Append(<< a >>, b) \in Seq({a, b}) /\ Len(Append(<< a >>, b)) = 2
        /\ Append(<< a >>, b)[1] = a /\ Append(<< a >>, b)[2] = b
    BY <1>1
  <1>3. << a, b >> \in Seq({a, b}) /\ Len(<< a, b >>) = 2
    OBVIOUS
  <1> QED
    <2>1. \A i \in 1 .. 2 : Append(<< a >>, b)[i] = << a, b >>[i]
      BY <1>2
    <2> QED
      BY <1>2, <1>3, <2>1, SeqEqual, Zenon

LEMMA Append3 ==
  ASSUME NEW a, NEW b, NEW c
  PROVE  Append(<< a, b >>, c) = << a, b, c >>
  <1>1. << a, b >> \in Seq({a, b, c})
    OBVIOUS
  <1>2. /\ Append(<< a, b >>, c) \in Seq({a, b, c}) /\ Len(Append(<< a, b >>, c)) = 3
        /\ Append(<< a, b >>, c)[1] = a /\ Append(<< a, b >>, c)[2] = b
        /\ Append(<< a, b >>, c)[3] = c
    BY <1>1
  <1>3. << a, b, c >> \in Seq({a, b, c}) /\ Len(<< a, b, c >>) = 3
    OBVIOUS
  <1> QED
    <2>1. \A i \in 1 .. 3 : Append(<< a, b >>, c)[i] = << a, b, c >>[i]
      BY <1>2
    <2> QED
      BY <1>2, <1>3, <2>1, SeqEqual, Zenon

LEMMA Append4 ==
  ASSUME NEW a, NEW b, NEW c, NEW d
  PROVE  Append(<< a, b, c >>, d) = << a, b, c, d >>
  <1>1. << a, b, c >> \in Seq({a, b, c, d})
    OBVIOUS
  <1>2. /\ Append(<< a, b, c >>, d) \in Seq({a, b, c, d})
        /\ Len(Append(<< a, b, c >>, d)) = 4
        /\ Append(<< a, b, c >>, d)[1] = a /\ Append(<< a, b, c >>, d)[2] = b
        /\ Append(<< a, b, c >>, d)[3] = c /\ Append(<< a, b, c >>, d)[4] = d
    BY <1>1
  <1>3. << a, b, c, d >> \in Seq({a, b, c, d}) /\ Len(<< a, b, c, d >>) = 4
    OBVIOUS
  <1> QED
    <2>1. \A i \in 1 .. 4 : Append(<< a, b, c >>, d)[i] = << a, b, c, d >>[i]
      BY <1>2
    <2> QED
      BY <1>2, <1>3, <2>1, SeqEqual, Zenon

LEMMA FirstReadStep ==
  ASSUME Inv, Moved, FirstRead
  PROVE  Inv' /\ Real
  <1>1. /\ pc = "first read" /\ Reading /\ result = None /\ case' = case /\ case.property = MR
        /\ history = << Wrote("B", "N1", "x:new") >> /\ Session /\ NewId("x") = "x:new"
    BY DEF FirstRead, Reading, Inv, Inv0, Typed, History, Keep, Session, NewId
  <1>2. PICK ok \in BOOLEAN, S \in SUBSET Node :
             /\ Read("N1", "x", case.consistency, S, ok)
             /\ history' = Append(history, Row("N1", "A", "x", S, ok))
    BY DEF FirstRead, ReadOp
  <1>3. PICK r : r = Row("N1", "A", "x", S, ok)
    OBVIOUS
  <1>4. /\ Base' /\ Untouched("y")' /\ Spread' /\ r \in Rows("N1", "A", "x")
        /\ pc' \in {"read", "effect"} => Lab' /\ Apart' /\ Stuck'
    BY <1>1, <1>2, <1>3, ReadXStep DEF Returned
  <1>5. history' = << Wrote("B", "N1", "x:new"), r >>
    BY <1>1, <1>2, <1>3, Append2
  <1>6. IF r.status # "ok" \/ r.version # 1
          THEN result' = "INCONCLUSIVE" /\ pc' = "done"
          ELSE pc' = "read" /\ NoResult
    <2>1. history'[Len(history')] = r
      BY <1>5
    <2> QED
      BY <2>1 DEF FirstRead
  <1>7. CASE r.status # "ok" \/ r.version # 1
    <2>1. DOMAIN history' = {1, 2} /\ history'[1].op = "write"
      BY <1>5 DEF Wrote, Observed
    <2>2. \A a, b \in DOMAIN history' : ~SessionPair(MR, history', a, b)
      BY <2>1 DEF SessionPair, PriorOp, RYW, MR, MW
    <2>3. Check(case.property, history') = "INCONCLUSIVE"
      BY <1>1, <2>2, NoPairNoVerdict
    <2> QED
      BY <1>1, <1>4, <1>6, <1>7, <2>3, Ending
  <1>8. CASE ~(r.status # "ok" \/ r.version # 1)
    <2>1. pc' = "read" /\ result' = None
      BY <1>1, <1>6, <1>8 DEF NoResult
    <2>2. r = Observed("read", TRUE, "A", "N1", "x", 1, "x:new", None)
      BY <1>1, <1>4, <1>8, RowOfVersion1
    <2>3. History'
      BY <1>1, <1>5, <2>1, <2>2
         DEF History, Unwritten, Preparing, Wrote
    <2> QED
      BY <1>4, <2>1, <2>3, Going DEF Unwritten, Preparing
  <1> QED
    BY <1>7, <1>8

LEMMA ReadCauseStep ==
  ASSUME Inv, Moved, ReadCause
  PROVE  Inv' /\ Real
  <1>1. /\ pc = "read cause" /\ Reading /\ result = None /\ case' = case /\ case.property = WFR
        /\ history = << Wrote("B", OtherNode, "x:cause") >> /\ ~Session
        /\ NewId("x") = "x:cause"
    BY DEF ReadCause, Reading, Inv, Inv0, Typed, History, Keep, Session, NewId, RYW, MR, WFR
  <1>2. PICK ok \in BOOLEAN, S \in SUBSET Node :
             /\ Read(OtherNode, "x", case.consistency, S, ok)
             /\ history' = Append(history, Row(OtherNode, "A", "x", S, ok))
    BY DEF ReadCause, ReadOp
  <1>3. PICK r : r = Row(OtherNode, "A", "x", S, ok)
    OBVIOUS
  <1>4. /\ Base' /\ Untouched("y")' /\ Spread' /\ r \in Rows(OtherNode, "A", "x")
        /\ pc' \in {"read", "effect"} => Lab' /\ Apart' /\ Stuck'
    BY <1>1, <1>2, <1>3, ReadXStep DEF Returned
  <1>5. history' = << Wrote("B", OtherNode, "x:cause"), r >>
    BY <1>1, <1>2, <1>3, Append2
  <1>6. IF r.status # "ok" \/ r.version # 1 \/ r.write_id # "x:cause"
          THEN result' = "INCONCLUSIVE" /\ pc' = "done"
          ELSE pc' = "effect" /\ NoResult
    <2>1. history'[Len(history')] = r
      BY <1>5
    <2> QED
      BY <2>1 DEF ReadCause
  <1>7. CASE r.status # "ok" \/ r.version # 1 \/ r.write_id # "x:cause"
    <2>1. /\ DOMAIN history' = {1, 2} /\ history'[1].op = "write"
          /\ history'[1].depends_on = None /\ history'[2].op = "read"
      BY <1>4, <1>5, RowKinds DEF Wrote, Observed
    <2>2. Check(case.property, history') = "INCONCLUSIVE"
      BY <1>1, <2>1, NoEffectNoVerdict
    <2> QED
      BY <1>1, <1>4, <1>6, <1>7, <2>2, Ending
  <1>8. CASE ~(r.status # "ok" \/ r.version # 1 \/ r.write_id # "x:cause")
    <2>1. pc' = "effect" /\ result' = None
      BY <1>1, <1>6, <1>8 DEF NoResult
    <2>2. r = Observed("read", TRUE, "A", OtherNode, "x", 1, "x:cause", None)
      BY <1>1, <1>4, <1>8, RowOfVersion1
    <2>3. History'
      BY <1>1, <1>5, <2>1, <2>2
         DEF History, Unwritten, Preparing, Session, Wrote, Caused, OtherNode, WFR, MW
    <2> QED
      BY <1>4, <2>1, <2>3, Going DEF Unwritten, Preparing
  <1> QED
    BY <1>7, <1>8

LEMMA WriteEffectStep ==
  ASSUME Inv, Moved, WriteEffect
  PROVE  Inv' /\ Real
  <1>1. /\ pc = "effect" /\ Reading /\ Base /\ result = None /\ case' = case
        /\ history = Caused /\ ~Session /\ Untouched("y") /\ NewId("y") = "y:effect"
        /\ Faulted /\ Apart /\ Stuck /\ Spread
    BY InvBase
       DEF WriteEffect, Reading, Inv, Inv0, Typed, Stored, Lab, History, Keep, NewId
  <1>2. case.property \in {MW, WFR}
    BY <1>1 DEF Base, Cases, Session, Properties
  <1>3. Last.version = 1 /\ Last.write_id = "x:cause"
    BY <1>1 DEF Last, Caused, Wrote, Observed
  <1>4. PICK ok \in BOOLEAN, S \in SUBSET Contacts("N1") :
             /\ ok => S \in Answers(case.consistency)
             /\ WriteReaches("N1", "y", 1, NewId("y"), S)
             /\ history' = Append(history, Observed("write", ok, "A", "N1", "y", 1, "y:effect",
                                     [key |-> "x", min_version |-> 1, write_id |-> "x:cause"]))
             /\ IF ok THEN pc' = "measure" /\ NoResult ELSE Judge
    BY <1>1, <1>3, Zenon DEF WriteEffect, WriteOp, Write
  <1>5. S \in SUBSET Node
    BY <1>1, <1>4 DEF Contacts, Reach, Base
  <1>6. /\ Base' /\ Written("N1", "y", S) /\ (~stepped' => ~stepped)
        /\ up' = up /\ isolated' = isolated
    BY <1>1, <1>4, <1>5, WriteBase, Names
  <1>7. \A n \in Node : cell'[n]["x"] = cell[n]["x"]
    BY <1>6, Names DEF Written
  <1>8. CASE ok
    <2>1. pc' = "measure" /\ result' = None
      BY <1>1, <1>4, <1>8 DEF NoResult
    <2>2. History'
      <3>1. history' = Append(Caused, Effect)
        BY <1>1, <1>4, <1>8 DEF Effect
      <3> QED
        BY <1>1, <2>1, <3>1
           DEF History, Unwritten, Preparing, Session, Caused, OtherNode, Effect, Wrote
    <2>3. Lab'
      <3>1. Faulted'
        BY <1>1, <1>6, <2>1 DEF Faulted, Probing
      <3> QED
        BY <1>6, <2>1, <3>1 DEF Lab, Preparing, Reading, Measuring, Probing, Base
    <2>4. Spread'
      <3> SUFFICES ASSUME case.consistency # "ONE", ~stepped
                   PROVE  \E Q \in Answers(case.consistency) :
                             Q \subseteq up /\ \A n \in Q : cell'[n]["x"].version = 1
        BY <1>1, <1>6 DEF Spread
      <3> QED
        BY <1>1, <1>7 DEF Spread, Acknowledged, Base
    <2>5. Stuck'
      BY <1>1, <2>1 DEF Stuck, Session
    <2>6. Apart'
      BY <1>1, <1>6, <1>7, Names DEF Apart, Session, Written
    <2> QED
      BY <1>6, <2>1, <2>2, <2>3, <2>4, <2>5, <2>6, Going DEF Unwritten, Preparing, Reading
  <1>9. CASE ~ok
    <2>1. PICK e : e = Observed("write", FALSE, "A", "N1", "y", 1, "y:effect",
                                [key |-> "x", min_version |-> 1, write_id |-> "x:cause"])
      OBVIOUS
    <2>2. history' = Append(Caused, e) /\ e.op = "write" /\ e.status = "error"
      BY <1>1, <1>4, <1>9, <2>1 DEF Observed
    <2>3. \A i \in DOMAIN history' :
             /\ history'[i].op \in {"write", "read"}
             /\ history'[i].op = "write" =>
                   history'[i].depends_on = None \/ history'[i].status # "ok"
      <3>1. CASE case.property = MW
        <4>1. PICK w : w = Wrote("A", OtherNode, "x:cause")
          OBVIOUS
        <4>2. w.op = "write" /\ w.depends_on = None
          BY <4>1 DEF Wrote, Observed
        <4>3. history' = << w, e >>
          BY <2>2, <3>1, <4>1, Append2 DEF Caused
        <4> QED
          BY <2>2, <4>2, <4>3
      <3>2. CASE case.property # MW
        <4>1. PICK w, r : /\ w = Wrote("B", OtherNode, "x:cause")
                          /\ r = Observed("read", TRUE, "A", OtherNode, "x", 1, "x:cause", None)
          OBVIOUS
        <4>2. w.op = "write" /\ w.depends_on = None /\ r.op = "read"
          BY <4>1 DEF Wrote, Observed
        <4>3. history' = Append(<< w, r >>, e)
          BY <2>2, <3>2, <4>1 DEF Caused
        <4>4. history' = << w, r, e >>
          BY <4>3, Append3
        <4> QED
          BY <2>2, <4>2, <4>4
      <3> QED
        BY <3>1, <3>2
    <2>4. Check(case.property, history') = "INCONCLUSIVE"
      BY <1>2, <2>3, NoEffectNoVerdict
    <2> QED
      BY <1>1, <1>4, <1>6, <1>9, <2>4, Ending DEF Judge
  <1> QED
    BY <1>8, <1>9

LEMMA ProbeEffectStep ==
  ASSUME Inv, Moved, ProbeEffect
  PROVE  Inv' /\ Real
  <1>1. /\ pc = "probe effect" /\ Probing /\ Measuring /\ Base /\ result = None /\ case' = case
        /\ history = Append(Caused, Effect) /\ ~Session /\ NewId("y") = "y:effect"
        /\ Faulted /\ Apart /\ Stuck /\ Spread /\ "N1" \in isolated
    BY InvBase
       DEF ProbeEffect, Measuring, Probing, Inv, Inv0, Typed, Lab, History, Keep, NewId
  <1>2. PICK ok \in BOOLEAN, S \in SUBSET Node :
             /\ Read("N1", "y", "ONE", S, ok)
             /\ history' = Append(history, Row("N1", "observer", "y", S, ok))
    BY DEF ProbeEffect, ReadOp
  <1>3. pc' = "probe cause" /\ result' = None
    BY <1>1 DEF ProbeEffect, NoResult
  <1>4. /\ Base' /\ Repaired(S, "y") /\ S \subseteq Contacts("N1")
        /\ stepped' = stepped /\ up' = up /\ isolated' = isolated /\ mutations' = mutations
        /\ ok => S # {} /\ S \in Answers("ONE")
    <2>1. "y" \in Key /\ "ONE" \in Levels
      BY Names DEF Levels
    <2> QED
      <3>1. Base /\ Read("N1", "y", "ONE", S, ok)
        BY <1>1, <1>2
      <3> QED
        BY SMTT(40), <2>1, <3>1, ReadBase
  <1>5. S \subseteq {"N1"} /\ cell' = cell
    <2>1. S \subseteq {"N1"}
      BY <1>1, <1>4 DEF Contacts, Reach
    <2> QED
      BY <1>1, <1>2, <2>1, LocalRead, Names DEF Base
  <1>6. PICK r : r = Row("N1", "observer", "y", S, ok)
    OBVIOUS
  <1>7. Returned(r, "N1", "observer", "y", S, ok)
    BY <1>1, <1>4, <1>6, ReadRow, Names
  <1>8. History'
    <2>1. r \in Rows("N1", "observer", "y") /\ (r.version = 1 => cell'["N1"]["y"].version = 1)
      BY <1>5, <1>7 DEF Returned
    <2>2. Rows("N1", "observer", "y")' = Rows("N1", "observer", "y")
      BY <1>1 DEF Rows, NewId, Session
    <2>3. Caused' = Caused /\ Effect' = Effect /\ ~Session'
      BY <1>1 DEF Caused, OtherNode, Effect, Wrote, Session
    <2> QED
      BY <1>1, <1>2, <1>3, <1>6, <2>1, <2>2, <2>3 DEF History, Unwritten, Preparing
  <1>9. Spread'
    BY <1>1, <1>4, RepairedSpread, Names DEF Acknowledged
  <1>10. Lab'
    <2>1. Faulted'
      BY <1>1, <1>3, <1>4 DEF Faulted, Probing
    <2> QED
      BY <1>1, <1>3, <1>4, <2>1 DEF Lab, Preparing, Reading, Measuring, Probing, Base
  <1>11. Stuck' /\ Apart'
    BY <1>1, <1>3, <1>4, <1>5 DEF Stuck, Apart, Session, Measuring
  <1> QED
    BY <1>3, <1>4, <1>8, <1>9, <1>10, <1>11, Going DEF Unwritten, Preparing, Reading

-----------------------------------------------------------------------------
(* The verdicts.                                                             *)
LEMMA SessionReadStep ==
  ASSUME Inv, Moved, SessionRead
  PROVE  Inv' /\ Real
  <1>1. /\ pc = "read" /\ Reading /\ Base /\ result = None /\ case' = case
        /\ pc' = "done" /\ result' = Check(case.property, history')
        /\ History /\ Faulted /\ Apart /\ Stuck /\ Spread
    BY InvBase
       DEF SessionRead, Reading, Inv, Inv0, Typed, Stored, Lab, Keep, Judge
  <1>2. Session /\ case.property \in {RYW, MR} /\ NewId("x") = "x:new"
    BY <1>1 DEF History, Session, Unwritten, Preparing, NewId
  <1>3. PICK ok \in BOOLEAN, S \in SUBSET Node :
             /\ Read(OtherNode, "x", case.consistency, S, ok)
             /\ history' = Append(history, Row(OtherNode, "A", "x", S, ok))
    BY DEF SessionRead, ReadOp
  <1>4. PICK r : r = Row(OtherNode, "A", "x", S, ok)
    OBVIOUS
  <1>5. /\ Base' /\ Spread' /\ stepped' = stepped /\ S \subseteq Contacts(OtherNode)
        /\ Returned(r, OtherNode, "A", "x", S, ok)
        /\ ok => S # {} /\ S \in Answers(case.consistency)
    BY <1>1, <1>3, <1>4, ReadXStep
  <1>6. r \in Rows(OtherNode, "A", "x") /\ (r.status = "ok" <=> ok)
    BY <1>5 DEF Returned
  <1>7. /\ r.status # "ok" => result' = "INCONCLUSIVE"
        /\ r.status = "ok" /\ r.version = 1 => result' = "PASS"
        /\ r.status = "ok" /\ r.version # 1 => result' = "VIOLATION"
    <2>1. CASE case.property = RYW
      <3>1. PICK w : w = Wrote("A", "N1", "x:new")
        OBVIOUS
      <3>2. history' = << w, r >>
        BY <1>1, <1>3, <1>4, <2>1, <3>1, Append2 DEF History, Unwritten, Preparing, RYW, MR
      <3>3. /\ w.op = PriorOp(RYW) /\ w.status = "ok" /\ w.client = "A" /\ w.key = "x"
            /\ w.version = 1
        BY <3>1 DEF Wrote, Observed, PriorOp
      <3>4. DOMAIN history' = 1 .. (1 + 1) /\ history'[1] = w /\ history'[1 + 1] = r
        BY <3>2
      <3> QED
        BY <1>1, <1>6, <2>1, <3>3, <3>4, SessionCase
    <2>2. CASE case.property = MR
      <3>1. PICK w, q : /\ w = Wrote("B", "N1", "x:new")
                        /\ q = Observed("read", TRUE, "A", "N1", "x", 1, "x:new", None)
        OBVIOUS
      <3>2. history = << w, q >>
        BY <1>1, <2>2, <3>1 DEF History, Unwritten, Preparing, RYW, MR
      <3>3. history' = << w, q, r >>
        BY <1>3, <1>4, <3>2, Append3
      <3>4. /\ q.op = PriorOp(MR) /\ q.status = "ok" /\ q.client = "A" /\ q.key = "x"
            /\ q.version = 1 /\ w.op = "write" /\ w.status = "ok"
        BY <3>1 DEF Wrote, Observed, PriorOp, RYW, MR, MW
      <3>5. /\ DOMAIN history' = 1 .. (2 + 1) /\ history'[1] = w /\ history'[2] = q
            /\ history'[2 + 1] = r
        BY <3>3
      <3> QED
        BY <1>1, <1>6, <2>2, <3>4, <3>5, SessionCase
    <2> QED
      BY <1>2, <2>1, <2>2
  <1>8. result' \in Verdicts
    BY <1>7 DEF Verdicts
  <1>9. result' = "VIOLATION" => ok /\ \A m \in S : cell[m]["x"].version = 0 \/ stepped
    <2> SUFFICES ASSUME result' = "VIOLATION" PROVE ok /\ \A m \in S : cell[m]["x"].version = 0 \/ stepped
      OBVIOUS
    <2>1. ok /\ r.version # 1
      BY <1>6, <1>7
    <2>2. \A m \in S : cell[m]["x"].version \in {0, 1}
      BY <1>1, Names DEF Base, Versions
    <2> QED
      BY <1>5, <2>1, <2>2 DEF Returned
  <1>10. Real
    <2> SUFFICES ASSUME result' = "VIOLATION" PROVE \E n \in Node : cell[n]["x"].version < 1
      BY <1>2 DEF Real
    <2>1. ok /\ r.version # 1 /\ S # {}
      BY <1>5, <1>6, <1>7
    <2>2. Newest(S, "x").version # 1
      BY <1>5, <2>1 DEF Returned
    <2>3. PICK m \in S : Newest(S, "x") = cell[m]["x"]
      BY <1>1, <2>1, NewestIs, Names DEF Base
    <2>4. cell[m]["x"].version = 0
      BY <1>1, <2>2, <2>3, Names DEF Base, Versions
    <2> QED
      BY <2>4
  <1>11. Results'
    <2>1. RecordedIsReplayed'
      BY <1>1 DEF RecordedIsReplayed
    <2>2. case.scenario = "node_stop" /\ case.consistency = "ALL" => FALSE
      BY <1>1 DEF Stuck
    <2>3. ASSUME case.scenario = "partition" PROVE r.version # 1
      <3>1. S \subseteq {"N3"}
        BY <1>1, <1>5, <2>3 DEF Contacts, Reach, OtherNode, Faulted, Probing, Reading
      <3>2. cell["N3"]["x"].version = 0
        BY <1>1, <1>2, <2>3 DEF Apart
      <3> QED
        BY <1>5, <3>1, <3>2 DEF Returned
    <2>4. ASSUME case.scenario = "partition", case.consistency # "ONE" PROVE ~ok
      <3> SUFFICES ASSUME ok PROVE FALSE
        OBVIOUS
      <3>1. S \subseteq {"N3"} /\ S \in Answers(case.consistency)
        BY <1>1, <1>5, <2>4 DEF Contacts, Reach, OtherNode, Faulted, Probing, Reading
      <3>2. CASE case.consistency = "ALL"
        BY <3>1, <3>2, Names DEF Answers
      <3>3. CASE case.consistency = "QUORUM"
        BY <3>1, <3>3, QuorumAssumption, Names DEF Answers
      <3> QED
        BY <1>1, <2>4, <3>2, <3>3 DEF Base, Cases, Levels
    <2>5. ASSUME case.consistency \in {"QUORUM", "ALL"}, ~stepped PROVE result' # "VIOLATION"
      <3> SUFFICES ASSUME result' = "VIOLATION" PROVE FALSE
        OBVIOUS
      <3>1. S \in Answers(case.consistency) /\ \A m \in S : cell[m]["x"].version = 0
        BY <1>5, <1>9, <2>5
      <3>2. PICK Q \in Answers(case.consistency) : \A m \in Q : cell[m]["x"].version = 1
        BY <1>1, <2>5 DEF Spread, Acknowledged
      <3>3. S \cap Q # {}
        BY <2>5, <3>1, <3>2, QuorumAssumption, Names DEF Answers
      <3> QED
        BY <3>1, <3>2, <3>3
    <2>6. FaultDecides' \/ stepped'
      BY <1>1, <1>5, <1>6, <1>7, <2>2, <2>3, <2>4, <2>5 DEF FaultDecides
    <2> QED
      BY <1>1, <1>5, <2>1, <2>5, <2>6 DEF Results, Session
  <1> QED
    BY <1>1, <1>5, <1>8, <1>10, <1>11, Done

LEMMA ProbedHistory ==
  ASSUME NEW a, NEW e, NEW f, NEW g, NEW q
  PROVE  Append(Append(<< a >>, e), f) \o << g, q >> = << a, e, f, g, q >>
  <1>1. Append(Append(<< a >>, e), f) = << a, e, f >>
    <2>1. Append(<< a >>, e) = << a, e >>
      BY Append2
    <2> QED
      BY <2>1, Append3
  <1> DEFINE T == {a, e, f, g, q}
  <1>2. << a, e, f >> \in Seq(T) /\ << g, q >> \in Seq(T) /\ << a, e, f, g, q >> \in Seq(T)
    OBVIOUS
  <1>3. \A i \in 1 .. 5 : (<< a, e, f >> \o << g, q >>)[i] = << a, e, f, g, q >>[i]
    BY <1>2
  <1>4. << a, e, f >> \o << g, q >> \in Seq(T) /\ Len(<< a, e, f >> \o << g, q >>) = 5
        /\ Len(<< a, e, f, g, q >>) = 5
    BY <1>2
  <1> HIDE DEF T
  <1>5. << a, e, f >> \o << g, q >> = << a, e, f, g, q >>
    BY <1>2, <1>3, <1>4, SeqEqual, Zenon
  <1> QED
    BY <1>1, <1>5

LEMMA ProbedHistory2 ==
  ASSUME NEW w, NEW a, NEW e, NEW f, NEW g, NEW q
  PROVE  Append(Append(<< w, a >>, e), f) \o << g, q >> = << w, a, e, f, g, q >>
  <1>1. Append(Append(<< w, a >>, e), f) = << w, a, e, f >>
    <2>1. Append(<< w, a >>, e) = << w, a, e >>
      BY Append3
    <2> QED
      BY <2>1, Append4
  <1> DEFINE T == {w, a, e, f, g, q}
  <1>2. /\ << w, a, e, f >> \in Seq(T) /\ << g, q >> \in Seq(T)
        /\ << w, a, e, f, g, q >> \in Seq(T)
    OBVIOUS
  <1>3. \A i \in 1 .. 6 : (<< w, a, e, f >> \o << g, q >>)[i] = << w, a, e, f, g, q >>[i]
    BY <1>2
  <1>4. /\ << w, a, e, f >> \o << g, q >> \in Seq(T) /\ Len(<< w, a, e, f >> \o << g, q >>) = 6
        /\ Len(<< w, a, e, f, g, q >>) = 6
    BY <1>2
  <1> HIDE DEF T
  <1>5. << w, a, e, f >> \o << g, q >> = << w, a, e, f, g, q >>
    BY <1>2, <1>3, <1>4, SeqEqual, Zenon
  <1> QED
    BY <1>1, <1>5

LEMMA ProbeCauseStep ==
  ASSUME Inv, Moved, ProbeCause
  PROVE  Inv' /\ Real
  <1>1. /\ pc = "probe cause" /\ Probing /\ Measuring /\ Base /\ result = None /\ case' = case
        /\ pc' = "done" /\ result' = Check(case.property, history')
        /\ ~Session /\ NewId("y") = "y:effect" /\ NewId("x") = "x:cause"
        /\ Faulted /\ Apart /\ Stuck /\ Spread /\ "N1" \in isolated
    BY InvBase
       DEF ProbeCause, Measuring, Probing, Inv, Inv0, Typed, Lab, History, Keep, Judge, NewId
  <1>2. PICK f \in Rows("N1", "observer", "y") :
             /\ history = Append(Append(Caused, Effect), f)
             /\ f.version = 1 => cell["N1"]["y"].version = 1
    BY <1>1 DEF Inv, History
  <1>3. Last = f
    <2>1. CASE case.property = MW
      <3>1. history = << Wrote("A", OtherNode, "x:cause"), Effect, f >>
        <4>1. Append(Caused, Effect) = << Wrote("A", OtherNode, "x:cause"), Effect >>
          BY <2>1, Append2 DEF Caused
        <4> QED
          BY <1>2, <4>1, Append3
      <3> QED
        BY <3>1 DEF Last
    <2>2. CASE case.property # MW
      <3>1. PICK w, r : Caused = << w, r >>
        BY <2>2 DEF Caused
      <3>2. Append(Caused, Effect) \in Seq({w, r, Effect, f}) /\ Len(Append(Caused, Effect)) = 3
        BY <3>1, Append3
      <3>3. Len(history) = 4 /\ history[4] = f
        BY <1>2, <3>2
      <3> QED
        BY <3>3 DEF Last
    <2> QED
      BY <2>1, <2>2
  <1>0. PICK ok \in BOOLEAN, S \in SUBSET Node :
             \E g : /\ g = Row("N1", "observer", "x", S, ok)
                   /\ Read("N1", "x", "ONE", S, ok)
                   /\ history' = history \o << g, ProbeEvent(f, g) >>
    BY <1>3, Zenon DEF ProbeCause
  <1>4. PICK g : /\ g = Row("N1", "observer", "x", S, ok)
                 /\ Read("N1", "x", "ONE", S, ok)
                 /\ history' = history \o << g, ProbeEvent(f, g) >>
    BY <1>0, Zenon
  <1>5. /\ Base' /\ Repaired(S, "x") /\ S \subseteq Contacts("N1")
        /\ stepped' = stepped /\ up' = up /\ isolated' = isolated /\ mutations' = mutations
        /\ ok => S # {} /\ S \in Answers("ONE")
    <2>1. "x" \in Key /\ "ONE" \in Levels
      BY Names DEF Levels
    <2>2. Base
      BY <1>1
    <2>3. Read("N1", "x", "ONE", S, ok)
      BY <1>4
    <2>4. /\ Base' /\ Repaired(S, "x") /\ S \in SUBSET Node /\ S \subseteq Contacts("N1")
          /\ stepped' = stepped /\ up' = up /\ isolated' = isolated /\ mutations' = mutations
          /\ ok => S # {} /\ S \in Answers("ONE")
      BY <2>1, <2>2, <2>3, ReadBase, Zenon
    <2> QED
      BY <2>4
  <1>6. S \subseteq {"N1"} /\ (S # {} => Newest(S, "x") = cell["N1"]["x"])
    <2>1. S \subseteq {"N1"}
      BY <1>1, <1>5 DEF Contacts, Reach
    <2> QED
      BY <1>1, <1>4, <2>1, LocalRead, Names DEF Base
  <1>7. Returned(g, "N1", "observer", "x", S, ok)
    BY <1>1, <1>4, <1>5, ReadRow, Names
  <1>8. /\ g \in Rows("N1", "observer", "x") /\ (g.status = "ok" <=> ok)
        /\ ok => (g.version = 1 <=> cell["N1"]["x"].version = 1)
    BY <1>5, <1>6, <1>7 DEF Returned
  <1>9. case.property \in {MW, WFR}
    BY <1>1 DEF Base, Cases, Session, Properties
  <1>10. /\ ~(f.version = 1 /\ g.status = "ok") => result' = "INCONCLUSIVE"
         /\ f.version = 1 /\ g.status = "ok" /\ g.version = 1 => result' = "PASS"
         /\ f.version = 1 /\ g.status = "ok" /\ g.version # 1 => result' = "VIOLATION"
    <2>1. PICK q : q = ProbeEvent(f, g)
      OBVIOUS
    <2>2. CASE case.property = MW
      <3>1. PICK w : w = Wrote("A", OtherNode, "x:cause")
        OBVIOUS
      <3>2. history' = << w, Effect, f, g, q >>
        BY <1>2, <1>4, <2>1, <2>2, <3>1, ProbedHistory DEF Caused
      <3>3. /\ w.op = PriorOp(MW) /\ w.status = "ok" /\ w.client = "A" /\ w.key = "x"
            /\ w.version = 1 /\ w.write_id = "x:cause" /\ w.op = "write" /\ w.depends_on = None
        BY <3>1 DEF Wrote, Observed, PriorOp
      <3>4. /\ DOMAIN history' = 1 .. (2 + 3) /\ history'[2 - 1] = w /\ history'[1] = w
            /\ history'[2] = Effect
            /\ history'[2 + 1] = f /\ history'[2 + 2] = g /\ history'[2 + 3] = q
        BY <3>2
      <3> QED
        BY ZenonT(40), <1>1, <1>8, <2>1, <2>2, <3>3, <3>4, ProbeCase
    <2>3. CASE case.property = WFR
      <3>1. PICK w, r : /\ w = Wrote("B", OtherNode, "x:cause")
                        /\ r = Observed("read", TRUE, "A", OtherNode, "x", 1, "x:cause", None)
        OBVIOUS
      <3>2. Caused = << w, r >>
        BY <2>3, <3>1 DEF Caused, MW, WFR
      <3>3. history' = << w, r, Effect, f, g, q >>
        BY <1>2, <1>4, <2>1, <3>2, ProbedHistory2
      <3>4. /\ r.op = PriorOp(WFR) /\ r.status = "ok" /\ r.client = "A" /\ r.key = "x"
            /\ r.version = 1 /\ r.write_id = "x:cause"
            /\ w.op = "write" /\ w.status = "ok" /\ w.depends_on = None
        BY <3>1 DEF Wrote, Observed, PriorOp, RYW, MW, WFR
      <3>5. /\ DOMAIN history' = 1 .. (3 + 3) /\ history'[3 - 1] = r /\ history'[1] = w
            /\ history'[3] = Effect
            /\ history'[3 + 1] = f /\ history'[3 + 2] = g /\ history'[3 + 3] = q
        BY <3>3
      <3>6. (3 = 2) <=> (WFR = MW)
        BY DEF MW, WFR
      <3>7. WFR \in {MW, WFR} /\ 3 \in {2, 3}
        OBVIOUS
      <3> QED
        <4>1. PICK h : h = history'
          OBVIOUS
        <4>2. /\ ~(f.version = 1 /\ g.status = "ok") => Check(WFR, h) = "INCONCLUSIVE"
              /\ f.version = 1 /\ g.status = "ok" /\ g.version = 1 => Check(WFR, h) = "PASS"
              /\ f.version = 1 /\ g.status = "ok" /\ g.version # 1 => Check(WFR, h) = "VIOLATION"
          BY ZenonT(40), <1>1, <1>8, <2>1, <3>4, <3>5, <3>6, <3>7, <4>1, ProbeCase
        <4> QED
          BY <1>1, <2>3, <4>1, <4>2
    <2> QED
      BY <1>9, <2>2, <2>3
  <1>11. result' \in Verdicts
    BY <1>10 DEF Verdicts
  <1>12. Real
    <2> SUFFICES ASSUME result' \in {"PASS", "VIOLATION"}
                 PROVE  /\ cell["N1"]["y"].write_id = "y:effect"
                        /\ result' = "PASS" <=> cell["N1"]["x"].write_id = "x:cause"
      BY <1>1 DEF Real
    <2>1. f.version = 1 /\ g.status = "ok" /\ (result' = "PASS" <=> g.version = 1)
      BY <1>10
    <2>2. PICK s \in [Key -> Int] : CellsGood(s)
      BY <1>1 DEF Base
    <2>3. /\ Good(s, "y", cell["N1"]["y"]) /\ Good(s, "x", cell["N1"]["x"])
      BY <2>2, Names DEF CellsGood
    <2> QED
      BY <1>1, <1>2, <1>8, <2>1, <2>3 DEF Good
  <1>13. Spread'
    BY <1>1, <1>5, RepairedSpread, Names DEF Acknowledged
  <1>14. Results'
    <2>1. RecordedIsReplayed'
      BY <1>1 DEF RecordedIsReplayed
    <2>2. ~(case.scenario = "node_stop" /\ case.consistency = "ALL")
          /\ ~(case.scenario = "partition" /\ case.consistency # "ONE")
      BY <1>1 DEF Stuck
    <2>3. case.scenario = "partition" => cell["N1"]["x"].version = 0
      BY <1>1 DEF Apart
    <2>4. case.scenario = "partition" => result' # "PASS"
      BY <1>8, <1>10, <2>3
    <2>5. ASSUME case.consistency = "ALL" \/ (case.consistency = "QUORUM" /\ case.scenario = "node_stop"),
                 ~stepped
          PROVE  result' # "VIOLATION"
      <3>1. PICK Q \in Answers(case.consistency) :
               Q \subseteq up /\ \A n \in Q : cell[n]["x"].version = 1
        BY <1>1, <2>5 DEF Spread, Acknowledged
      <3>2. "N1" \in Q
        <4>1. CASE case.consistency = "ALL"
          BY <3>1, <4>1, Names DEF Answers
        <4>2. CASE case.consistency = "QUORUM" /\ case.scenario = "node_stop"
          <5>1. up = {"N1", "N2"}
            BY <1>1, <4>2, Names DEF Faulted
          <5>2. Q \in Quorum
            BY <3>1, <4>2 DEF Answers
          <5>3. Q # {} /\ Q # {"N2"}
            BY <5>2, QuorumAssumption, Names
          <5> QED
            BY <3>1, <5>1, <5>3
        <4> QED
          BY <2>5, <4>1, <4>2
      <3> QED
        BY <1>8, <1>10, <3>1, <3>2
    <2>6. FaultDecides' \/ stepped'
      BY <1>1, <1>5, <2>2, <2>4, <2>5 DEF FaultDecides
    <2> QED
      BY <1>1, <1>5, <2>1, <2>5, <2>6 DEF Results, Session
  <1> QED
    BY <1>1, <1>5, <1>11, <1>12, <1>13, <1>14, Done

-----------------------------------------------------------------------------
(* Initially nothing has been written.                                       *)
LEMMA InvInit ==
  ASSUME ClockInit
  PROVE  Inv
  <1>1. /\ cell = [n \in Node |-> [k \in Key |-> NoCell]] /\ mutations = {}
        /\ up = Node /\ isolated = {} /\ clock = 0 /\ case \in Cases /\ stepped = FALSE
        /\ pc = "prepare x" /\ history = << >> /\ result = None
    BY DEF ClockInit, Init, ClusterInit
  <1>2. NoCell \in Versions /\ NoCell.version = 0 /\ NoCell.ts = -1000 /\ NoCell.write_id = None
    BY Names DEF NoCell, Versions
  <1>3. \A k \in Key : NewId(k) # None
    BY NewIdIs, NoneIs, NoneIsNoValue
  <1>4. cell \in [Node -> [Key -> Versions]] /\ \A n \in Node, k \in Key : cell[n][k] = NoCell
    BY ZenonT(40), <1>1, <1>2
  <1>5. PICK s \in [Key -> Int] : \A k \in Key : s[k] = 0
    <2>1. [k \in Key |-> 0] \in [Key -> Int]
      OBVIOUS
    <2> QED
      BY <2>1
  <1>6. \A k \in Key : Good(s, k, NoCell)
    <2> TAKE k \in Key
    <2>1. NoCell.version = 1 <=> NoCell.write_id = NewId(k)
      BY <1>2, <1>3
    <2>2. ~(NoCell.version = 1)
      BY <1>2
    <2>3. NoCell.ts <= clock /\ NoCell.ts < s[k]
      <3>1. -1000 <= 0 /\ -1000 < 0
        OBVIOUS
      <3>2. clock = 0 /\ s[k] = 0 /\ NoCell.ts = -1000
        <4>1. clock = 0
          BY <1>1, Zenon
        <4>2. s[k] = 0
          BY <1>5
        <4> QED
          BY <1>2, <4>1, <4>2
      <3> QED
        BY <3>1, <3>2
    <2> QED
      BY <1>2, <2>1, <2>2, <2>3 DEF Good
  <1>7. CellsGood(s)
    BY <1>1, <1>4, <1>6 DEF CellsGood
  <1>8. Untouched("x") /\ Untouched("y")
    BY ZenonT(40), <1>1, <1>2, <1>4, Names DEF Untouched
  <1>9. Typed /\ Stored /\ Lab
    <2>1. Typed
      <3>1. stepped \in BOOLEAN
        BY <1>1
      <3>2. clock \in Int /\ clock >= 0
        <4>1. clock = 0
          BY <1>1, Zenon
        <4> QED
          BY <4>1
      <3>3. result \in Verdicts \union {None} /\ (result # None <=> pc = "done")
        BY <1>1
      <3> QED
        BY <1>1, <3>1, <3>2, <3>3 DEF Typed
    <2>2. Stored
      BY <1>4, <1>7, <1>8 DEF Stored
    <2>3. Lab
      BY <1>1 DEF Lab, Preparing, Reading, Measuring, Probing
    <2> QED
      BY <2>1, <2>2, <2>3
  <1>10. History /\ Spread /\ Apart /\ Stuck
    BY <1>1, NoneIsNoVerdict
       DEF History, Spread, Acknowledged, Apart, Stuck, Unwritten, Preparing, Reading,
           Measuring, Probing
  <1>11. Results
    BY <1>1, NoneIsNoVerdict DEF Results, RecordedIsReplayed, FaultDecides
  <1> QED
    BY <1>9, <1>10, <1>11 DEF Inv, Inv0

(* Every step of the case or of the cluster.                                 *)
LEMMA InvNext ==
  ASSUME Inv, [ClockNext]_<<vars, stepped>>
  PROVE  Inv' /\ Real
  <1>1. CASE UNCHANGED <<vars, stepped>>
    <2>1. /\ UNCHANGED clusterVars /\ UNCHANGED trialVars /\ stepped' = stepped
          /\ clock' = clock /\ cell' = cell /\ mutations' = mutations /\ up' = up
          /\ isolated' = isolated /\ pc' = pc /\ case' = case /\ history' = history
          /\ result' = result
      BY <1>1 DEF vars, clusterVars, trialVars
    <2>0. Real
      BY <2>1, NoneIsNoVerdict DEF Real
    <2>2. Typed'
      BY <2>1 DEF Inv, Inv0, Typed
    <2>3. Results'
      BY <2>1 DEF Inv, Results, RecordedIsReplayed, FaultDecides, Session
    <2>4. CASE pc = "failed"
      <3>1. pc' = "failed"
        BY <2>1, <2>4
      <3> QED
        BY <2>0, <2>2, <2>3, <3>1 DEF Inv, Inv0
    <2>5. CASE pc # "failed"
      <3>1. Moved
        <4>1. ~(clock' < clock)
          <5>1. clock \in Int
            BY DEF Inv, Inv0, Typed
          <5> QED
            BY <2>1, <5>1
        <4>2. stepped \in BOOLEAN
          BY DEF Inv, Inv0, Typed
        <4> QED
          BY <2>1, <4>1, <4>2, Zenon DEF Moved
      <3>2. Base'
        BY <2>1, <2>5, <3>1, InvBase, FaultBase, Names
      <3>3. Stored'
        BY <2>1, <2>5, <3>2
           DEF Base, Inv, Inv0, Stored, Unwritten, Preparing, Reading, Untouched
      <3>4. Lab'
        BY <2>1, <2>5 DEF Inv, Inv0, Lab, Faulted, Preparing, Reading, Measuring, Probing
      <3>5. History'
        <4>1. Caused' = Caused /\ Effect' = Effect /\ Session' = Session
          BY <2>1 DEF Caused, OtherNode, Wrote, Effect, Session
        <4>2. Rows("N1", "observer", "y")' = Rows("N1", "observer", "y")
          BY <2>1 DEF Rows, NewId, Session
        <4>3. History
          BY <2>5 DEF Inv
        <4>4. CASE pc = "probe cause"
          BY <2>1, <4>1, <4>2, <4>3, <4>4 DEF History, Unwritten, Preparing
        <4>5. CASE pc # "probe cause"
          BY <2>1, <4>1, <4>3, <4>5 DEF History, Unwritten, Preparing, OtherNode, Wrote
        <4> QED
          BY <4>4, <4>5
      <3>6. Spread' /\ Apart' /\ Stuck'
        BY <2>1, <2>5
           DEF Inv, Spread, Apart, Stuck, Acknowledged, Session, Reading, Measuring, Probing
      <3> QED
        BY <2>0, <2>2, <2>3, <3>3, <3>4, <3>5, <3>6, Zenon DEF Inv, Inv0
    <2> QED
      BY <2>4, <2>5
  <1>2. CASE ClockNext
    <2>1. stepped' = (stepped \/ clock' < clock)
      BY <1>2 DEF ClockNext
    <2>2. CASE Deliver /\ UNCHANGED trialVars
      <3>1. Moved
        BY <2>1, <2>2 DEF Moved, trialVars
      <3> QED
        BY <2>2, <3>1, DeliverStep
    <2>3. CASE Run
      <3>1. Moved
        BY <2>1, <2>3
           DEF Moved, Run, PrepareWrite, PrepareVerify, Inject, WriteNew, FirstRead, SessionRead,
               WriteCause, ReadCause, WriteEffect, Measure, ProbeEffect, ProbeCause, Keep
      <3>2. CASE PrepareWrite("x", "x:initial", "prepare x", "prepare y")
        BY <3>1, <3>2, PrepareWriteStep, Names
      <3>3. CASE PrepareWrite("y", "y:initial", "prepare y", "verify")
        BY <3>1, <3>3, PrepareWriteStep, Names
      <3> QED
        BY <2>3, <3>1, <3>2, <3>3, PrepareVerifyStep, InjectStep, WriteNewStep, FirstReadStep,
           SessionReadStep, WriteCauseStep, ReadCauseStep, WriteEffectStep, MeasureStep,
           ProbeEffectStep, ProbeCauseStep
           DEF Run
    <2> QED
      BY <1>2, <2>2, <2>3 DEF ClockNext, Next
  <1> QED
    BY <1>1, <1>2

LEMMA Invariance == ClockSpec => []Inv
  <1>1. ClockInit => Inv
    BY InvInit
  <1>2. Inv /\ [ClockNext]_<<vars, stepped>> => Inv'
    BY InvNext
  <1> QED
    BY <1>1, <1>2, PTL DEF ClockSpec

(* Whatever is late, lost or unanswered and whatever the clock does, the     *)
(* status a case recorded (by the workload itself on two paths) is what the  *)
(* checker answers for its whole history (summarize_completed.py).           *)
THEOREM Replayed == ClockSpec => []RecordedIsReplayed
  <1>1. Inv => RecordedIsReplayed
    BY DEF Inv, Results
  <1> QED
    BY <1>1, Invariance, PTL

(* For any quorums that intersect and none of which is a single node: while  *)
(* the timestamps of the client increase, sessions at QUORUM and everything  *)
(* at ALL are never violated, and after a dependency case at QUORUM or ALL   *)
(* every quorum has a replica with the cause.                                *)
THEOREM LevelsHold == ClockSpec => []LevelsWhileMonotone
  <1>1. Inv => LevelsWhileMonotone
    <2> SUFFICES ASSUME Inv, ~stepped
                 PROVE  StrongLevelsHold /\ QuorumGapIsLocal
      BY DEF LevelsWhileMonotone
    <2>1. StrongLevelsHold
      BY DEF Inv, Results, StrongLevelsHold
    <2>2. QuorumGapIsLocal
      <3> SUFFICES ASSUME case.consistency \in {"QUORUM", "ALL"}, ~Session,
                          pc \in {"measure", "probe effect", "probe cause"}
                             \/ result = "VIOLATION",
                          NEW Q \in Quorum
                   PROVE  \E n \in Q : cell[n]["x"].write_id = "x:cause"
        BY DEF QuorumGapIsLocal
      <3>1. pc # "failed" /\ Acknowledged
        <4>1. result = "VIOLATION" => pc = "done"
          BY NoneIsNoVerdict DEF Inv, Inv0, Typed
        <4> QED
          BY <4>1 DEF Acknowledged, Measuring, Probing
      <3>2. PICK R \in Answers(case.consistency) : \A n \in R : cell[n]["x"].version = 1
        BY <3>1 DEF Inv, Spread
      <3>3. PICK n \in R : n \in Q
        <4>1. Q \subseteq Node /\ Q # {}
          BY QuorumAssumption
        <4>2. R = Node \/ R \in Quorum
          BY <3>2 DEF Answers
        <4> QED
          <5>1. R \cap Q # {}
            BY <4>1, <4>2, QuorumAssumption
          <5> QED
            BY <5>1
      <3>4. PICK s \in [Key -> Int] : CellsGood(s)
        BY <3>1 DEF Inv, Inv0, Stored
      <3>5. n \in Node /\ "x" \in Key
        BY <3>3, QuorumAssumption, Names
      <3>6. Good(s, "x", cell[n]["x"]) /\ cell[n]["x"].version = 1
        BY <3>2, <3>4, <3>5 DEF CellsGood
      <3>7. NewId("x") = "x:cause"
        BY DEF NewId
      <3> QED
        BY <3>3, <3>6, <3>7 DEF Good
    <2> QED
      BY <2>1, <2>2
  <1> QED
    BY <1>1, Invariance, PTL

(* While the timestamps of the client increase: a partition at ONE never     *)
(* passes, a partition above ONE and a stopped node at ALL decide nothing,   *)
(* and a stopped node at QUORUM gives no violation, as prediction() says of  *)
(* these faults.  It says so of a stopped node at ONE too, which is not so   *)
(* (NoViolationExpected is refuted by a run).                                *)
THEOREM FaultsDecide == ClockSpec => []DecidedWhileMonotone
  <1>1. Inv => DecidedWhileMonotone
    BY DEF Inv, Results, DecidedWhileMonotone
  <1> QED
    BY <1>1, Invariance, PTL

(* A verdict is true of what the replicas store when it is recorded: a       *)
(* violated session has a replica without the acknowledged write, and a      *)
(* dependency case passes just when N1 stores the cause of the effect it     *)
(* exposes (trial.workload(), trial.probe()).                                *)
THEOREM Verdict == ClockSpec => VerdictIsReal
  <1>1. Inv /\ [ClockNext]_<<vars, stepped>> =>
           [result = None /\ result' \in {"PASS", "VIOLATION"} =>
              /\ Session /\ result' = "VIOLATION" =>
                    \E n \in Node : cell[n]["x"].version < 1
              /\ ~Session =>
                    /\ cell["N1"]["y"].write_id = "y:effect"
                    /\ result' = "PASS" <=> cell["N1"]["x"].write_id = "x:cause"]_vars
    BY InvNext, Zenon DEF Real
  <1> QED
    BY <1>1, Invariance, PTL DEF ClockSpec, VerdictIsReal
===============================================================================
