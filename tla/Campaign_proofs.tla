---------------------------- MODULE Campaign_proofs ----------------------------
(***************************************************************************)
(* The independent campaign, for every number of cases and of signals: the *)
(* workload meets the planned fault, no record is rejected, a verified     *)
(* recovery is real and completion.json is honest.                         *)
(*                                                                         *)
(* One invariant carries all four.  It says how far the current procedure  *)
(* has come and what the steps behind it have made sure of, and that a     *)
(* step can only be abandoned where the failure is kept.                   *)
(***************************************************************************)
EXTENDS Campaign, TLAPS

Facts == INSTANCE FiniteSetTheorems

StepSet == [do : {"start", "heal", "healthy", "peer_tcp", "settle_views",
                  "isolate", "verify_isolation", "stop"},
            node : Node \cup {"none"}]

Meta == [evidence : BOOLEAN, recovered : BOOLEAN]
Good(m) == m.evidence /\ m.recovered

Typed ==
    /\ lab \in [Node -> Condition] /\ abandoned \subseteq StepSet /\ signals \in Nat
    /\ todo \in Seq(StepSet)
    /\ case \in [scenario : Scenarios, dependency : BOOLEAN]
    /\ data \in {"fresh", "initial", "mixed", "partial"}
    /\ settled \in BOOLEAN /\ probed \in BOOLEAN
    /\ failure \in {"none", "raised", "escaping"}
    /\ meta \in Meta /\ summaries \in Seq(Meta)
    /\ progress \in [status : {"running", "failed", "complete"}, completed : Nat]
    /\ completion \in {"none", "incomplete", "complete"}
    /\ pc \in {"next case", "preflight", "prepare", "inject", "workload", "measure",
               "export", "exported", "except", "recover", "save", "saved", "ended", "died"}

(* What is left to do is the end of the plan.                                *)
Left(plan) ==
    /\ Len(todo) <= Len(plan)
    /\ \A i \in 1 .. Len(todo) : todo[i] = plan[Len(plan) - Len(todo) + i]

OnPlan ==
    /\ pc = "preflight" => Left(Preflight)
    /\ pc = "inject"    => Left(Injection(case.scenario))
    /\ pc = "measure"   => Left(Measurement)
    /\ pc = "recover"   => Left(Recovery)
    /\ pc \notin {"preflight", "inject", "measure", "recover"} => todo = << >>

(* A node is open unless a step that was abandoned may have changed it.      *)
Fixed(m) == lab[m] = "open" \/ \E s \in abandoned : s.node = m
AllFixed == \A m \in Node : Fixed(m)
AllOpen == \A m \in Node : lab[m] = "open"

(* The two checks of the internode ports come last but one in the preflight  *)
(* and last in the recovery.                                                 *)
LabAsPlanned ==
    /\ pc = "preflight" => /\ Len(todo) <= 2 => lab["N1"] = "open" /\ lab["N2"] = "open"
                           /\ Len(todo) <= 1 => AllOpen
    /\ pc = "prepare" => AllOpen
    /\ pc = "inject" => \/ Len(todo) = Len(Injection(case.scenario)) /\ AllOpen
                        \/ Len(todo) < Len(Injection(case.scenario)) /\ lab = Faulty(case.scenario)
    /\ pc = "workload" => lab = Faulty(case.scenario)
    /\ pc = "measure" => lab = IF Len(todo) = 3 THEN Faulty(case.scenario)
                               ELSE [Faulty(case.scenario) EXCEPT !["N1"] = "blocked"]
    /\ pc = "recover" => /\ Len(todo) <= 1 => Fixed("N1") /\ Fixed("N2")
                         /\ Len(todo) = 0 => AllFixed
    /\ meta.recovered => AllFixed

Injected3 == <<"verified_isolation", "N3">>
Stopped3 == <<"stop", "N3">>
Cut1 == <<"verified_isolation", "N1">>

(* The proofs of the fault and of the probe are there once their steps are   *)
(* behind.                                                                   *)
Proved ==
    /\ pc = "prepare" => data = "fresh"
    /\ pc \in {"inject", "workload", "measure", "export"} => data = "initial"
    /\ pc \in {"workload", "measure", "export"} \/ (pc = "inject" /\ Len(todo) <= 1) =>
          /\ case.scenario = "partition" => Injected3 \in controls
          /\ case.scenario = "node_stop" => Stopped3 \in controls
    /\ pc = "measure" /\ Len(todo) <= 1 => Cut1 \in controls
    /\ probed => Cut1 \in controls
    /\ pc = "recover" /\ Len(todo) <= 2 => settled

Failures ==
    /\ abandoned # {} => failure # "none"
    /\ InTry \/ pc = "next case" => failure = "none"
    /\ pc = "except" => failure = "raised"
    /\ pc = "exported" \/ (pc = "recover" /\ failure = "none") => meta.evidence
    /\ pc \in {"save", "saved"} /\ failure = "none" => Good(meta)
    /\ meta.evidence => /\ pc \notin {"preflight", "prepare", "inject", "workload", "measure", "export"}
                        /\ Evidence
    /\ meta.recovered => /\ pc \in {"next case", "save", "saved", "ended", "died"}
                         /\ settled

Files ==
    /\ pc \notin {"saved", "ended", "died"} =>
          \A i \in 1 .. Len(summaries) : Good(summaries[i])
    /\ pc = "saved" =>
          /\ Len(summaries) > 0 /\ summaries[Len(summaries)] = meta
          /\ \A i \in 1 .. Len(summaries) - 1 : Good(summaries[i])
          /\ progress.status = "failed" => failure # "none"
          /\ Len(summaries) = Total /\ failure = "none" => progress.status = "complete"
    /\ pc = "next case" =>
          /\ progress.status # "failed"
          /\ Len(summaries) > 0 => meta.recovered
          /\ Len(summaries) = Total => progress.status = "complete"
    /\ progress.completed <= Verified(summaries)
    /\ pc = "ended" /\ progress.status = "failed" => completion = "incomplete"
    /\ completion = "complete" =>
          /\ pc = "ended" /\ AllOpen /\ abandoned = {} /\ progress.status = "complete"
          /\ Len(summaries) = Total /\ \A i \in 1 .. Len(summaries) : Good(summaries[i])
    /\ pc \notin {"ended", "died"} => completion = "none"

Inv == Typed /\ OnPlan /\ LabAsPlanned /\ Proved /\ Failures /\ Files

-----------------------------------------------------------------------------
(* The procedures, step by step *)

LEMMA StepTyped ==
  ASSUME NEW m \in Node \cup {"none"}
  PROVE  /\ Do("start", m) \in StepSet /\ Do("heal", m) \in StepSet
         /\ Do("healthy", m) \in StepSet /\ Do("peer_tcp", m) \in StepSet
         /\ Do("settle_views", m) \in StepSet /\ Do("isolate", m) \in StepSet
         /\ Do("verify_isolation", m) \in StepSet /\ Do("stop", m) \in StepSet
  BY DEF Do, StepSet

LEMMA WithOne ==
  ASSUME NEW s \in Seq(StepSet), NEW x \in StepSet
  PROVE  /\ s \o <<x>> \in Seq(StepSet) /\ Len(s \o <<x>>) = Len(s) + 1
         /\ \A i \in 1 .. Len(s) : (s \o <<x>>)[i] = s[i]
         /\ (s \o <<x>>)[Len(s) + 1] = x
  OBVIOUS

LEMMA WithTwo ==
  ASSUME NEW s \in Seq(StepSet), NEW x \in StepSet, NEW y \in StepSet
  PROVE  /\ s \o <<x, y>> \in Seq(StepSet) /\ Len(s \o <<x, y>>) = Len(s) + 2
         /\ \A i \in 1 .. Len(s) : (s \o <<x, y>>)[i] = s[i]
         /\ (s \o <<x, y>>)[Len(s) + 1] = x
         /\ (s \o <<x, y>>)[Len(s) + 2] = y
  OBVIOUS

LEMMA RestoreIs ==
  /\ Restore \in Seq(StepSet) /\ Len(Restore) = 6
  /\ \A i \in 1 .. 6 : Restore[i].do \in {"start", "heal"}
  <1>1. /\ Do("start", "N1") \in StepSet /\ Do("start", "N2") \in StepSet
        /\ Do("start", "N3") \in StepSet /\ Do("heal", "N1") \in StepSet
        /\ Do("heal", "N2") \in StepSet /\ Do("heal", "N3") \in StepSet
    BY StepTyped DEF Node
  <1>2. \A m : Do("start", m).do = "start" /\ Do("heal", m).do = "heal"
    BY DEF Do
  <1>3. Restore \in Seq(StepSet) /\ Len(Restore) = 6
    BY <1>1 DEF Restore
  <1>4. /\ Restore[1] = Do("start", "N1") /\ Restore[2] = Do("start", "N2")
        /\ Restore[3] = Do("start", "N3") /\ Restore[4] = Do("heal", "N1")
        /\ Restore[5] = Do("heal", "N2") /\ Restore[6] = Do("heal", "N3")
    BY DEF Restore
  <1>5. \A i \in 1 .. 6 : i = 1 \/ i = 2 \/ i = 3 \/ i = 4 \/ i = 5 \/ i = 6
    OBVIOUS
  <1> QED
    BY <1>2, <1>3, <1>4, <1>5

LEMMA PreflightIs ==
  /\ Preflight \in Seq(StepSet) /\ Len(Preflight) = 10
  /\ \A i \in 1 .. 7 : Preflight[i].do \in {"start", "heal", "healthy"}
  /\ Preflight[8] = Do("peer_tcp", "N1") /\ Preflight[9] = Do("peer_tcp", "N3")
  /\ Preflight[10] = Views
  <1>1. PICK h \in StepSet, a \in StepSet, b \in StepSet, v \in StepSet :
            /\ h = Do("healthy", "N1") /\ a = Do("peer_tcp", "N1")
            /\ b = Do("peer_tcp", "N3") /\ v = Views
    BY StepTyped DEF Node, Views
  <1>2. h.do = "healthy"
    BY <1>1 DEF Do
  <1>3. Preflight = ((Restore \o <<h>>) \o <<a, b>>) \o <<v>>
    BY <1>1 DEF Preflight, PeerTcp
  <1>4. PICK p \in Seq(StepSet) : p = Restore \o <<h>>
    BY RestoreIs, WithOne
  <1>5. Len(p) = 7 /\ (\A i \in 1 .. 6 : p[i] = Restore[i]) /\ p[7] = h
    <2>1. /\ Len(p) = Len(Restore) + 1 /\ p[Len(Restore) + 1] = h
          /\ \A i \in 1 .. Len(Restore) : p[i] = Restore[i]
      BY <1>4, RestoreIs, WithOne, Zenon
    <2> QED
      BY <2>1, RestoreIs
  <1>6. PICK q \in Seq(StepSet) : q = p \o <<a, b>>
    BY WithTwo
  <1>7. Len(q) = 9 /\ (\A i \in 1 .. 7 : q[i] = p[i]) /\ q[8] = a /\ q[9] = b
    <2>0. /\ Len(p \o <<a, b>>) = Len(p) + 2
          /\ \A i \in 1 .. Len(p) : (p \o <<a, b>>)[i] = p[i]
          /\ (p \o <<a, b>>)[Len(p) + 1] = a /\ (p \o <<a, b>>)[Len(p) + 2] = b
      BY WithTwo
    <2>1. /\ Len(q) = Len(p) + 2 /\ q[Len(p) + 1] = a
          /\ q[Len(p) + 2] = b
          /\ \A i \in 1 .. Len(p) : q[i] = p[i]
      BY <1>6, <2>0
    <2> QED
      BY <2>1, <1>5
  <1>8. PICK r \in Seq(StepSet) : r = q \o <<v>>
    BY WithOne
  <1>9. Len(r) = 10 /\ (\A i \in 1 .. 9 : r[i] = q[i]) /\ r[10] = v
    <2>1. /\ Len(r) = Len(q) + 1 /\ r[Len(q) + 1] = v
          /\ \A i \in 1 .. Len(q) : r[i] = q[i]
      BY <1>8, WithOne, Zenon
    <2> QED
      BY <2>1, <1>7
  <1>10. \A i \in 1 .. 7 : r[i].do \in {"start", "heal", "healthy"}
    <2>1. \A i \in 1 .. 7 : i \in 1 .. 6 \/ i = 7
      OBVIOUS
    <2> QED
      BY <1>2, <1>5, <1>7, <1>9, <2>1, RestoreIs
  <1>11. r[8] = a /\ r[9] = b
    BY <1>7, <1>9
  <1> QED
    BY <1>1, <1>3, <1>4, <1>6, <1>8, <1>9, <1>10, <1>11

LEMMA RecoveryIs ==
  /\ Recovery \in Seq(StepSet) /\ Len(Recovery) = 10
  /\ \A i \in 1 .. 7 : Recovery[i].do \in {"start", "heal", "healthy"}
  /\ Recovery[8] = Views
  /\ Recovery[9] = Do("peer_tcp", "N1") /\ Recovery[10] = Do("peer_tcp", "N3")
  <1>1. PICK h \in StepSet, a \in StepSet, b \in StepSet, v \in StepSet :
            /\ h = Do("healthy", "N1") /\ a = Do("peer_tcp", "N1")
            /\ b = Do("peer_tcp", "N3") /\ v = Views
    BY StepTyped DEF Node, Views
  <1>2. h.do = "healthy"
    BY <1>1 DEF Do
  <1>3. Recovery = (Restore \o <<h, v>>) \o <<a, b>>
    BY <1>1 DEF Recovery, PeerTcp
  <1>4. PICK p \in Seq(StepSet) : p = Restore \o <<h, v>>
    BY RestoreIs, WithTwo
  <1>5. Len(p) = 8 /\ (\A i \in 1 .. 6 : p[i] = Restore[i]) /\ p[7] = h /\ p[8] = v
    <2>0. /\ Len(Restore \o <<h, v>>) = Len(Restore) + 2
          /\ \A i \in 1 .. Len(Restore) : (Restore \o <<h, v>>)[i] = Restore[i]
          /\ (Restore \o <<h, v>>)[Len(Restore) + 1] = h /\ (Restore \o <<h, v>>)[Len(Restore) + 2] = v
      <3>1. Restore \in Seq(StepSet)
        BY RestoreIs
      <3> QED
        BY <3>1, WithTwo
    <2>1. /\ Len(p) = Len(Restore) + 2 /\ p[Len(Restore) + 1] = h
          /\ p[Len(Restore) + 2] = v
          /\ \A i \in 1 .. Len(Restore) : p[i] = Restore[i]
      BY <1>4, <2>0
    <2> QED
      BY <2>1, RestoreIs
  <1>6. PICK q \in Seq(StepSet) : q = p \o <<a, b>>
    BY WithTwo
  <1>7. Len(q) = 10 /\ (\A i \in 1 .. 8 : q[i] = p[i]) /\ q[9] = a /\ q[10] = b
    <2>0. /\ Len(p \o <<a, b>>) = Len(p) + 2
          /\ \A i \in 1 .. Len(p) : (p \o <<a, b>>)[i] = p[i]
          /\ (p \o <<a, b>>)[Len(p) + 1] = a /\ (p \o <<a, b>>)[Len(p) + 2] = b
      BY WithTwo
    <2>1. /\ Len(q) = Len(p) + 2 /\ q[Len(p) + 1] = a
          /\ q[Len(p) + 2] = b
          /\ \A i \in 1 .. Len(p) : q[i] = p[i]
      BY <1>6, <2>0
    <2> QED
      BY <2>1, <1>5
  <1>8. \A i \in 1 .. 7 : q[i].do \in {"start", "heal", "healthy"}
    <2>1. \A i \in 1 .. 7 : i \in 1 .. 6 \/ i = 7
      OBVIOUS
    <2> QED
      BY <1>2, <1>5, <1>7, <2>1, RestoreIs
  <1>9. q[8] = v
    BY <1>5, <1>7
  <1> QED
    BY <1>1, <1>3, <1>4, <1>6, <1>7, <1>8, <1>9

LEMMA IsolationIs ==
  ASSUME NEW m \in Node
  PROVE  /\ Isolation(m) \in Seq(StepSet) /\ Len(Isolation(m)) = 3
         /\ Isolation(m)[1] = Do("isolate", m)
         /\ Isolation(m)[2] = Do("verify_isolation", m)
         /\ Isolation(m)[3] = ViewsWithout(m)
  <1>1. /\ Do("isolate", m) \in StepSet /\ Do("verify_isolation", m) \in StepSet
        /\ ViewsWithout(m) \in StepSet
    BY StepTyped DEF ViewsWithout
  <1> QED
    BY <1>1 DEF Isolation

LEMMA InjectionIs ==
  /\ Injection("partition") = Isolation("N3")
  /\ Injection("node_stop") \in Seq(StepSet) /\ Len(Injection("node_stop")) = 2
  /\ Injection("node_stop")[1] = Do("stop", "N3")
  /\ Injection("node_stop")[2] = ViewsWithout("N3")
  /\ Injection("normal") = << >>
  <1>1. Do("stop", "N3") \in StepSet /\ ViewsWithout("N3") \in StepSet
    BY StepTyped DEF ViewsWithout, Node
  <1> QED
    BY <1>1 DEF Injection

(* The next step of a procedure, and what a finished step leaves of it.      *)
LEMMA LeftStep ==
  ASSUME NEW plan \in Seq(StepSet), todo \in Seq(StepSet), todo # << >>, Left(plan)
  PROVE  /\ Len(todo) \in 1 .. Len(plan)
         /\ Head(todo) = plan[Len(plan) - Len(todo) + 1]
         /\ todo' = Tail(todo) => Left(plan)' /\ todo' \in Seq(StepSet) /\ Len(todo') = Len(todo) - 1
  <1>1. Len(todo) \in 1 .. Len(plan) /\ Len(plan) \in Nat
    BY DEF Left
  <1>2. Head(todo) = plan[Len(plan) - Len(todo) + 1]
    BY <1>1 DEF Left
  <1>3. ASSUME todo' = Tail(todo)
        PROVE  Left(plan)' /\ todo' \in Seq(StepSet) /\ Len(todo') = Len(todo) - 1
    <2>1. /\ todo' \in Seq(StepSet) /\ Len(todo') = Len(todo) - 1
          /\ \A i \in 1 .. Len(todo) - 1 : todo'[i] = todo[i + 1]
      BY <1>3
    <2>2. \A i \in 1 .. Len(todo) - 1 :
             i + 1 \in 1 .. Len(todo) /\ Len(plan) - Len(todo) + (i + 1) = Len(plan) - (Len(todo) - 1) + i
      BY <1>1
    <2> QED
      BY <1>1, <2>1, <2>2 DEF Left
  <1> QED
    BY <1>1, <1>2, <1>3

LEMMA LeftStart ==
  ASSUME NEW plan \in Seq(StepSet), todo' = plan
  PROVE  Left(plan)' /\ todo' \in Seq(StepSet) /\ Len(todo') = Len(plan)
  BY DEF Left

LEMMA CardInterval ==
  ASSUME NEW k \in Nat
  PROVE  Cardinality(1 .. k) = k
  <1>1. Facts!Cardinality(1 .. k) = k
    BY Facts!FS_Interval
  <1>2. Facts!Cardinality(1 .. k) = Cardinality(1 .. k)
    BY Zenon DEF Facts!Cardinality, Cardinality
  <1> QED
    BY <1>1, <1>2

-----------------------------------------------------------------------------
(* An exception, wherever it is raised: in the except block and in the       *)
(* recovery nothing but the control of the run changes with it.              *)
LEMMA RaiseStep ==
  ASSUME Inv, Raise, InTry \/ pc \in {"except", "recover"},
         UNCHANGED <<case, attempt, controls, settled, workloads, probed>>,
         UNCHANGED fileVars,
         lab' \in [Node -> Condition], InTry \/ lab' = lab,
         data' \in {"fresh", "initial", "mixed", "partial"}, pc = "prepare" \/ data' = data,
         abandoned \subseteq abandoned', abandoned' \subseteq StepSet, signals' \in Nat
  PROVE  Inv'
  <1>1. /\ pc' \in {"except", "recover", "save"} /\ failure' \in {"raised", "escaping"}
        /\ pc' = "except" => InTry /\ failure' = "raised" /\ todo' = << >> /\ meta' = meta
        /\ pc' = "recover" => pc = "except" /\ todo' = Recovery /\ meta' = meta
        /\ pc' = "save" => /\ pc = "recover" /\ todo' = << >>
                           /\ meta' = [meta EXCEPT !.recovered = FALSE]
    <2>1. CASE InTry
      BY <2>1 DEF Raise, InTry
    <2>2. CASE pc = "except"
      BY <2>2 DEF Raise, InTry
    <2>3. CASE pc = "recover"
      BY <2>3 DEF Raise, InTry, Inv, Typed
    <2> QED
      BY <2>1, <2>2, <2>3
  <1>2. /\ meta \in Meta /\ meta' \in Meta /\ meta'.evidence = meta.evidence
        /\ meta.recovered = FALSE /\ meta'.recovered = FALSE
        /\ pc' # "save" => meta' = meta
    <2>1. meta \in Meta /\ meta.recovered = FALSE
      BY DEF Inv, Typed, Failures, InTry, Meta
    <2> QED
      BY <1>1, <2>1 DEF Meta
  <1>3. Typed'
    <2>1. todo' \in Seq(StepSet)
      <3>1. << >> \in Seq(StepSet)
        OBVIOUS
      <3>2. todo' = << >> \/ todo' = Recovery
        BY <1>1
      <3> QED
        BY <3>1, <3>2, RecoveryIs
    <2> QED
      BY <1>1, <1>2, <2>1 DEF Inv, Typed, fileVars
  <1>4. OnPlan'
    <2>1. pc' = "recover" => Left(Recovery)'
      BY <1>1, RecoveryIs, LeftStart
    <2> QED
      BY <1>1, <2>1 DEF OnPlan
  <1>5. LabAsPlanned'
    <2>1. pc' = "recover" => ~(Len(todo') <= 1) /\ Len(todo') # 0
      <3>1. pc' = "recover" => Len(todo') = 10
        BY <1>1, RecoveryIs
      <3>2. ~(10 <= 1) /\ ~(10 <= 2) /\ 10 # 0
        OBVIOUS
      <3> QED
        BY <3>1, <3>2, Zenon
    <2>2. pc' \notin {"preflight", "prepare", "inject", "workload", "measure"}
      BY <1>1
    <2> QED
      BY <1>2, <2>1, <2>2, Zenon DEF LabAsPlanned
  <1>6. Proved'
    <2>1. pc' = "recover" => ~(Len(todo') <= 2)
      <3>1. pc' = "recover" => Len(todo') = 10
        BY <1>1, RecoveryIs
      <3>2. ~(10 <= 1) /\ ~(10 <= 2) /\ 10 # 0
        OBVIOUS
      <3> QED
        BY <3>1, <3>2, Zenon
    <2>2. pc' \notin {"preflight", "prepare", "inject", "workload", "measure", "export"}
      BY <1>1
    <2>3. probed' => Cut1 \in controls'
      BY DEF Inv, Proved
    <2> QED
      BY <2>1, <2>2, <2>3, Zenon DEF Proved
  <1>7. Failures'
    <2>1. meta.evidence => Evidence /\ pc # "prepare"
      BY DEF Inv, Failures
    <2>2. meta'.evidence => Evidence'
      BY <1>2, <2>1 DEF Evidence
    <2> QED
      BY <1>1, <1>2, <2>2 DEF Failures, InTry
  <1>8. Files'
    <2>1. pc \notin {"saved", "ended", "died", "next case"} /\ completion = "none"
      BY DEF Inv, Files, InTry
    <2>2. Verified(summaries)' = Verified(summaries)
      BY DEF fileVars, Verified
    <2> QED
      BY <1>1, <2>1, <2>2 DEF Inv, Files, fileVars
  <1> QED
    BY <1>3, <1>4, <1>5, <1>6, <1>7, <1>8 DEF Inv

(* A finished control step, apart from what it does to the lab.              *)
LEMMA ProceedStep ==
  ASSUME Inv, todo # << >>, Proceed, UNCHANGED fileVars,
         UNCHANGED <<abandoned, signals, case, attempt, data, workloads, probed>>,
         lab' \in [Node -> Condition], settled' \in BOOLEAN, settled => settled',
         controls \subseteq controls'
  PROVE  /\ Typed' /\ OnPlan' /\ Failures' /\ Files'
         /\ meta' = meta /\ meta.recovered = FALSE /\ Len(todo') = Len(todo) - 1
         /\ pc \in {"preflight", "inject", "measure", "recover"} /\ pc' = pc
  <1>1. /\ todo' = Tail(todo) /\ pc' = pc /\ failure' = failure /\ meta' = meta
        /\ pc \in {"preflight", "inject", "measure", "recover"}
    BY DEF Proceed, Inv, OnPlan
  <1>2. todo \in Seq(StepSet) /\ case \in [scenario : Scenarios, dependency : BOOLEAN]
    BY DEF Inv, Typed
  <1>3. meta.recovered = FALSE
    BY <1>1 DEF Inv, Typed, Meta, Failures
  <1>4. todo' \in Seq(StepSet) /\ Len(todo') = Len(todo) - 1
    BY <1>1, <1>2
  <1>5. Typed'
    BY ZenonT(40), <1>1, <1>4 DEF Inv, Typed, fileVars
  <1>6. OnPlan'
    <2>1. CASE pc = "preflight"
      BY <1>1, <1>2, <2>1, PreflightIs, LeftStep DEF Inv, OnPlan
    <2>2. CASE pc = "measure"
      <3>1. Measurement \in Seq(StepSet)
        BY IsolationIs DEF Measurement, Node
      <3> QED
        BY <1>1, <1>2, <2>2, <3>1, LeftStep DEF Inv, OnPlan
    <2>3. CASE pc = "recover"
      BY <1>1, <1>2, <2>3, RecoveryIs, LeftStep DEF Inv, OnPlan
    <2>4. CASE pc = "inject"
      <3>1. PICK sc \in Scenarios : sc = case.scenario
        BY <1>2
      <3>2. Injection(sc) \in Seq(StepSet)
        <4>1. Injection("partition") \in Seq(StepSet)
          BY InjectionIs, IsolationIs DEF Node
        <4>3. << >> \in Seq(StepSet)
          OBVIOUS
        <4>2. Injection("normal") \in Seq(StepSet) /\ Injection("node_stop") \in Seq(StepSet)
          BY <4>3, InjectionIs
        <4> QED
          BY <4>1, <4>2 DEF Scenarios
      <3>3. Left(Injection(sc))
        BY <2>4, <3>1 DEF Inv, OnPlan
      <3>4. Left(Injection(sc))'
        BY <1>1, <1>2, <3>2, <3>3, LeftStep
      <3>5. case'.scenario = sc
        BY <3>1
      <3> QED
        BY <1>1, <2>4, <3>4, <3>5 DEF OnPlan
    <2> QED
      BY <1>1, <2>1, <2>2, <2>3, <2>4
  <1>7. Failures'
    <2>1. meta.evidence => Evidence
      BY DEF Inv, Failures
    <2>2. meta.evidence => Evidence'
      BY <2>1 DEF Evidence
    <2> QED
      BY <1>1, <1>3, <2>2 DEF Inv, Failures, InTry
  <1>8. Files'
    <2>1. Verified(summaries)' = Verified(summaries)
      BY DEF fileVars, Verified
    <2>2. completion = "none"
      BY <1>1 DEF Inv, Files
    <2> QED
      BY <1>1, <2>1, <2>2 DEF Inv, Files, fileVars
  <1> QED
    BY <1>1, <1>3, <1>4, <1>5, <1>6, <1>7, <1>8

-----------------------------------------------------------------------------
(* What a control step that succeeds does.                                   *)
Effect ==
    /\ todo # << >> /\ Proceed /\ UNCHANGED fileVars
    /\ UNCHANGED <<abandoned, signals, case, attempt, data, workloads, probed>>
    /\ lab' \in [Node -> Condition] /\ settled' \in BOOLEAN /\ (settled => settled')
    /\ controls \subseteq controls'
    /\ Head(todo).do \in {"healthy", "peer_tcp", "settle_views", "verify_isolation"} => lab' = lab
    /\ Head(todo).do = "peer_tcp" => lab[Head(todo).node] = "open" /\ lab["N2"] = "open"
    /\ Head(todo).do = "settle_views" => settled' = (settled \/ Head(todo).node = "none")
    /\ Head(todo).do = "isolate" => lab' = [lab EXCEPT ![Head(todo).node] = "blocked"]
    /\ Head(todo).do = "verify_isolation" => <<"verified_isolation", Head(todo).node>> \in controls'
    /\ Head(todo).do = "stop" => /\ lab' = [lab EXCEPT ![Head(todo).node] = "down"]
                                 /\ <<"stop", Head(todo).node>> \in controls'

(* One that does not.                                                        *)
Failed ==
    /\ todo # << >> /\ Raise
    /\ UNCHANGED <<case, attempt, data, controls, settled, workloads, probed>>
    /\ UNCHANGED fileVars /\ UNCHANGED signals
    /\ lab' \in [Node -> Condition] /\ (Head(todo).do \in {"isolate", "stop"} \/ lab' = lab)
    /\ abandoned \subseteq abandoned' /\ abandoned' \subseteq StepSet

LEMMA ControlCases ==
  ASSUME Typed, Control
  PROVE  Effect \/ Failed
  <1>1. /\ lab \in [Node -> Condition] /\ todo \in Seq(StepSet) /\ abandoned \subseteq StepSet
        /\ settled \in BOOLEAN
    BY DEF Typed
  <1>2. \A m, c : c \in Condition => [lab EXCEPT ![m] = c] \in [Node -> Condition]
    BY <1>1
  <1>3. CASE Start
    BY <1>1, <1>2, <1>3 DEF Start, Step, Rest, SetLab, caseVars, fileVars, Effect, Condition
  <1>4. CASE HealNode
    BY <1>1, <1>2, <1>4 DEF HealNode, Step, Rest, SetLab, caseVars, fileVars, Effect, Condition
  <1>5. CASE Healthy
    BY <1>1, <1>5 DEF Healthy, Step, Rest, caseVars, fileVars, Effect
  <1>6. CASE CheckTcp
    BY <1>1, <1>6 DEF CheckTcp, Step, Rest, caseVars, fileVars, Effect, n
  <1>7. CASE SettleViews
    BY <1>1, <1>7 DEF SettleViews, Step, fileVars, Effect, n
  <1>8. CASE IsolateNode
    <2>1. Step("isolate") /\ Rest
      BY <1>8 DEF IsolateNode
    <2>2. CASE SetLab("blocked") /\ Proceed
      BY <1>1, <1>2, <2>1, <2>2 DEF Step, Rest, SetLab, caseVars, fileVars, Effect, Condition, n
    <2>3. CASE (SetLab("partial") \/ SetLab("blocked")) /\ Raise
      BY <1>1, <1>2, <2>1, <2>3 DEF Step, Rest, SetLab, caseVars, fileVars, Failed, Condition, n
    <2> QED
      BY <1>8, <2>2, <2>3 DEF IsolateNode
  <1>9. CASE VerifyIsolation
    BY <1>1, <1>9 DEF VerifyIsolation, Step, Unproved, Proves, fileVars, Effect, n
  <1>10. CASE StopNode
    <2>1. CASE SetLab("down") /\ Step("stop") /\ Proceed /\ Proves("stop") /\ Unproved
      BY <1>1, <1>2, <2>1 DEF Step, Unproved, Proves, SetLab, fileVars, Effect, Condition, n
    <2>2. CASE SetLab("down") /\ Step("stop") /\ Raise /\ Rest
      BY <1>1, <1>2, <2>2 DEF Step, Rest, SetLab, caseVars, fileVars, Failed, Condition, n
    <2> QED
      BY <1>10, <2>1, <2>2 DEF StopNode
  <1>11. CASE Fail
    <2>1. Head(todo) \in StepSet
      BY <1>1, <1>11 DEF Fail
    <2>2. abandoned \subseteq abandoned' /\ abandoned' \subseteq StepSet
      BY <1>1, <1>11, <2>1 DEF Fail, Abandon
    <2> QED
      BY <1>1, <1>11, <2>2 DEF Fail, caseVars, fileVars, Failed
  <1> QED
    BY <1>3, <1>4, <1>5, <1>6, <1>7, <1>8, <1>9, <1>10, <1>11 DEF Control

(* The step at the head, by what is left.                                    *)
LEMMA HeadOfPreflight ==
  ASSUME Inv, pc = "preflight", todo # << >>
  PROVE  /\ Len(todo) \in 1 .. 10
         /\ Len(todo) > 3 => Head(todo).do \in {"start", "heal", "healthy"}
         /\ Len(todo) = 3 => Head(todo) = Do("peer_tcp", "N1")
         /\ Len(todo) = 2 => Head(todo) = Do("peer_tcp", "N3")
         /\ Len(todo) = 1 => Head(todo) = Views
  <1>1. Len(todo) \in 1 .. 10 /\ Head(todo) = Preflight[10 - Len(todo) + 1]
    BY PreflightIs, LeftStep DEF Inv, Typed, OnPlan
  <1>2. PICK k \in 1 .. 10 : k = Len(todo)
    BY <1>1
  <1>3. Head(todo) = Preflight[11 - k]
    <2>1. 10 - k + 1 = 11 - k
      OBVIOUS
    <2> QED
      BY <1>1, <1>2, <2>1
  <1>4. k > 3 => 11 - k \in 1 .. 7
    OBVIOUS
  <1>5. k > 3 => Head(todo).do \in {"start", "heal", "healthy"}
    BY <1>3, <1>4, PreflightIs
  <1>6. /\ k = 3 => Head(todo) = Preflight[8]
        /\ k = 2 => Head(todo) = Preflight[9]
        /\ k = 1 => Head(todo) = Preflight[10]
    BY <1>3
  <1> QED
    BY <1>2, <1>5, <1>6, PreflightIs

LEMMA HeadOfRecovery ==
  ASSUME Inv, pc = "recover", todo # << >>
  PROVE  /\ Len(todo) \in 1 .. 10
         /\ Len(todo) > 3 => Head(todo).do \in {"start", "heal", "healthy"}
         /\ Len(todo) = 3 => Head(todo) = Views
         /\ Len(todo) = 2 => Head(todo) = Do("peer_tcp", "N1")
         /\ Len(todo) = 1 => Head(todo) = Do("peer_tcp", "N3")
  <1>1. Len(todo) \in 1 .. 10 /\ Head(todo) = Recovery[10 - Len(todo) + 1]
    BY RecoveryIs, LeftStep DEF Inv, Typed, OnPlan
  <1>2. PICK k \in 1 .. 10 : k = Len(todo)
    BY <1>1
  <1>3. Head(todo) = Recovery[11 - k]
    <2>1. 10 - k + 1 = 11 - k
      OBVIOUS
    <2> QED
      BY <1>1, <1>2, <2>1
  <1>4. k > 3 => 11 - k \in 1 .. 7
    OBVIOUS
  <1>5. k > 3 => Head(todo).do \in {"start", "heal", "healthy"}
    BY <1>3, <1>4, RecoveryIs
  <1>6. /\ k = 3 => Head(todo) = Recovery[8]
        /\ k = 2 => Head(todo) = Recovery[9]
        /\ k = 1 => Head(todo) = Recovery[10]
    BY <1>3
  <1> QED
    BY <1>2, <1>5, <1>6, RecoveryIs

LEMMA HeadOfIsolation ==
  ASSUME Typed, NEW m \in Node, Left(Isolation(m)), todo # << >>
  PROVE  /\ Len(todo) \in 1 .. 3
         /\ Len(todo) = 3 => Head(todo) = Do("isolate", m)
         /\ Len(todo) = 2 => Head(todo) = Do("verify_isolation", m)
         /\ Len(todo) = 1 => Head(todo) = ViewsWithout(m)
  <1>1. Len(todo) \in 1 .. 3 /\ Head(todo) = Isolation(m)[3 - Len(todo) + 1]
    BY IsolationIs, LeftStep DEF Typed
  <1>2. PICK k \in 1 .. 3 : k = Len(todo)
    BY <1>1
  <1>3. /\ k = 3 => Head(todo) = Isolation(m)[1]
        /\ k = 2 => Head(todo) = Isolation(m)[2]
        /\ k = 1 => Head(todo) = Isolation(m)[3]
    <2>1. 3 - 3 + 1 = 1 /\ 3 - 2 + 1 = 2 /\ 3 - 1 + 1 = 3
      OBVIOUS
    <2>2. Head(todo) = Isolation(m)[3 - k + 1]
      BY <1>1, <1>2
    <2> QED
      BY <2>1, <2>2
  <1> QED
    BY <1>2, <1>3, IsolationIs

LEMMA HeadOfStop ==
  ASSUME Typed, Left(Injection("node_stop")), todo # << >>
  PROVE  /\ Len(todo) \in 1 .. 2
         /\ Len(todo) = 2 => Head(todo) = Do("stop", "N3")
         /\ Len(todo) = 1 => Head(todo) = ViewsWithout("N3")
  <1>1. Len(todo) \in 1 .. 2 /\ Head(todo) = Injection("node_stop")[2 - Len(todo) + 1]
    BY InjectionIs, LeftStep DEF Typed
  <1>2. PICK k \in 1 .. 2 : k = Len(todo)
    BY <1>1
  <1>3. /\ k = 2 => Head(todo) = Injection("node_stop")[1]
        /\ k = 1 => Head(todo) = Injection("node_stop")[2]
    <2>1. 2 - 2 + 1 = 1 /\ 2 - 1 + 1 = 2
      OBVIOUS
    <2>2. Head(todo) = Injection("node_stop")[2 - k + 1]
      BY <1>1, <1>2
    <2> QED
      BY <2>1, <2>2
  <1> QED
    BY <1>2, <1>3, InjectionIs

(* Each procedure, one step on.                                              *)
LEMMA EffectStep ==
  ASSUME Inv, Effect
  PROVE  Inv'
  <1>1. /\ Typed' /\ OnPlan' /\ Failures' /\ Files'
        /\ meta' = meta /\ meta.recovered = FALSE /\ Len(todo') = Len(todo) - 1
        /\ pc \in {"preflight", "inject", "measure", "recover"} /\ pc' = pc
    BY ProceedStep DEF Effect
  <1>2. /\ todo # << >> /\ case' = case /\ data' = data /\ probed' = probed /\ abandoned' = abandoned
        /\ controls \subseteq controls' /\ (settled => settled')
        /\ lab \in [Node -> Condition]
    BY DEF Effect, Inv, Typed
  <1>3. Len(todo) \in Nat \ {0}
    <2>1. todo \in Seq(StepSet)
      BY DEF Inv, Typed
    <2> QED
      BY <1>2, <2>1
  <1>4. \A w, m : Do(w, m).do = w /\ Do(w, m).node = m
    BY DEF Do
  <1>5. meta'.recovered = FALSE /\ (probed' => Cut1 \in controls')
    BY <1>1, <1>2 DEF Inv, Proved
  <1>6. Views.do = "settle_views" /\ Views.node = "none"
        /\ \A m : ViewsWithout(m).do = "settle_views"
    BY <1>4 DEF Views, ViewsWithout
  <1>7. CASE pc = "preflight"
    <2>1. PICK k \in 1 .. 10 : k = Len(todo)
      BY <1>2, <1>7, HeadOfPreflight
    <2>2. Len(todo') = k - 1
      BY <1>1, <2>1
    <2>3. k <= 3 => lab' = lab /\ (k = 3 => lab["N1"] = "open" /\ lab["N2"] = "open")
                 /\ (k = 2 => lab["N3"] = "open")
      <3>1. k = 3 \/ k = 2 \/ k = 1 \/ k > 3
        OBVIOUS
      <3> QED
        BY <1>2, <1>4, <1>6, <1>7, <2>1, <3>1, HeadOfPreflight DEF Effect
    <2>4. /\ k <= 2 => lab["N1"] = "open" /\ lab["N2"] = "open"
          /\ k <= 1 => AllOpen
      BY <1>7, <2>1 DEF Inv, LabAsPlanned
    <2>5. /\ k - 1 <= 2 => k <= 3 /\ (k = 3 \/ k <= 2)
          /\ k - 1 <= 1 => k <= 3 /\ (k = 2 \/ k <= 1)
      OBVIOUS
    <2>6. k - 1 <= 2 => lab'["N1"] = "open" /\ lab'["N2"] = "open"
      BY <2>3, <2>4, <2>5
    <2>7. k - 1 <= 1 => AllOpen'
      BY <2>3, <2>4, <2>5 DEF AllOpen, Node
    <2>8. LabAsPlanned'
      BY <1>1, <1>5, <1>7, <2>2, <2>6, <2>7 DEF LabAsPlanned
    <2>9. Proved'
      BY <1>1, <1>5, <1>7 DEF Proved
    <2> QED
      BY <1>1, <2>8, <2>9 DEF Inv
  <1>8. CASE pc = "recover"
    <2>1. PICK k \in 1 .. 10 : k = Len(todo)
      BY <1>2, <1>8, HeadOfRecovery
    <2>2. Len(todo') = k - 1
      BY <1>1, <2>1
    <2>3. k <= 3 => lab' = lab /\ (k = 3 => settled')
                 /\ (k = 2 => lab["N1"] = "open" /\ lab["N2"] = "open")
                 /\ (k = 1 => lab["N3"] = "open")
      <3>1. k = 3 \/ k = 2 \/ k = 1 \/ k > 3
        OBVIOUS
      <3> QED
        BY <1>2, <1>4, <1>6, <1>8, <2>1, <3>1, HeadOfRecovery DEF Effect
    <2>4. /\ k <= 2 => settled
          /\ k <= 1 => Fixed("N1") /\ Fixed("N2")
      BY <1>8, <2>1 DEF Inv, LabAsPlanned, Proved
    <2>5. /\ k - 1 <= 2 => k <= 3 /\ (k = 3 \/ k <= 2)
          /\ k - 1 <= 1 => k <= 3 /\ (k = 2 \/ k <= 1)
          /\ k - 1 = 0 => k = 1 /\ k <= 1 /\ k <= 3
      OBVIOUS
    <2>6. k <= 3 => \A m : Fixed(m)' = Fixed(m)
      BY <1>2, <2>3 DEF Fixed
    <2>7. k - 1 <= 2 => settled'
      BY <1>2, <2>3, <2>4, <2>5
    <2>8. k - 1 <= 1 => Fixed("N1")' /\ Fixed("N2")'
      BY <2>3, <2>4, <2>5, <2>6 DEF Fixed
    <2>9. k - 1 = 0 => AllFixed'
      BY <2>3, <2>4, <2>5, <2>6 DEF Fixed, AllFixed, Node
    <2>10. LabAsPlanned'
      BY <1>1, <1>5, <1>8, <2>2, <2>8, <2>9 DEF LabAsPlanned
    <2>11. Proved'
      BY <1>1, <1>5, <1>8, <2>2, <2>7 DEF Proved
    <2> QED
      BY <1>1, <2>10, <2>11 DEF Inv
  <1>9. CASE pc = "measure"
    <2>1. /\ Typed /\ Left(Isolation("N1")) /\ "N1" \in Node
      BY <1>9 DEF Inv, OnPlan, Measurement, Node
    <2>2. PICK k \in 1 .. 3 : k = Len(todo)
      BY <1>2, <2>1, HeadOfIsolation
    <2>3. Len(todo') = k - 1
      BY <1>1, <2>2
    <2>4. /\ k = 3 => lab' = [lab EXCEPT !["N1"] = "blocked"]
          /\ k \in {1, 2} => lab' = lab
          /\ k = 2 => Cut1 \in controls'
      <3>1. k = 3 \/ k = 2 \/ k = 1
        OBVIOUS
      <3> QED
        BY <1>2, <1>4, <1>6, <2>1, <2>2, <3>1, HeadOfIsolation DEF Effect, Cut1
    <2>5. /\ lab = IF k = 3 THEN Faulty(case.scenario) ELSE [Faulty(case.scenario) EXCEPT !["N1"] = "blocked"]
          /\ k = 1 => Cut1 \in controls
          /\ data = "initial"
          /\ case.scenario = "partition" => Injected3 \in controls
          /\ case.scenario = "node_stop" => Stopped3 \in controls
      BY <1>9, <2>2 DEF Inv, LabAsPlanned, Proved
    <2>6. lab' = [Faulty(case.scenario) EXCEPT !["N1"] = "blocked"] /\ k - 1 # 3
      <3>1. k = 3 \/ k \in {1, 2}
        OBVIOUS
      <3> QED
        BY <2>4, <2>5, <3>1
    <2>7. Faulty(case.scenario)' = Faulty(case.scenario)
      BY <1>2 DEF Faulty
    <2>8. LabAsPlanned'
      BY <1>1, <1>5, <1>9, <2>3, <2>6, <2>7 DEF LabAsPlanned
    <2>9. k - 1 <= 1 => Cut1 \in controls'
      BY <1>2, <2>4, <2>5
    <2>10. Proved'
      BY <1>1, <1>2, <1>5, <1>9, <2>3, <2>5, <2>9 DEF Proved
    <2> QED
      BY <1>1, <2>8, <2>10 DEF Inv
  <1>10. CASE pc = "inject" /\ case.scenario = "partition"
    <2>1. /\ Typed /\ Left(Isolation("N3")) /\ "N3" \in Node /\ Len(Isolation("N3")) = 3
      BY <1>10, InjectionIs, IsolationIs DEF Inv, OnPlan, Node
    <2>2. PICK k \in 1 .. 3 : k = Len(todo)
      BY <1>2, <2>1, HeadOfIsolation
    <2>3. Len(todo') = k - 1
      BY <1>1, <2>2
    <2>4. /\ k = 3 => lab' = [lab EXCEPT !["N3"] = "blocked"]
          /\ k \in {1, 2} => lab' = lab
          /\ k = 2 => Injected3 \in controls'
      <3>1. k = 3 \/ k = 2 \/ k = 1
        OBVIOUS
      <3> QED
        BY <1>2, <1>4, <1>6, <2>1, <2>2, <3>1, HeadOfIsolation DEF Effect, Injected3
    <2>5. /\ (k = 3 /\ AllOpen) \/ (k < 3 /\ lab = Faulty("partition"))
          /\ k = 1 => Injected3 \in controls
          /\ data = "initial"
      <3>1. (k = 3 /\ AllOpen) \/ (k < 3 /\ lab = Faulty("partition"))
        <4>1. Len(Injection(case.scenario)) = 3
          BY <1>10, <2>1, InjectionIs
        <4>2. \/ Len(todo) = Len(Injection(case.scenario)) /\ AllOpen
              \/ Len(todo) < Len(Injection(case.scenario)) /\ lab = Faulty(case.scenario)
          BY <1>10 DEF Inv, LabAsPlanned
        <4>3. Faulty(case.scenario) = Faulty("partition") /\ k = Len(todo)
          BY <1>10, <2>2
        <4> QED
          BY <4>1, <4>2, <4>3
      <3>2. k = 1 => Injected3 \in controls
        <4>1. k = 1 => Len(todo) <= 1
          BY <2>2
        <4> QED
          BY <1>10, <4>1 DEF Inv, Proved
      <3>3. data = "initial"
        BY <1>10 DEF Inv, Proved
      <3> QED
        BY <3>1, <3>2, <3>3
    <2>6. AllOpen => [lab EXCEPT !["N3"] = "blocked"] = Faulty("partition")
      BY <1>2 DEF AllOpen, Faulty, Node
    <2>7. lab' = Faulty("partition") /\ k - 1 < 3
      <3>1. k = 3 \/ k \in {1, 2}
        OBVIOUS
      <3> QED
        BY <2>4, <2>5, <2>6, <3>1
    <2>8. LabAsPlanned'
      BY <1>1, <1>2, <1>5, <1>10, <2>1, <2>3, <2>7, InjectionIs DEF LabAsPlanned
    <2>9. k - 1 <= 1 => Injected3 \in controls'
      BY <1>2, <2>4, <2>5
    <2>10. Proved'
      BY <1>1, <1>2, <1>5, <1>10, <2>3, <2>5, <2>9 DEF Proved
    <2> QED
      BY <1>1, <2>8, <2>10 DEF Inv
  <1>11. CASE pc = "inject" /\ case.scenario = "node_stop"
    <2>1. /\ Typed /\ Left(Injection("node_stop")) /\ Len(Injection("node_stop")) = 2
      BY <1>11, InjectionIs DEF Inv, OnPlan
    <2>2. PICK k \in 1 .. 2 : k = Len(todo)
      BY <1>2, <2>1, HeadOfStop
    <2>3. Len(todo') = k - 1
      BY <1>1, <2>2
    <2>4. /\ k = 2 => lab' = [lab EXCEPT !["N3"] = "down"] /\ Stopped3 \in controls'
          /\ k = 1 => lab' = lab
      <3>1. k = 2 \/ k = 1
        OBVIOUS
      <3> QED
        BY <1>2, <1>4, <1>6, <2>1, <2>2, <3>1, HeadOfStop DEF Effect, Stopped3
    <2>5. /\ (k = 2 /\ AllOpen) \/ (k < 2 /\ lab = Faulty("node_stop"))
          /\ k = 1 => Stopped3 \in controls
          /\ data = "initial"
      <3>1. (k = 2 /\ AllOpen) \/ (k < 2 /\ lab = Faulty("node_stop"))
        <4>1. Len(Injection(case.scenario)) = 2
          BY <1>11, <2>1
        <4>2. \/ Len(todo) = Len(Injection(case.scenario)) /\ AllOpen
              \/ Len(todo) < Len(Injection(case.scenario)) /\ lab = Faulty(case.scenario)
          BY <1>11 DEF Inv, LabAsPlanned
        <4>3. Faulty(case.scenario) = Faulty("node_stop") /\ k = Len(todo)
          BY <1>11, <2>2
        <4> QED
          BY <4>1, <4>2, <4>3
      <3>2. k = 1 => Stopped3 \in controls
        <4>1. k = 1 => Len(todo) <= 1
          BY <2>2
        <4> QED
          BY <1>11, <4>1 DEF Inv, Proved
      <3>3. data = "initial"
        BY <1>11 DEF Inv, Proved
      <3> QED
        BY <3>1, <3>2, <3>3
    <2>6. AllOpen => [lab EXCEPT !["N3"] = "down"] = Faulty("node_stop")
      BY <1>2 DEF AllOpen, Faulty, Node
    <2>7. lab' = Faulty("node_stop") /\ k - 1 < 2
      <3>1. k = 2 \/ k = 1
        OBVIOUS
      <3> QED
        BY <2>4, <2>5, <2>6, <3>1
    <2>8. LabAsPlanned'
      BY <1>1, <1>2, <1>5, <1>11, <2>1, <2>3, <2>7 DEF LabAsPlanned
    <2>9. Stopped3 \in controls'
      BY <1>2, <2>4, <2>5
    <2>10. Proved'
      BY <1>1, <1>2, <1>5, <1>11, <2>3, <2>5, <2>9 DEF Proved
    <2> QED
      BY <1>1, <2>8, <2>10 DEF Inv
  <1>12. CASE pc = "inject" /\ case.scenario = "normal"
    <2>1. Len(todo) <= Len(<< >>)
      BY <1>12, InjectionIs DEF Inv, OnPlan, Left
    <2> QED
      BY <1>3, <2>1
  <1>13. case.scenario \in {"normal", "node_stop", "partition"}
    BY DEF Inv, Typed, Scenarios
  <1> QED
    BY <1>1, <1>7, <1>8, <1>9, <1>10, <1>11, <1>12, <1>13

LEMMA FailedStep ==
  ASSUME Inv, Failed
  PROVE  Inv'
  <1>1. pc \in {"preflight", "inject", "measure", "recover"} /\ todo # << >> /\ signals' = signals
    BY DEF Failed, Inv, OnPlan
  <1>2. pc = "recover" => Head(todo).do \notin {"isolate", "stop"}
    <2>1. ASSUME pc = "recover" PROVE Head(todo).do \notin {"isolate", "stop"}
      <3>1. PICK k \in 1 .. 10 : k = Len(todo)
        BY <1>1, <2>1, HeadOfRecovery
      <3>2. k = 3 \/ k = 2 \/ k = 1 \/ k > 3
        OBVIOUS
      <3> QED
        BY <1>1, <2>1, <3>1, <3>2, HeadOfRecovery DEF Do, Views
    <2> QED
      BY <2>1
  <1>3. InTry \/ pc = "recover"
    BY <1>1 DEF InTry
  <1>4. /\ InTry \/ lab' = lab
        /\ data' \in {"fresh", "initial", "mixed", "partial"} /\ signals' \in Nat
    BY <1>1, <1>2, <1>3 DEF Failed, Inv, Typed
  <1> QED
    BY <1>3, <1>4, RaiseStep DEF Failed

LEMMA ControlStep ==
  ASSUME Inv, Control
  PROVE  Inv'
  BY ControlCases, EffectStep, FailedStep DEF Inv

-----------------------------------------------------------------------------
(* run() from one stage to the next *)

(* The end of a stage leaves the lab, the proofs and the files alone.        *)
LEMMA StageKeeps ==
  ASSUME Inv, UNCHANGED <<labVars, signals, fileVars, controls, case>>,
         pc \in {"preflight", "prepare", "inject", "workload", "measure", "export",
                 "exported", "except", "recover"}
  PROVE  /\ \A m : Fixed(m)' = Fixed(m)
         /\ AllOpen' = AllOpen /\ AllFixed' = AllFixed
         /\ Faulty(case.scenario)' = Faulty(case.scenario)
         /\ Verified(summaries)' = Verified(summaries)
         /\ completion = "none" /\ completion' = "none" /\ meta.recovered = FALSE
         /\ \A i \in 1 .. Len(summaries) : Good(summaries[i])
  <1>1. completion = "none" /\ \A i \in 1 .. Len(summaries) : Good(summaries[i])
    BY DEF Inv, Files
  <1>2. meta.recovered = FALSE
    BY DEF Inv, Typed, Failures, Meta
  <1>3. Verified(summaries)' = Verified(summaries) /\ Faulty(case.scenario)' = Faulty(case.scenario)
    BY DEF fileVars, Verified, Faulty
  <1>4. /\ \A m : Fixed(m)' = Fixed(m)
        /\ AllOpen' = AllOpen /\ AllFixed' = AllFixed
    BY DEF labVars, Fixed, AllOpen, AllFixed
  <1> QED
    BY <1>1, <1>2, <1>3, <1>4 DEF fileVars

(* Files says nothing of the stages of a case but that the case is not over. *)
LEMMA StageFiles ==
  ASSUME Inv, UNCHANGED fileVars,
         pc \in {"preflight", "prepare", "inject", "workload", "measure", "export",
                 "exported", "except", "recover"},
         pc' \in {"preflight", "prepare", "inject", "workload", "measure", "export",
                  "exported", "except", "recover", "save"}
  PROVE  Files'
  <1>1. Verified(summaries)' = Verified(summaries)
    BY DEF fileVars, Verified
  <1>2. completion = "none" /\ \A i \in 1 .. Len(summaries) : Good(summaries[i])
    BY DEF Inv, Files
  <1> QED
    BY <1>1, <1>2 DEF Inv, Files, fileVars

LEMMA ConnectStep ==
  ASSUME Inv, Connect
  PROVE  Inv'
  <1>1. /\ pc = "preflight" /\ todo = << >> /\ UNCHANGED <<labVars, signals, fileVars>>
    BY DEF Connect, InStage
  <1>2. CASE Raise /\ UNCHANGED caseVars
    BY <1>1, <1>2, RaiseStep DEF caseVars, labVars, InTry, Inv, Typed
  <1>3. CASE /\ attempt' = attempt + 1 /\ NewTrial /\ Goto("prepare", << >>)
             /\ UNCHANGED <<case, controls, settled, workloads, probed>>
    <2>1. /\ pc' = "prepare" /\ todo' = << >> /\ failure' = failure /\ meta' = meta /\ data' = "fresh"
      BY <1>3 DEF Goto, NewTrial
    <2>2. AllOpen /\ failure = "none" /\ meta.evidence = FALSE /\ abandoned = {}
      <3>1. Len(todo) <= 1
        BY <1>1
      <3> QED
        BY <1>1, <3>1 DEF Inv, LabAsPlanned, Failures, InTry, Typed, Meta
    <2>3. Files' /\ AllOpen' /\ meta.recovered = FALSE
      BY <1>1, <1>3, <2>1, <2>2, StageFiles, StageKeeps
    <2>4. Typed'
      BY <1>1, <1>3, <2>1 DEF Inv, Typed, labVars, fileVars
    <2>5. OnPlan' /\ LabAsPlanned'
      BY <2>1, <2>3 DEF OnPlan, LabAsPlanned
    <2>6. Proved'
      BY <1>1, <1>3, <2>1 DEF Inv, Proved
    <2>7. Failures'
      BY <1>1, <2>1, <2>2, <2>3 DEF Failures, InTry, labVars
    <2> QED
      BY <2>3, <2>4, <2>5, <2>6, <2>7 DEF Inv
  <1> QED
    BY <1>2, <1>3 DEF Connect

LEMMA PrepareStep ==
  ASSUME Inv, Prepare
  PROVE  Inv'
  <1>1. /\ pc = "prepare" /\ todo = << >> /\ UNCHANGED <<labVars, signals, fileVars>>
        /\ UNCHANGED <<case, attempt, controls, settled, workloads, probed>>
    BY DEF Prepare, InStage
  <1>2. /\ AllOpen /\ data = "fresh" /\ failure = "none" /\ meta.evidence = FALSE /\ abandoned = {}
        /\ case.scenario \in Scenarios
        /\ probed => Cut1 \in controls
    BY <1>1 DEF Inv, LabAsPlanned, Proved, Failures, InTry, Typed, Meta
  <1>3. AllOpen' /\ meta.recovered = FALSE
    BY <1>1, <1>2, StageKeeps
  <1>4. CASE data' = "partial" /\ Raise
    BY <1>1, <1>4, RaiseStep DEF labVars, InTry, Inv, Typed
  <1>5. CASE data' = "partial" /\ MayRetry /\ Goto("preflight", Preflight)
    <2>1. pc' = "preflight" /\ todo' = Preflight /\ failure' = failure /\ meta' = meta
      BY <1>5 DEF Goto
    <2>2. Left(Preflight)' /\ todo' \in Seq(StepSet) /\ Len(todo') = 10
      BY <2>1, LeftStart, PreflightIs
    <2>3. Files'
      BY <1>1, <2>1, StageFiles
    <2>4. Typed'
      BY <1>1, <1>5, <2>1, <2>2 DEF Inv, Typed, labVars, fileVars
    <2>5. OnPlan' /\ LabAsPlanned'
      BY <1>3, <2>1, <2>2 DEF OnPlan, LabAsPlanned, AllOpen, Node
    <2>6. Proved'
      BY <1>1, <2>1 DEF Inv, Proved
    <2>7. Failures'
      BY <1>1, <1>2, <1>3, <2>1 DEF Failures, InTry, labVars
    <2> QED
      BY <2>3, <2>4, <2>5, <2>6, <2>7 DEF Inv
  <1>6. CASE /\ data' = IF data = "fresh" THEN "initial" ELSE "mixed"
             /\ Goto("inject", Injection(case.scenario))
    <2>1. /\ pc' = "inject" /\ todo' = Injection(case.scenario) /\ failure' = failure /\ meta' = meta
          /\ data' = "initial"
      BY <1>2, <1>6 DEF Goto
    <2>2. PICK sc \in Scenarios : sc = case.scenario
      BY <1>2
    <2>3. Injection(sc) \in Seq(StepSet) /\ (sc # "normal" => ~(Len(Injection(sc)) <= 1))
      <3>1. CASE sc = "partition"
        BY <3>1, InjectionIs, IsolationIs DEF Node
      <3>2. CASE sc = "node_stop"
        BY <3>2, InjectionIs
      <3>3. CASE sc = "normal"
        <4>1. << >> \in Seq(StepSet)
          OBVIOUS
        <4> QED
          BY <3>3, <4>1, InjectionIs
      <3> QED
        BY <3>1, <3>2, <3>3 DEF Scenarios
    <2>4. Left(Injection(sc))' /\ todo' = Injection(sc) /\ todo' \in Seq(StepSet) /\ case'.scenario = sc
      BY <1>1, <2>1, <2>2, <2>3, LeftStart
    <2>5. Files'
      BY <1>1, <2>1, StageFiles
    <2>6. Typed'
      BY <1>1, <2>1, <2>4 DEF Inv, Typed, labVars, fileVars
    <2>7. OnPlan' /\ LabAsPlanned'
      BY <1>3, <2>1, <2>4 DEF OnPlan, LabAsPlanned
    <2>8. Proved'
      BY <1>1, <1>2, <2>1, <2>3, <2>4 DEF Proved
    <2>9. Failures'
      BY <1>1, <1>2, <1>3, <2>1 DEF Failures, InTry, labVars
    <2> QED
      BY <2>5, <2>6, <2>7, <2>8, <2>9 DEF Inv
  <1> QED
    BY <1>4, <1>5, <1>6 DEF Prepare

LEMMA InjectedStep ==
  ASSUME Inv, Injected
  PROVE  Inv'
  <1>1. /\ pc = "inject" /\ todo = << >> /\ UNCHANGED <<labVars, signals, fileVars>> /\ UNCHANGED caseVars
        /\ pc' = "workload" /\ todo' = << >> /\ failure' = failure /\ meta' = meta
    BY DEF Injected, InStage, Goto
  <1>2. /\ case' = case /\ controls' = controls /\ data' = data /\ probed' = probed
        /\ lab' = lab /\ abandoned' = abandoned
    BY <1>1 DEF caseVars, labVars
  <1>3. /\ failure = "none" /\ meta.evidence = FALSE /\ abandoned = {}
        /\ case.scenario \in Scenarios
    BY <1>1 DEF Inv, Failures, InTry, Typed, Meta
  <1>4. Len(todo) = 0 /\ Len(todo) <= 1
    BY <1>1
  <1>5. lab = Faulty(case.scenario)
    <2>1. \/ 0 = Len(Injection(case.scenario)) /\ AllOpen
          \/ lab = Faulty(case.scenario)
      BY <1>1, <1>4 DEF Inv, LabAsPlanned
    <2>2. case.scenario # "normal" => Len(Injection(case.scenario)) # 0
      BY <1>3, InjectionIs, IsolationIs DEF Scenarios, Node
    <2>3. AllOpen => lab = Faulty("normal")
      BY DEF Inv, Typed, AllOpen, Faulty, Node
    <2> QED
      BY <2>1, <2>2, <2>3
  <1>6. Files' /\ meta.recovered = FALSE /\ Faulty(case.scenario)' = Faulty(case.scenario)
    BY <1>1, <1>2, StageFiles, StageKeeps
  <1>7. Typed'
    BY <1>1 DEF Inv, Typed, caseVars, labVars, fileVars
  <1>8. OnPlan' /\ LabAsPlanned'
    BY <1>1, <1>2, <1>5, <1>6 DEF OnPlan, LabAsPlanned
  <1>9. Proved'
    BY <1>1, <1>2, <1>4 DEF Inv, Proved
  <1>10. Failures'
    BY <1>1, <1>2, <1>3, <1>6 DEF Failures, InTry
  <1> QED
    BY <1>6, <1>7, <1>8, <1>9, <1>10 DEF Inv

LEMMA WorkloadStep ==
  ASSUME Inv, Workload
  PROVE  Inv'
  <1>1. /\ pc = "workload" /\ todo = << >> /\ UNCHANGED <<labVars, signals, fileVars>>
        /\ settled' = FALSE /\ UNCHANGED <<case, attempt, data, controls, probed>>
        /\ failure' = failure /\ meta' = meta
        /\ \/ pc' = "export" /\ todo' = << >>
           \/ pc' = "measure" /\ todo' = Measurement
    BY DEF Workload, InStage, Goto
  <1>2. /\ failure = "none" /\ meta.evidence = FALSE /\ abandoned = {} /\ lab = Faulty(case.scenario)
    BY <1>1 DEF Inv, Failures, InTry, Typed, Meta, LabAsPlanned
  <1>3. Files' /\ meta.recovered = FALSE /\ Faulty(case.scenario)' = Faulty(case.scenario)
    BY <1>1, StageFiles, StageKeeps
  <1>4. /\ pc' = "measure" => Left(Measurement)' /\ Len(todo') = 3 /\ ~(Len(todo') <= 1)
        /\ todo' \in Seq(StepSet)
    <2>1. Measurement \in Seq(StepSet) /\ Len(Measurement) = 3
      BY IsolationIs DEF Measurement, Node
    <2>2. todo' = Measurement => Left(Measurement)' /\ Len(todo') = 3
      BY <2>1, LeftStart
    <2>3. << >> \in Seq(StepSet) /\ ~(3 <= 1)
      OBVIOUS
    <2> QED
      BY <1>1, <2>1, <2>2, <2>3
  <1>5. Typed'
    BY ZenonT(40), <1>1, <1>4 DEF Inv, Typed, labVars, fileVars
  <1>6. OnPlan' /\ LabAsPlanned'
    BY <1>1, <1>2, <1>3, <1>4 DEF OnPlan, LabAsPlanned, labVars
  <1>7. Proved'
    BY <1>1, <1>4 DEF Inv, Proved
  <1>8. Failures'
    BY <1>1, <1>2, <1>3 DEF Failures, InTry, labVars
  <1> QED
    BY <1>3, <1>5, <1>6, <1>7, <1>8 DEF Inv

LEMMA ProbeStep ==
  ASSUME Inv, Probe
  PROVE  Inv'
  <1>1. /\ pc = "measure" /\ todo = << >> /\ UNCHANGED <<labVars, signals, fileVars>>
        /\ probed' = TRUE /\ settled' = FALSE
        /\ UNCHANGED <<case, attempt, data, controls, workloads>>
        /\ pc' = "export" /\ todo' = << >> /\ failure' = failure /\ meta' = meta
    BY DEF Probe, InStage, Goto
  <1>2. /\ failure = "none" /\ meta.evidence = FALSE /\ abandoned = {}
    BY <1>1 DEF Inv, Failures, InTry, Typed, Meta
  <1>3. Cut1 \in controls
    <2>1. Len(todo) <= 1
      BY <1>1
    <2> QED
      BY <1>1, <2>1 DEF Inv, Proved
  <1>4. Files' /\ meta.recovered = FALSE
    BY <1>1, StageFiles, StageKeeps
  <1>5. Typed'
    BY <1>1 DEF Inv, Typed, labVars, fileVars
  <1>6. OnPlan' /\ LabAsPlanned'
    BY <1>1, <1>4 DEF OnPlan, LabAsPlanned
  <1>7. Proved'
    BY <1>1, <1>3 DEF Inv, Proved
  <1>8. Failures'
    BY <1>1, <1>2, <1>4 DEF Failures, InTry, labVars
  <1> QED
    BY <1>4, <1>5, <1>6, <1>7, <1>8 DEF Inv

(* No record of run() is rejected.                                           *)
LEMMA ExportEvidence ==
  ASSUME Inv, pc = "export"
  PROVE  Evidence
  BY DEF Inv, Proved, Evidence, Injected3, Stopped3, Cut1

LEMMA ExportStep ==
  ASSUME Inv, Export
  PROVE  Inv'
  <1>1. /\ pc = "export" /\ todo = << >> /\ UNCHANGED <<labVars, signals, fileVars>> /\ UNCHANGED caseVars
        /\ meta' = [meta EXCEPT !.evidence = TRUE] /\ pc' = "exported"
        /\ todo' = todo /\ failure' = failure
    BY ExportEvidence DEF Export, InStage
  <1>2. /\ failure = "none" /\ abandoned = {} /\ meta \in Meta
    BY <1>1 DEF Inv, Failures, InTry, Typed
  <1>3. Files' /\ meta.recovered = FALSE
    BY <1>1, StageFiles, StageKeeps DEF caseVars
  <1>4. meta' \in Meta /\ meta'.evidence = TRUE /\ meta'.recovered = FALSE
    BY <1>1, <1>2, <1>3 DEF Meta
  <1>5. Typed'
    BY <1>1, <1>4 DEF Inv, Typed, labVars, caseVars, fileVars
  <1>6. OnPlan' /\ LabAsPlanned'
    BY <1>1, <1>4 DEF OnPlan, LabAsPlanned
  <1>7. Proved'
    BY <1>1 DEF Inv, Proved, caseVars
  <1>8. Evidence'
    BY <1>1, ExportEvidence DEF Evidence, caseVars
  <1>9. Failures'
    BY <1>1, <1>2, <1>4, <1>8 DEF Failures, InTry, labVars
  <1> QED
    BY <1>3, <1>5, <1>6, <1>7, <1>9 DEF Inv

LEMMA FinallyStep ==
  ASSUME Inv, Finally
  PROVE  Inv'
  <1>1. /\ pc \in {"exported", "except"} /\ todo = << >> /\ UNCHANGED <<labVars, signals, fileVars>>
        /\ UNCHANGED caseVars
    BY DEF Finally, InStage
  <1>2. CASE pc = "except" /\ Raise
    BY <1>1, <1>2, RaiseStep DEF caseVars, labVars, Inv, Typed
  <1>3. CASE Goto("recover", Recovery)
    <2>1. pc' = "recover" /\ todo' = Recovery /\ failure' = failure /\ meta' = meta
      BY <1>3 DEF Goto
    <2>2. Left(Recovery)' /\ todo' \in Seq(StepSet) /\ Len(todo') = 10
      BY <2>1, RecoveryIs, LeftStart
    <2>3. ~(10 <= 1) /\ ~(10 <= 2) /\ 10 # 0
      OBVIOUS
    <2>4. Files' /\ meta.recovered = FALSE
      BY <1>1, <2>1, StageFiles, StageKeeps DEF caseVars
    <2>5. Typed'
      BY <1>1, <2>1, <2>2 DEF Inv, Typed, labVars, caseVars, fileVars
    <2>6. OnPlan' /\ LabAsPlanned'
      BY <2>1, <2>2, <2>3, <2>4 DEF OnPlan, LabAsPlanned
    <2>7. Proved'
      <3>1. probed' => Cut1 \in controls'
        BY <1>1 DEF Inv, Proved, caseVars
      <3> QED
        BY <2>1, <2>2, <2>3, <3>1, Zenon DEF Proved
    <2>8. meta.evidence => Evidence'
      <3>1. meta.evidence => Evidence
        BY DEF Inv, Failures
      <3> QED
        BY <1>1, <3>1 DEF Evidence, caseVars
    <2>9. /\ abandoned' # {} => failure' # "none"
          /\ failure' = "none" => meta'.evidence
      BY <1>1, <2>1 DEF Inv, Failures, labVars
    <2>10. Failures'
      BY <2>1, <2>4, <2>8, <2>9 DEF Failures, InTry
    <2> QED
      BY <2>4, <2>5, <2>6, <2>7, <2>10 DEF Inv
  <1> QED
    BY <1>2, <1>3 DEF Finally

LEMMA RecoveredStep ==
  ASSUME Inv, Recovered
  PROVE  Inv'
  <1>1. /\ pc = "recover" /\ todo = << >> /\ UNCHANGED <<labVars, signals, fileVars>>
        /\ UNCHANGED caseVars /\ failure' = failure
        /\ meta' = [meta EXCEPT !.recovered = TRUE] /\ pc' = "save" /\ todo' = << >>
    BY DEF Recovered, InStage
  <1>2. meta \in Meta /\ meta' \in Meta /\ meta'.recovered = TRUE /\ meta'.evidence = meta.evidence
    BY <1>1 DEF Inv, Typed, Meta
  <1>3. Len(todo) = 0 /\ Len(todo) <= 2
    BY <1>1
  <1>4. AllFixed /\ settled
    BY <1>1, <1>3 DEF Inv, LabAsPlanned, Proved
  <1>5. Files' /\ AllFixed'
    BY <1>1, <1>4, StageFiles, StageKeeps DEF caseVars
  <1>6. Typed'
    BY <1>1, <1>2 DEF Inv, Typed, labVars, caseVars, fileVars
  <1>7. OnPlan' /\ LabAsPlanned'
    BY <1>1, <1>5 DEF OnPlan, LabAsPlanned
  <1>8. Proved'
    BY <1>1 DEF Inv, Proved, caseVars
  <1>9. meta'.evidence => Evidence'
    <2>1. meta.evidence => Evidence
      BY DEF Inv, Failures
    <2> QED
      BY <1>1, <1>2, <2>1 DEF Evidence, caseVars
  <1>10. /\ abandoned' # {} => failure' # "none"
         /\ failure' = "none" => meta'.evidence
    BY <1>1, <1>2 DEF Inv, Failures, labVars
  <1>11. Failures'
    BY <1>1, <1>2, <1>4, <1>9, <1>10 DEF Failures, InTry, Good, caseVars
  <1> QED
    BY <1>5, <1>6, <1>7, <1>8, <1>11 DEF Inv

-----------------------------------------------------------------------------
(* From one case to the next, and the end of the run *)

LEMMA AllVerified ==
  ASSUME NEW s \in Seq(Meta), \A i \in 1 .. Len(s) : Good(s[i])
  PROVE  Verified(s) = Len(s)
  <1>1. DOMAIN s = 1 .. Len(s) /\ Len(s) \in Nat
    OBVIOUS
  <1>2. {i \in DOMAIN s : s[i].evidence /\ s[i].recovered} = 1 .. Len(s)
    BY <1>1 DEF Good
  <1> QED
    BY <1>1, <1>2, CardInterval DEF Verified

LEMMA VerifiedIsNat ==
  ASSUME NEW s \in Seq(Meta)
  PROVE  Verified(s) \in Nat
  <1> DEFINE S == {i \in DOMAIN s : s[i].evidence /\ s[i].recovered}
  <1>1. S \subseteq 1 .. Len(s) /\ Len(s) \in Nat
    OBVIOUS
  <1>2. Facts!IsFiniteSet(1 .. Len(s))
    BY <1>1, Facts!FS_Interval
  <1>3. Facts!Cardinality(S) \in Nat
    BY <1>1, <1>2, Facts!FS_Subset, Facts!FS_CardinalityType
  <1>4. Facts!Cardinality(S) = Cardinality(S)
    BY Zenon DEF Facts!Cardinality, Cardinality
  <1> QED
    BY <1>3, <1>4 DEF Verified

LEMMA BeginStep ==
  ASSUME Inv, BeginCase
  PROVE  Inv'
  <1>1. /\ pc = "next case" /\ Len(summaries) < Total
        /\ UNCHANGED <<labVars, signals, summaries, completion>>
    BY DEF BeginCase
  <1>2. /\ failure = "none" /\ abandoned = {} /\ completion = "none" /\ todo = << >>
        /\ \A i \in 1 .. Len(summaries) : Good(summaries[i])
        /\ progress.status # "failed"
    BY <1>1 DEF Inv, OnPlan, Failures, Files
  <1>3. CASE /\ case' \in [scenario : Scenarios, dependency : BOOLEAN]
             /\ attempt' = 0 /\ data' = "fresh" /\ controls' = {}
             /\ settled' = FALSE /\ workloads' = 0 /\ probed' = FALSE
             /\ failure' = "none"
             /\ meta' = [evidence |-> FALSE, recovered |-> FALSE]
             /\ progress' = [status |-> "running", completed |-> Len(summaries)]
             /\ pc' = "preflight" /\ todo' = Preflight
    <2>1. Left(Preflight)' /\ todo' \in Seq(StepSet) /\ Len(todo') = 10
      BY <1>3, LeftStart, PreflightIs
    <2>2. ~(10 <= 1) /\ ~(10 <= 2)
      OBVIOUS
    <2>3. summaries \in Seq(Meta) /\ Len(summaries) \in Nat
      <3>1. summaries \in Seq(Meta)
        BY DEF Inv, Typed
      <3> QED
        BY <3>1
    <2>4. Typed'
      BY <1>1, <1>3, <2>1, <2>3 DEF Inv, Typed, labVars, Meta
    <2>5. OnPlan'
      BY <1>3, <2>1 DEF OnPlan
    <2>6. LabAsPlanned'
      BY <1>3, <2>1, <2>2 DEF LabAsPlanned
    <2>7. Proved'
      BY <1>3 DEF Proved
    <2>8. Failures'
      BY <1>1, <1>2, <1>3 DEF Failures, InTry, labVars
    <2>9. Verified(summaries)' = Len(summaries)
      <3>1. Verified(summaries) = Len(summaries)
        BY <1>2, <2>3, AllVerified
      <3> QED
        BY <1>1, <3>1 DEF Verified
    <2>10. progress'.completed <= Verified(summaries)'
      BY <1>3, <2>3, <2>9
    <2>11. Files'
      BY <1>1, <1>2, <1>3, <2>10 DEF Files
    <2> QED
      BY <2>4, <2>5, <2>6, <2>7, <2>8, <2>11 DEF Inv
  <1>4. CASE pc' = "died" /\ UNCHANGED <<caseVars, failure, meta, progress, todo>>
    <2>1. Verified(summaries)' = Verified(summaries) /\ AllFixed' = AllFixed
      BY <1>1 DEF Verified, AllFixed, Fixed, labVars
    <2>2. Typed' /\ OnPlan'
      BY <1>1, <1>2, <1>4 DEF Inv, Typed, OnPlan, labVars, caseVars
    <2>3. LabAsPlanned' /\ Proved'
      BY <1>4, <2>1 DEF Inv, LabAsPlanned, Proved, caseVars
    <2>4. meta.evidence => Evidence'
      <3>1. meta.evidence => Evidence
        BY DEF Inv, Failures
      <3> QED
        BY <1>4, <3>1 DEF Evidence, caseVars
    <2>5. meta.recovered => settled
      BY DEF Inv, Failures
    <2>6. Failures'
      BY <1>1, <1>2, <1>4, <2>4, <2>5 DEF Failures, InTry, labVars, caseVars
    <2>7. Files'
      BY <1>1, <1>2, <1>4, <2>1 DEF Inv, Files
    <2> QED
      BY <2>2, <2>3, <2>6, <2>7 DEF Inv
  <1> QED
    BY <1>1, <1>3, <1>4 DEF BeginCase

LEMMA SaveStep ==
  ASSUME Inv, SaveCase
  PROVE  Inv'
  <1>1. /\ pc = "save" /\ UNCHANGED <<labVars, signals, todo, caseVars, failure, meta, completion>>
    BY DEF SaveCase
  <1>2. /\ completion = "none" /\ todo = << >> /\ summaries \in Seq(Meta) /\ meta \in Meta
        /\ \A i \in 1 .. Len(summaries) : Good(summaries[i])
        /\ progress.completed <= Verified(summaries)
    BY <1>1 DEF Inv, OnPlan, Files, Typed
  <1>3. AllFixed' = AllFixed
    BY <1>1 DEF AllFixed, Fixed, labVars
  <1>4. meta'.evidence => Evidence'
    <2>1. meta.evidence => Evidence
      BY DEF Inv, Failures
    <2> QED
      BY <1>1, <2>1 DEF Evidence, caseVars
  <1>5. /\ abandoned' # {} => failure' # "none"
        /\ failure' = "none" => Good(meta')
        /\ meta'.recovered => settled'
    BY <1>1 DEF Inv, Failures, labVars, caseVars
  <1>6. CASE /\ pc' = "saved"
             /\ summaries' = Append(summaries, meta)
             /\ progress' = [status    |-> IF failure # "none" THEN "failed"
                                           ELSE IF Len(summaries') = Total
                                                THEN "complete" ELSE "running",
                             completed |-> Verified(summaries')]
    <2>1. /\ summaries' \in Seq(Meta) /\ Len(summaries') = Len(summaries) + 1
          /\ \A i \in 1 .. Len(summaries) : summaries'[i] = summaries[i]
          /\ summaries'[Len(summaries')] = meta
      BY <1>2, <1>6
    <2>2. \A i \in 1 .. Len(summaries') - 1 : Good(summaries'[i])
      <3>1. Len(summaries') - 1 = Len(summaries)
        BY <1>2, <2>1
      <3> QED
        BY <1>2, <2>1, <3>1
    <2>3. Verified(summaries') \in Nat
      BY <2>1, VerifiedIsNat
    <2>4. Typed'
      BY <1>1, <1>6, <2>1, <2>3 DEF Inv, Typed, labVars, caseVars
    <2>5. OnPlan' /\ LabAsPlanned' /\ Proved'
      BY <1>1, <1>2, <1>3, <1>6 DEF Inv, OnPlan, LabAsPlanned, Proved, caseVars
    <2>6. Failures'
      BY <1>1, <1>4, <1>5, <1>6 DEF Failures, InTry
    <2>7. Len(summaries') > 0
      BY <1>2, <2>1
    <2>8. /\ progress'.status = "failed" => failure' # "none"
          /\ Len(summaries') = Total /\ failure' = "none" => progress'.status = "complete"
          /\ progress'.completed = Verified(summaries')
      BY <1>1, <1>6
    <2>9. progress'.completed <= Verified(summaries)'
      BY <2>3, <2>8
    <2>10. Files'
      BY <1>1, <1>2, <1>6, <2>1, <2>2, <2>7, <2>8, <2>9 DEF Files
    <2> QED
      BY <2>4, <2>5, <2>6, <2>10 DEF Inv
  <1>7. CASE pc' = "died" /\ UNCHANGED <<summaries, progress>>
    <2>1. Verified(summaries)' = Verified(summaries)
      BY <1>7 DEF Verified
    <2>2. Typed'
      BY <1>1, <1>7 DEF Inv, Typed, labVars, caseVars
    <2>3. OnPlan' /\ LabAsPlanned' /\ Proved'
      BY <1>1, <1>2, <1>3, <1>7 DEF Inv, OnPlan, LabAsPlanned, Proved, caseVars
    <2>4. Failures'
      BY <1>1, <1>4, <1>5, <1>7 DEF Failures, InTry
    <2>5. Files'
      BY <1>1, <1>2, <1>7, <2>1 DEF Files
    <2> QED
      BY <2>2, <2>3, <2>4, <2>5 DEF Inv
  <1> QED
    BY <1>1, <1>6, <1>7 DEF SaveCase

LEMMA EndStep ==
  ASSUME Inv, EndCase
  PROVE  Inv'
  <1>1. /\ pc = "saved"
        /\ UNCHANGED <<labVars, signals, todo, caseVars, failure, meta, summaries, progress>>
        /\ \/ failure = "none" /\ pc' = "next case" /\ completion' = completion
           \/ failure = "raised" /\ pc' = "ended" /\ completion' = "incomplete"
           \/ failure = "escaping" /\ pc' = "died" /\ completion' = completion
    BY DEF EndCase, Inv, Typed
  <1>2. /\ completion = "none" /\ todo = << >> /\ summaries \in Seq(Meta)
        /\ Len(summaries) > 0 /\ summaries[Len(summaries)] = meta
        /\ \A i \in 1 .. Len(summaries) - 1 : Good(summaries[i])
        /\ progress.status = "failed" => failure # "none"
        /\ Len(summaries) = Total /\ failure = "none" => progress.status = "complete"
        /\ progress.completed <= Verified(summaries)
        /\ failure = "none" => Good(meta)
        /\ abandoned # {} => failure # "none"
        /\ meta.recovered => settled
    BY <1>1 DEF Inv, OnPlan, Files, Failures, Typed
  <1>3. AllFixed' = AllFixed /\ Verified(summaries)' = Verified(summaries)
    BY <1>1 DEF AllFixed, Fixed, labVars, Verified
  <1>4. meta'.evidence => Evidence'
    <2>1. meta.evidence => Evidence
      BY DEF Inv, Failures
    <2> QED
      BY <1>1, <2>1 DEF Evidence, caseVars
  <1>5. Typed'
    BY ZenonT(40), <1>1 DEF Inv, Typed, labVars, caseVars
  <1>6. OnPlan' /\ LabAsPlanned' /\ Proved'
    BY <1>1, <1>2, <1>3 DEF Inv, OnPlan, LabAsPlanned, Proved, caseVars
  <1>7. Failures'
    BY <1>1, <1>2, <1>4 DEF Failures, InTry, labVars, caseVars
  <1>8. failure = "none" => \A i \in 1 .. Len(summaries) : Good(summaries[i])
    <2>1. \A i \in 1 .. Len(summaries) : i \in 1 .. Len(summaries) - 1 \/ i = Len(summaries)
      BY <1>2
    <2> QED
      BY <1>2, <2>1
  <1>9. Files'
    BY <1>1, <1>2, <1>3, <1>8 DEF Files, Good
  <1> QED
    BY <1>5, <1>6, <1>7, <1>9 DEF Inv

LEMMA CompleteStep ==
  ASSUME Inv, Complete
  PROVE  Inv'
  <1>1. /\ pc = "next case" /\ Len(summaries) = Total /\ pc' = "ended" /\ completion' = "complete"
        /\ UNCHANGED <<labVars, signals, todo, caseVars, failure, meta, summaries, progress>>
    BY DEF Complete
  <1>2. Len(summaries) > 0
    <2>1. Total > 0
      BY TotalAssumption
    <2> QED
      BY <1>1, <2>1
  <1>3. /\ todo = << >> /\ failure = "none" /\ abandoned = {} /\ meta.recovered
        /\ \A i \in 1 .. Len(summaries) : Good(summaries[i])
        /\ progress.status = "complete" /\ progress.completed <= Verified(summaries)
        /\ AllFixed /\ settled
    BY <1>1, <1>2 DEF Inv, OnPlan, Files, Failures, LabAsPlanned
  <1>4. AllOpen' /\ AllFixed' /\ Verified(summaries)' = Verified(summaries)
    BY <1>1, <1>3 DEF AllFixed, AllOpen, Fixed, labVars, Verified
  <1>5. meta'.evidence => Evidence'
    <2>1. meta.evidence => Evidence
      BY DEF Inv, Failures
    <2> QED
      BY <1>1, <2>1 DEF Evidence, caseVars
  <1>6. Typed'
    BY <1>1 DEF Inv, Typed, labVars, caseVars
  <1>7. OnPlan' /\ LabAsPlanned' /\ Proved'
    BY <1>1, <1>3, <1>4 DEF Inv, OnPlan, LabAsPlanned, Proved, caseVars
  <1>8. Failures'
    BY <1>1, <1>3, <1>5 DEF Failures, InTry, labVars, caseVars
  <1>9. Files'
    BY <1>1, <1>3, <1>4 DEF Files, labVars
  <1> QED
    BY <1>6, <1>7, <1>8, <1>9 DEF Inv

LEMMA InterruptStep ==
  ASSUME Inv, Interrupt
  PROVE  Inv'
  <1>1. /\ ~Ended /\ signals' = signals + 1
        /\ UNCHANGED <<lab, caseVars, fileVars>>
    BY DEF Interrupt
  <1>2. Abandon \/ UNCHANGED abandoned
    BY DEF Interrupt
  <1>3. signals' \in Nat
    <2>1. signals \in Nat
      BY DEF Inv, Typed
    <2> QED
      BY <1>1, <2>1
  <1>4. abandoned \subseteq abandoned' /\ abandoned' \subseteq StepSet
    <2>1. todo # << >> => Head(todo) \in StepSet
      <3>1. todo \in Seq(StepSet)
        BY DEF Inv, Typed
      <3> QED
        BY <3>1
    <2> QED
      BY <1>2, <2>1 DEF Abandon, Inv, Typed
  <1>5. CASE InTry \/ pc \in {"except", "recover"}
    <2>1. Raise
      BY <1>5 DEF Interrupt
    <2> QED
      BY <1>1, <1>3, <1>4, <1>5, <2>1, RaiseStep DEF caseVars, Inv, Typed
  <1>6. CASE ~(InTry \/ pc \in {"except", "recover"})
    <2>1. /\ pc' = "died" /\ UNCHANGED <<todo, failure, meta>> /\ pc \in {"next case", "save", "saved"}
      BY <1>1, <1>6 DEF Interrupt, InTry, Ended, Inv, Typed
    <2>2. todo = << >> /\ abandoned' = abandoned /\ completion = "none"
      BY <1>2, <2>1 DEF Inv, OnPlan, Abandon, Files
    <2>3. AllFixed' = AllFixed /\ Verified(summaries)' = Verified(summaries)
      BY <1>1, <2>2 DEF AllFixed, Fixed, fileVars, Verified
    <2>4. meta'.evidence => Evidence'
      <3>1. meta.evidence => Evidence
        BY DEF Inv, Failures
      <3> QED
        BY <1>1, <2>1, <3>1 DEF Evidence, caseVars
    <2>5. Typed'
      BY <1>1, <1>3, <2>1, <2>2 DEF Inv, Typed, caseVars, fileVars
    <2>6. OnPlan' /\ LabAsPlanned' /\ Proved'
      BY <1>1, <2>1, <2>2, <2>3 DEF Inv, OnPlan, LabAsPlanned, Proved, caseVars
    <2>7. Failures'
      <3>1. /\ abandoned # {} => failure # "none"
            /\ meta.recovered => settled
        BY DEF Inv, Failures
      <3> QED
        BY <1>1, <2>1, <2>2, <2>4, <3>1 DEF Failures, InTry, caseVars
    <2>8. Files'
      BY <1>1, <2>1, <2>2, <2>3 DEF Inv, Files, fileVars
    <2> QED
      BY <2>5, <2>6, <2>7, <2>8 DEF Inv
  <1> QED
    BY <1>5, <1>6

(* What a step does late, it does where a step was abandoned; that is nowhere*)
(* before a failure.                                                         *)
LEMMA LateStep ==
  ASSUME Inv, Late
  PROVE  Inv'
  <1>1. /\ UNCHANGED <<abandoned, signals, pc, todo, caseVars, failure, meta, fileVars>>
        /\ \E s \in abandoned : \E c \in Condition \cup {lab[s.node]} :
              lab' = [lab EXCEPT ![s.node] = c]
    BY DEF Late, Condition
  <1>0. PICK s \in abandoned : \E c \in Condition \cup {lab[s.node]} :
              lab' = [lab EXCEPT ![s.node] = c]
    BY <1>1
  <1>2. PICK c \in Condition \cup {lab[s.node]} : lab' = [lab EXCEPT ![s.node] = c]
    BY <1>0
  <1>3. lab \in [Node -> Condition] /\ failure # "none"
    BY DEF Inv, Typed, Failures
  <1>4. lab' \in [Node -> Condition]
    BY <1>2, <1>3
  <1>5. \A m \in Node : Fixed(m) => Fixed(m)'
    BY <1>1, <1>2, <1>3 DEF Fixed
  <1>6. AllFixed => AllFixed'
    BY <1>5 DEF AllFixed
  <1>7. ~InTry /\ pc # "next case" /\ completion # "complete"
    BY <1>2, <1>3 DEF Inv, Failures, Files
  <1>8. Verified(summaries)' = Verified(summaries)
    BY <1>1 DEF fileVars, Verified
  <1>9. Typed'
    <2>1. abandoned' \subseteq StepSet /\ todo' \in Seq(StepSet)
      BY <1>1 DEF Inv, Typed
    <2> QED
      <3>1. /\ pc' = pc /\ signals' = signals /\ case' = case /\ data' = data /\ settled' = settled
            /\ probed' = probed /\ failure' = failure /\ meta' = meta /\ summaries' = summaries
            /\ progress' = progress /\ completion' = completion
        BY <1>1 DEF caseVars, fileVars
      <3>2. Typed
        BY DEF Inv
      <3> QED
        <4>1. signals' \in Nat /\ case' \in [scenario : Scenarios, dependency : BOOLEAN]
          BY <3>1, <3>2 DEF Typed
        <4>2. /\ data' \in {"fresh", "initial", "mixed", "partial"}
              /\ settled' \in BOOLEAN /\ probed' \in BOOLEAN
              /\ failure' \in {"none", "raised", "escaping"}
          BY <3>1, <3>2 DEF Typed
        <4>3. /\ meta' \in Meta /\ summaries' \in Seq(Meta)
              /\ progress' \in [status : {"running", "failed", "complete"}, completed : Nat]
              /\ completion' \in {"none", "incomplete", "complete"}
          BY <3>1, <3>2 DEF Typed
        <4>4. pc' \in {"next case", "preflight", "prepare", "inject", "workload", "measure",
               "export", "exported", "except", "recover", "save", "saved", "ended", "died"}
          BY <3>1, <3>2 DEF Typed
        <4> QED
          BY <1>4, <2>1, <4>1, <4>2, <4>3, <4>4 DEF Typed
  <1>10. OnPlan'
    BY <1>1, <1>7 DEF Inv, OnPlan, InTry, Left
  <1>11. LabAsPlanned'
    BY <1>1, <1>5, <1>6, <1>7 DEF Inv, LabAsPlanned, InTry, Node
  <1>12. Proved'
    BY <1>1 DEF Inv, Proved, caseVars
  <1>13. Failures'
    <2>1. Evidence' = Evidence
      BY <1>1 DEF Evidence, caseVars
    <2> QED
      BY <1>1, <2>1 DEF Inv, Failures, InTry, caseVars
  <1>14. Files'
    BY <1>1, <1>7, <1>8 DEF Inv, Files, fileVars
  <1> QED
    BY <1>9, <1>10, <1>11, <1>12, <1>13, <1>14 DEF Inv

-----------------------------------------------------------------------------
LEMMA InitInv ==
  ASSUME Init
  PROVE  Inv
  <1>0. Len(<< >>) = 0 /\ << >> \in Seq(StepSet) /\ << >> \in Seq(Meta)
    OBVIOUS
  <1>1. /\ pc = "next case" /\ todo = << >> /\ summaries = << >> /\ Len(summaries) = 0 /\ Len(todo) = 0
        /\ << >> \in Seq(StepSet) /\ << >> \in Seq(Meta)
        /\ progress = [status |-> "running", completed |-> 0] /\ completion = "none"
    BY <1>0 DEF Init
  <1>2. Typed
    <2>1. /\ summaries \in Seq(Meta) /\ todo \in Seq(StepSet)
      BY <1>1
    <2>2. /\ progress \in [status : {"running", "failed", "complete"}, completed : Nat]
          /\ meta \in Meta /\ case \in [scenario : Scenarios, dependency : BOOLEAN]
      <3>1. 0 \in Nat
        OBVIOUS
      <3>2. progress \in [status : {"running", "failed", "complete"}, completed : Nat]
        BY <1>1, <3>1
      <3>3. meta \in Meta
        BY DEF Init, Meta
      <3>4. case \in [scenario : Scenarios, dependency : BOOLEAN]
        BY DEF Init, Scenarios
      <3> QED
        BY <3>2, <3>3, <3>4
    <2> QED
      BY <1>1, <2>1, <2>2 DEF Init, Typed
  <1>3. OnPlan /\ LabAsPlanned /\ Proved /\ Failures
    BY <1>1 DEF Init, OnPlan, LabAsPlanned, Proved, Failures, InTry
  <1>4. Verified(summaries) \in Nat
    BY <1>2, VerifiedIsNat DEF Typed
  <1>5. Total > 0
    BY TotalAssumption
  <1>6. progress.completed <= Verified(summaries)
    <2>1. PICK v \in Nat : v = Verified(summaries)
      BY <1>4
    <2>2. 0 <= v
      OBVIOUS
    <2> QED
      BY <1>1, <2>1, <2>2
  <1>7. Files
    <2>1. /\ \A i \in 1 .. Len(summaries) : Good(summaries[i])
          /\ Len(summaries) # Total /\ ~(Len(summaries) > 0)
      <3>1. Len(summaries) = 0 /\ 0 # Total /\ ~(0 > 0)
        <4>1. 0 # Total /\ ~(0 > 0)
          BY TotalAssumption
        <4> QED
          BY <1>1, <4>1
      <3>2. \A i \in 1 .. 0 : FALSE
        OBVIOUS
      <3> QED
        BY <3>1, <3>2
    <2>2. progress.status = "running"
      BY <1>1
    <2> QED
      BY <1>1, <1>6, <2>1, <2>2 DEF Files
  <1> QED
    BY <1>2, <1>3, <1>7 DEF Inv

LEMMA NextInv ==
  ASSUME Inv, [Next]_vars
  PROVE  Inv'
  <1>1. CASE Run
    BY <1>1, ControlStep, BeginStep, ConnectStep, PrepareStep, InjectedStep, WorkloadStep,
       ProbeStep, ExportStep, FinallyStep, RecoveredStep, SaveStep, EndStep, CompleteStep DEF Run
  <1>2. CASE UNCHANGED vars
    <2>1. /\ Typed' = Typed /\ OnPlan' = OnPlan
      BY <1>2 DEF vars, labVars, caseVars, fileVars, Typed, OnPlan, Left
    <2>2. LabAsPlanned' = LabAsPlanned /\ Proved' = Proved
      BY <1>2 DEF vars, labVars, caseVars, fileVars, LabAsPlanned, Proved, AllOpen, AllFixed, Fixed
    <2>3. Failures' = Failures
      BY <1>2 DEF vars, labVars, caseVars, fileVars, Failures, InTry, Evidence
    <2>4. Files' = Files
      BY <1>2 DEF vars, labVars, caseVars, fileVars, Files, Verified, AllOpen
    <2> QED
      BY <2>1, <2>2, <2>3, <2>4 DEF Inv
  <1> QED
    BY <1>1, <1>2, InterruptStep, LateStep DEF Next

LEMMA Invariance == Spec => []Inv
  BY InitInv, NextInv, PTL DEF Spec

(* The workload meets exactly the fault of its scenario and fresh data, and  *)
(* the probe a node cut off besides, for any number of cases and of SIGTERMs *)
(* (run(), LabControl.prepare_fault()).                                      *)
THEOREM AsPlanned == Spec => []StartsAsPlanned
  <1>1. Inv => StartsAsPlanned
    <2>1. ASSUME Inv, pc = "measure", todo = << >>
          PROVE  lab = [Faulty(case.scenario) EXCEPT !["N1"] = "blocked"]
      <3>1. Len(todo) # 3
        BY <2>1
      <3> QED
        BY <2>1, <3>1 DEF Inv, LabAsPlanned
    <2> QED
      BY <2>1 DEF Inv, LabAsPlanned, Proved, StartsAsPlanned
  <1> QED
    BY <1>1, Invariance, PTL

(* verify_record() rejects no record of run(), and the audit no case that    *)
(* run() counts as completed (verify_record(), summarize_completed.py).      *)
THEOREM EvidenceStays == Spec => []EvidenceHolds
  <1>1. Inv => EvidenceHolds
    <2>1. ASSUME Inv, pc = "saved", Verified(<<meta>>) = 1 PROVE Audited
      <3>1. Good(meta)
        <4>1. SUFFICES ASSUME ~Good(meta) PROVE FALSE
          OBVIOUS
        <4>2. {i \in DOMAIN <<meta>> : <<meta>>[i].evidence /\ <<meta>>[i].recovered} = {}
          BY <4>1 DEF Good
        <4>3. Cardinality({}) = 0
          <5>1. Facts!Cardinality({}) = 0
            BY Facts!FS_EmptySet
          <5>2. Facts!Cardinality({}) = Cardinality({})
            BY Zenon DEF Facts!Cardinality, Cardinality
          <5> QED
            BY <5>1, <5>2
        <4> QED
          BY <2>1, <4>2, <4>3 DEF Verified
      <3> QED
        BY <2>1, <3>1 DEF Inv, Failures, Good, Audited
    <2> QED
      BY <2>1, ExportEvidence DEF EvidenceHolds
  <1> QED
    BY <1>1, Invariance, PTL

(* recovery_verified is true of every node no step of which was abandoned    *)
(* (recover(), verify_recovery()).                                           *)
THEOREM RecoveryReal == Spec => []RecoveryIsReal
  <1>1. Inv => RecoveryIsReal
    BY DEF Inv, LabAsPlanned, AllFixed, Fixed, RecoveryIsReal
  <1> QED
    BY <1>1, Invariance, PTL

(* completion.json and progress.json say what the cases were, for any number *)
(* of cases (run()).                                                         *)
THEOREM CompletionHonest == Spec => []CompletionIsHonest
  <1>1. Inv => CompletionIsHonest
    <2> SUFFICES ASSUME Inv PROVE CompletionIsHonest
      OBVIOUS
    <2>1. summaries \in Seq(Meta)
      BY DEF Inv, Typed
    <2>2. (\A i \in 1 .. Len(summaries) : Good(summaries[i])) => Verified(summaries) = Len(summaries)
      BY <2>1, AllVerified
    <2> QED
      BY <2>2 DEF Inv, Files, AllOpen, CompletionIsHonest
  <1> QED
    BY <1>1, Invariance, PTL
===============================================================================
