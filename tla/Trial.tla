-------------------------------- MODULE Trial --------------------------------
(***************************************************************************)
(* One experimental case: Trial.prepare, the fault, Trial.workload, the    *)
(* measurement isolation and Trial.probe (src/scripts/run_real_experiments *)
(* .py, driven by reproduce_independent.py), over the cluster.  Replicas   *)
(* apply late mutations between any two requests.                          *)
(*                                                                         *)
(* The pinned session of a node reaches that node or fails                 *)
(* (_session_for_step), so the coordinator of a request is its node.       *)
(***************************************************************************)
EXTENDS Cluster, Checker

Scenarios == {"normal", "node_stop", "partition"}
Levels == {"ONE", "QUORUM", "ALL"}

ASSUME NodeAssumption == {"N1", "N2", "N3"} = Node
ASSUME KeyAssumption  == {"x", "y"} = Key
ASSUME NoneIsNoWriteId == None = NoWriteId

(* The write identifiers of a case, without its name.                        *)
WriteIds == {"x:initial", "y:initial", "x:new", "x:cause", "y:effect"}

ASSUME NoneIsNoValue ==
    /\ None \notin Int \cup WriteIds \cup Verdicts \cup Node
    /\ None \notin Key \cup {"A", "B", "observer", "verified N1"}
    /\ None \notin [key : Key, min_version : {0, 1}, write_id : WriteIds]

VARIABLES case,      \* [scenario, consistency, property]
          pc,        \* the next statement
          verified,  \* the number of nodes prepare has read x through
          history,   \* self.history
          result     \* self.result.status, None before there is one

trialVars == <<case, pc, verified, history, result>>
vars == <<clusterVars, trialVars>>

Cases == [scenario : Scenarios, consistency : Levels, property : Properties]

Init == /\ ClusterInit
        /\ case \in Cases
        /\ pc = "prepare x"
        /\ verified = 0
        /\ history = <<>>
        /\ result = None

-----------------------------------------------------------------------------
(* Observations.                                                             *)
Observed(op, ok, c, n, k, v, id, dep) ==
    [op |-> op, status |-> IF ok THEN "ok" ELSE "error", client |-> c,
     node |-> n, key |-> k, version |-> v, write_id |-> id,
     depends_on |-> dep, mock |-> FALSE, seq |-> None]

Last == history[Len(history)]

(* operation("write", ...)                                                   *)
WriteOp(n, c, k, id, dep, ok) ==
    /\ Write(n, k, 1, id, case.consistency, ok)
    /\ history' = Append(history, Observed("write", ok, c, n, k, 1, id, dep))

(* What a read of k through n observes when the replicas in S answer: a      *)
(* missing row has version 0; a failed request has neither version nor id.   *)
Row(n, c, k, S, ok) ==
    IF ok THEN Observed("read", TRUE, c, n, k, Newest(S, k).version,
                        Newest(S, k).write_id, None)
          ELSE Observed("read", FALSE, c, n, k, None, None, None)

(* Mutant: the consistency of the case is not passed on to reads.            *)
ReadOpOne(n, c, k, level) ==
    \E ok \in BOOLEAN, S \in SUBSET Node :
       /\ Read(n, k, "ONE", S, ok)
       /\ history' = Append(history, Row(n, c, k, S, ok))

(* operation("read", ...)                                                    *)
ReadOp(n, c, k, level) ==
    \E ok \in BOOLEAN, S \in SUBSET Node :
       /\ Read(n, k, level, S, ok)
       /\ history' = Append(history, Row(n, c, k, S, ok))

(* Mutant: the history is judged before the last event is appended.          *)
JudgeBefore == result' = Check(case.property, history) /\ pc' = "done"

(* self.result = check(prop, self.history)                                   *)
Judge == result' = Check(case.property, history') /\ pc' = "done"

NoResult == result' = result

GiveUp == pc' = "failed" /\ NoResult
Keep == UNCHANGED <<case, verified>>

-----------------------------------------------------------------------------
(* prepare: both keys at ALL through N1, then x at ONE through every node.   *)
(* Anything but the fresh version 0 raises.                                  *)
PrepareWrite(k, id, here, next) ==
    /\ pc = here
    /\ \E ok \in BOOLEAN :
          /\ Write("N1", k, 0, id, "ALL", ok)
          /\ IF ok THEN pc' = next /\ NoResult ELSE GiveUp
    /\ UNCHANGED history /\ Keep

PrepareVerify ==
    /\ pc = "verify"
    /\ verified' = verified + 1
    /\ \E ok \in BOOLEAN, S \in SUBSET Node :
          /\ Read(<<"N1", "N2", "N3">>[verified'], "x", "ONE", S, ok)
          /\ IF ok /\ Newest(S, "x").write_id = "x:initial"
               THEN pc' = IF verified' = 3 THEN "inject" ELSE pc
               ELSE pc' = "failed"
    /\ UNCHANGED <<case, history, result>>

(* The fault of the scenario, verified before the workload.                  *)
Inject ==
    /\ pc = "inject" /\ pc' = "workload"
    /\ CASE case.scenario = "node_stop" -> Stop("N3")
         [] case.scenario = "partition" -> Isolate("N3")
         [] OTHER -> UNCHANGED clusterVars
    /\ UNCHANGED history /\ NoResult /\ Keep

-----------------------------------------------------------------------------
(* workload                                                                  *)
(* Mutant: the other coordinator is always on the live side.                 *)
LiveNode == "N2"

OtherNode == IF case.scenario = "node_stop" THEN "N2" ELSE "N3"

WriteNew ==
    /\ pc = "workload" /\ case.property \in {RYW, MR}
    /\ \E ok \in BOOLEAN :
          /\ WriteOp("N1", IF case.property = RYW THEN "A" ELSE "B", "x",
                     "x:new", None, ok)
          /\ IF ok THEN /\ pc' = IF case.property = MR THEN "first read"
                                                       ELSE "read"
                        /\ NoResult
                   ELSE Judge
    /\ Keep

FirstRead ==
    /\ pc = "first read"
    /\ ReadOp("N1", "A", "x", case.consistency)
    /\ LET first == history'[Len(history')] IN
       IF first.status # "ok" \/ first.version # 1
         THEN result' = "INCONCLUSIVE" /\ pc' = "done"
         ELSE pc' = "read" /\ NoResult
    /\ Keep

SessionRead ==
    /\ pc = "read"
    /\ ReadOp(OtherNode, "A", "x", case.consistency)
    /\ Judge
    /\ Keep

WriteCause ==
    /\ pc = "workload" /\ case.property \in {MW, WFR}
    /\ \E ok \in BOOLEAN :
          /\ WriteOp(OtherNode, IF case.property = MW THEN "A" ELSE "B", "x",
                     "x:cause", None, ok)
          /\ IF ok THEN /\ pc' = IF case.property = WFR THEN "read cause"
                                                        ELSE "effect"
                        /\ NoResult
                   ELSE Judge
    /\ Keep

ReadCause ==
    /\ pc = "read cause"
    /\ ReadOp(OtherNode, "A", "x", case.consistency)
    /\ LET cause == history'[Len(history')] IN
       IF \/ cause.status # "ok" \/ cause.version # 1
          \/ cause.write_id # "x:cause"
         THEN result' = "INCONCLUSIVE" /\ pc' = "done"
         ELSE pc' = "effect" /\ NoResult
    /\ Keep

WriteEffect ==
    /\ pc = "effect"
    /\ \E ok \in BOOLEAN :
          /\ WriteOp("N1", "A", "y", "y:effect",
                     [key |-> "x", min_version |-> Last.version,
                      write_id |-> Last.write_id], ok)
          /\ IF ok THEN pc' = "measure" /\ NoResult ELSE Judge
    /\ Keep

-----------------------------------------------------------------------------
(* The measurement isolation of N1, then probe: the observer reads the       *)
(* effect and after it the cause, both at ONE through N1.                    *)
(* Mutant: N1 is not isolated.                                               *)
MeasureOpen ==
    /\ pc = "measure" /\ pc' = "probe effect"
    /\ UNCHANGED <<clusterVars, history>> /\ NoResult /\ Keep

Measure ==
    /\ pc = "measure" /\ pc' = "probe effect"
    /\ Isolate("N1")
    /\ UNCHANGED history /\ NoResult /\ Keep

ProbeEffect ==
    /\ pc = "probe effect" /\ pc' = "probe cause"
    /\ ReadOp("N1", "observer", "y", "ONE")
    /\ NoResult /\ Keep

ProbeEvent(effect, cause) ==
    [op |-> "dependency_probe",
     status |-> IF effect.status = "ok" /\ cause.status = "ok" THEN "ok"
                                                               ELSE "error",
     client |-> None, node |-> "N1", key |-> "y", version |-> effect.version,
     write_id |-> effect.write_id, depends_on |-> None,
     mock |-> FALSE, seq |-> None,
     probe |-> [local_observation |-> TRUE, control_id |-> "verified N1",
                cause_key |-> "x", cause_version |-> cause.version,
                cause_write_id |-> cause.write_id]]

ProbeCause ==
    /\ pc = "probe cause"
    /\ \E ok \in BOOLEAN, S \in SUBSET Node :
          LET cause == Row("N1", "observer", "x", S, ok) IN
          /\ Read("N1", "x", "ONE", S, ok)
          /\ history' = history \o <<cause, ProbeEvent(Last, cause)>>
    /\ Judge
    /\ Keep

-----------------------------------------------------------------------------
Run == \/ PrepareWrite("x", "x:initial", "prepare x", "prepare y")
       \/ PrepareWrite("y", "y:initial", "prepare y", "verify")
       \/ PrepareVerify \/ Inject
       \/ WriteNew \/ FirstRead \/ SessionRead
       \/ WriteCause \/ ReadCause \/ WriteEffect
       \/ Measure \/ ProbeEffect \/ ProbeCause

Next == Run \/ (Deliver /\ UNCHANGED trialVars)

Spec == Init /\ [][Next]_vars

-----------------------------------------------------------------------------
Session == case.property \in {RYW, MR}

(* With increasing timestamps, reads and writes that overlap in a replica    *)
(* never break a session guarantee, whatever arrives late or times out, and  *)
(* at ALL no replica can expose an effect without its cause.                 *)
StrongLevelsHold ==
    case.consistency = "ALL" \/ (case.consistency = "QUORUM" /\ Session) =>
        result # "VIOLATION"

(* What the fault of a case decides of its result, whatever mutations arrive *)
(* late and whatever requests fail on their own: the predictions of          *)
(* prediction() in run_real_experiments.py and of `expected' in              *)
(* reproduce_independent.py for the faults that leave a level unanswerable   *)
(* or split ONE, and for a stopped node at QUORUM.  A stopped node at ONE is *)
(* not among them: its prediction is part of NoViolationExpected.            *)
FaultDecides ==
    LET c == case.consistency IN
    /\ case.scenario = "partition" /\ c = "ONE" => result # "PASS"
    /\ case.scenario = "partition" /\ c # "ONE" =>
          result \in {None, "INCONCLUSIVE"}
    /\ case.scenario = "node_stop" /\ c = "ALL" =>
          result \in {None, "INCONCLUSIVE"}
    /\ case.scenario = "node_stop" /\ c = "QUORUM" => result # "VIOLATION"

(* The cases for which no violation is expected (prediction: "No violation   *)
(* expected in this healthy sequential workload", and with a stopped node    *)
(* below ALL "no violation expected in this workload"; `expected' is PASS    *)
(* for both).                                                                *)
NoViolationExpected ==
    \/ case.scenario = "normal"
    \/ case.scenario = "node_stop" /\ case.consistency # "ALL"
    => result # "VIOLATION"

(* Replaying the archived history gives the recorded status, although the    *)
(* workload sets INCONCLUSIVE itself on two paths (summarize_completed.py    *)
(* asserts it for every case).                                               *)
RecordedIsReplayed ==
    result # None => result = Check(case.property, history)

(* A verdict is true of the replicas at the moment it is recorded.  After a  *)
(* violation of a session guarantee the new version of x that was written    *)
(* and acknowledged is missing somewhere; a dependency case found the effect *)
(* at N1, and passes just when N1 stores that very cause (trial.workload(),  *)
(* trial.probe()).                                                           *)
VerdictIsReal ==
    [][result = None /\ result' \in {"PASS", "VIOLATION"} =>
         /\ Session /\ result' = "VIOLATION" =>
               \E n \in Node : cell[n]["x"].version < 1
         /\ ~Session =>
               /\ cell["N1"]["y"].write_id = "y:effect"
               /\ result' = "PASS" <=> cell["N1"]["x"].write_id = "x:cause"]_vars

(* A gap found at N1 after QUORUM writes is no gap for clients that read at  *)
(* QUORUM: every quorum has a replica with the cause                         *)
(* (docs/latex/main.tex:128).                                                *)
QuorumGapIsLocal ==
    /\ case.consistency \in {"QUORUM", "ALL"} /\ ~Session
    /\ pc \in {"measure", "probe effect", "probe cause"} \/ result = "VIOLATION"
    => \A Q \in Quorum : \E n \in Q : cell[n]["x"].write_id = "x:cause"
=============================================================================
