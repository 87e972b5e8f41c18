------------------------------- MODULE Campaign -------------------------------
(***************************************************************************)
(* run() of src/scripts/reproduce_independent.py: one case after another,  *)
(* each with its own preflight, data preparation, fault, workload, probe   *)
(* and recovery, carried out by LabControl (run_real_experiments.py).      *)
(*                                                                         *)
(* The steps a procedure of LabControl still has to take are in `todo'.    *)
(* A signal raises KeyboardInterrupt at any statement; what a docker call  *)
(* had begun may then still take effect, any time later.                   *)
(***************************************************************************)
EXTENDS Naturals, Sequences, FiniteSets

CONSTANTS Total,        \* len(CASES)
          MaxSignals    \* bound: SIGTERMs sent to one run

ASSUME TotalAssumption   == Total \in Nat \ {0}
ASSUME SignalsAssumption == MaxSignals \in Nat

Node == {"N1", "N2", "N3"}

(* A node runs with open, half blocked or blocked internode ports, or not.   *)
Condition == {"open", "partial", "blocked", "down"}

VARIABLES lab,         \* [Node -> Condition]
          abandoned,   \* steps interrupted halfway, which may still take effect
          signals,     \* SIGTERMs received so far
          pc, todo,    \* the stage of run(), and its remaining control steps
          case,        \* [scenario, dependency]: the case under way
          attempt,     \* preparation attempts of the case
          data,        \* the keys and setup records of the case's Trial
          controls,    \* what controls.jsonl proves
          settled,     \* it has a line newer than the history that says
                       \* every node sees every other one
          workloads,   \* calls of trial.workload() in this case
          probed,      \* the history of the trial ends with a probe
          failure,     \* "none"; "raised": failure is not None; "escaping":
                       \* and another exception leaves the except block
          meta,        \* [evidence, recovered] of the case
          summaries,   \* the meta of the finished cases
          progress,    \* progress.json
          completion   \* completion.json of the run

labVars  == <<lab, abandoned>>
caseVars == <<case, attempt, data, controls, settled, workloads, probed>>
fileVars == <<summaries, progress, completion>>
vars == <<labVars, signals, pc, todo, caseVars, failure, meta, fileVars>>

Scenarios == {"normal", "node_stop", "partition"}

-----------------------------------------------------------------------------
(* The procedures, as sequences of steps.                                    *)
Do(what, n) == [do |-> what, node |-> n]

(* settle_views() with expected_down empty, or with the node that is cut off *)
(* or stopped seen as down.                                                  *)
Views == Do("settle_views", "none")
ViewsWithout(n) == Do("settle_views", n)


Restore == << Do("start", "N1"), Do("start", "N2"), Do("start", "N3"),
              Do("heal", "N1"), Do("heal", "N2"), Do("heal", "N3") >>

(* Mutant: only one path is tried.                                           *)
PeerTcpOne == << Do("peer_tcp", "N1") >>

PeerTcp == << Do("peer_tcp", "N1"), Do("peer_tcp", "N3") >>

Preflight == Restore \o <<Do("healthy", "N1")>> \o PeerTcp \o <<Views>>
Recovery  == Restore \o <<Do("healthy", "N1"), Views>> \o PeerTcp

Isolation(n) == << Do("isolate", n), Do("verify_isolation", n), ViewsWithout(n) >>

Measurement == Isolation("N1")

Injection(scenario) ==
    CASE scenario = "partition" -> Isolation("N3")
      [] scenario = "node_stop" -> << Do("stop", "N3"), ViewsWithout("N3") >>
      [] OTHER                  -> << >>

Init ==
    /\ lab \in [Node -> Condition]        \* left by an earlier run
    /\ abandoned = {} /\ signals = 0
    /\ pc = "next case" /\ todo = << >>
    /\ case = [scenario |-> "normal", dependency |-> FALSE]
    /\ attempt = 0 /\ data = "fresh" /\ controls = {}
    /\ settled = FALSE /\ workloads = 0 /\ probed = FALSE
    /\ failure = "none"
    /\ meta = [evidence |-> FALSE, recovered |-> FALSE]
    /\ summaries = << >>
    /\ progress = [status |-> "running", completed |-> 0]
    /\ completion = "none"

-----------------------------------------------------------------------------
(* An exception inside the try block leads to the except block and, with a   *)
(* further one there, to the recovery; inside the recovery, to the end of    *)
(* the case.                                                                 *)
InTry == pc \in {"preflight", "prepare", "inject", "workload", "measure",
                 "export", "exported"}

(* Mutant: the exception is not kept.                                        *)
RaiseQuietly ==
    /\ failure' = failure
    /\ IF InTry THEN pc' = "except" /\ todo' = << >> /\ meta' = meta
                ELSE pc' = "save" /\ todo' = << >> /\ meta' = meta

Raise ==
    CASE InTry ->
           pc' = "except" /\ todo' = << >> /\ failure' = "raised" /\ meta' = meta
      [] pc = "except" ->
           pc' = "recover" /\ todo' = Recovery /\ failure' = "escaping" /\ meta' = meta
      [] pc = "recover" ->
           /\ pc' = "save" /\ todo' = << >>
           /\ failure' = IF failure = "none" THEN "raised" ELSE failure
           /\ meta' = [meta EXCEPT !.recovered = FALSE]

Proceed == /\ todo' = Tail(todo)
           /\ UNCHANGED <<pc, failure, meta>>

Goto(stage, steps) == pc' = stage /\ todo' = steps
                      /\ UNCHANGED <<failure, meta>>

-----------------------------------------------------------------------------
(* Control steps.  Each can also fail, or be given up by the client while    *)
(* docker goes on with it.                                                   *)
Step(what) == todo # << >> /\ Head(todo).do = what
n == Head(todo).node
Rest == UNCHANGED <<abandoned, signals, caseVars, fileVars>>

Abandon == /\ todo # << >>
           /\ Head(todo).do \in {"start", "heal", "isolate", "stop"}
           /\ abandoned' = abandoned \union {Head(todo)}

(* Mutant: a step is waited for without a limit.                             *)
FailNever == todo # << >> /\ FALSE

Fail == /\ todo # << >>
        /\ lab' = lab /\ Raise
        /\ Abandon \/ UNCHANGED abandoned
        /\ UNCHANGED <<signals, caseVars, fileVars>>

SetLab(c) == lab' = [lab EXCEPT ![n] = c]

(* A stopped container comes back without the rules of its old network.      *)
Start == /\ Step("start") /\ Proceed /\ Rest
         /\ IF lab[n] = "down" THEN SetLab("open") ELSE lab' = lab

(* set_isolated(n, False): the script may miss the lock and report success   *)
(* although it removed nothing (module Firewall).                            *)
HealNode == /\ Step("heal") /\ lab[n] # "down" /\ Proceed /\ Rest
            /\ SetLab("open") \/ lab' = lab

(* healthy(): three UN lines at N1 and three CQL connections; the failure    *)
(* detector may not have noticed blocked ports.                              *)
Healthy == /\ Step("healthy") /\ \A m \in Node : lab[m] # "down"
           /\ lab' = lab /\ Proceed /\ Rest

(* Mutant: one direction between n and N2.                                   *)
CheckTcpOnce == /\ Step("peer_tcp")
                /\ lab[n] \in {"open", "partial"} /\ lab["N2"] \in {"open", "partial"}
                /\ lab' = lab /\ Proceed /\ Rest

(* Both directions between n and N2.                                         *)
CheckTcp == /\ Step("peer_tcp") /\ lab[n] = "open" /\ lab["N2"] = "open"
            /\ lab' = lab /\ Proceed /\ Rest

(* settle_views: what nodetool reports may be out of date.                   *)
SettleViews ==
    /\ Step("settle_views") /\ lab' = lab /\ Proceed
    /\ settled' = (settled \/ n = "none")
    /\ UNCHANGED <<abandoned, signals, case, attempt, data, controls, workloads,
                   probed, fileVars>>

(* set_isolated(n, True): a script that fails leaves part of the rules.      *)
IsolateNode ==
    /\ Step("isolate") /\ lab[n] # "down"
    /\ \/ SetLab("blocked") /\ Proceed
       \/ (SetLab("partial") \/ SetLab("blocked")) /\ Raise
    /\ Rest

Proves(op) == controls' = controls \union {<<op, n>>}

Unproved == UNCHANGED <<abandoned, signals, case, attempt, data, settled, workloads,
                        probed, fileVars>>

VerifyIsolation ==
    /\ Step("verify_isolation") /\ lab[n] = "blocked"
    /\ lab' = lab /\ Proceed /\ Proves("verified_isolation") /\ Unproved

StopNode == /\ Step("stop") /\ SetLab("down")
            /\ \/ Proceed /\ Proves("stop") /\ Unproved
               \/ Raise /\ Rest

Control == \/ Start \/ HealNode \/ Healthy \/ CheckTcp \/ SettleViews
           \/ IsolateNode \/ VerifyIsolation \/ StopNode \/ Fail

-----------------------------------------------------------------------------
(* The next case: its folder, LabControl, its progress entry, then           *)
(* preflight.  LabControl is made outside the try block, and refuses a lab   *)
(* with a stopped container, which has no address.                           *)
BeginCase ==
    /\ pc = "next case" /\ Len(summaries) < Total
    /\ UNCHANGED <<labVars, signals, summaries, completion>>
    /\ \/ /\ \A m \in Node : lab[m] # "down"
          /\ case' \in [scenario : Scenarios, dependency : BOOLEAN]
          /\ attempt' = 0 /\ data' = "fresh" /\ controls' = {}
          /\ settled' = FALSE /\ workloads' = 0 /\ probed' = FALSE
          /\ failure' = "none"
          /\ meta' = [evidence |-> FALSE, recovered |-> FALSE]
          /\ progress' = [status |-> "running", completed |-> Len(summaries)]
          /\ pc' = "preflight" /\ todo' = Preflight
       \/ pc' = "died" /\ UNCHANGED <<caseVars, failure, meta, progress, todo>>

InStage(stage) == /\ pc = stage /\ todo = << >>
                  /\ UNCHANGED <<labVars, signals, fileVars>>

(* Mutant: one Trial for all attempts.                                       *)
SameTrial == data' = IF attempt = 0 THEN "fresh" ELSE data

(* A Trial with fresh keys for every attempt.                                *)
NewTrial == data' = "fresh"

(* CassandraExecutor(config), then the Trial.                                *)
Connect ==
    /\ InStage("preflight")
    /\ \/ /\ attempt' = attempt + 1 /\ NewTrial
          /\ Goto("prepare", << >>)
          /\ UNCHANGED <<case, controls, settled, workloads, probed>>
       \/ Raise /\ UNCHANGED caseVars

MayRetry == attempt < 3

(* trial.prepare(): a refused or wrong initial value is tried again, twice,  *)
(* after another preflight.                                                  *)
Prepare ==
    /\ InStage("prepare")
    /\ UNCHANGED <<case, attempt, controls, settled, workloads, probed>>
    /\ \/ /\ data' = IF data = "fresh" THEN "initial" ELSE "mixed"
          /\ Goto("inject", Injection(case.scenario))
       \/ /\ data' = "partial"
          /\ \/ MayRetry /\ Goto("preflight", Preflight)
             \/ Raise

Injected == InStage("inject") /\ Goto("workload", << >>) /\ UNCHANGED caseVars

(* trial.workload(): a dependency case whose requests succeed has no result  *)
(* yet, and is probed.                                                       *)
Workload ==
    /\ InStage("workload")
    /\ workloads' = workloads + 1 /\ settled' = FALSE
    /\ \/ Goto("export", << >>)
       \/ case.dependency /\ Goto("measure", Measurement)
    /\ UNCHANGED <<case, attempt, data, controls, probed>>

Probe == /\ InStage("measure")
         /\ probed' = TRUE /\ settled' = FALSE
         /\ Goto("export", << >>)
         /\ UNCHANGED <<case, attempt, data, controls, workloads>>

(* verify_record: five good setup records, the proofs of the fault and of    *)
(* the isolation of the probe.                                               *)
Evidence ==
    /\ data = "initial"
    /\ case.scenario = "partition" => <<"verified_isolation", "N3">> \in controls
    /\ case.scenario = "node_stop" => <<"stop", "N3">> \in controls
    /\ probed => <<"verified_isolation", "N1">> \in controls

(* The same facts, and the recovery, asserted again of the archived files of *)
(* a case by main() of summarize_completed.py.                               *)
Audited == meta.evidence /\ meta.recovered /\ Evidence /\ settled

Export ==
    /\ InStage("export") /\ UNCHANGED caseVars
    /\ IF Evidence
         THEN /\ meta' = [meta EXCEPT !.evidence = TRUE]
              /\ pc' = "exported" /\ UNCHANGED <<todo, failure>>
         ELSE Raise

(* The end of the try block, or of the except block, which saves the partial *)
(* history.                                                                  *)
Finally == /\ InStage("exported") \/ InStage("except")
           /\ UNCHANGED caseVars
           /\ \/ Goto("recover", Recovery)
              \/ pc = "except" /\ Raise

Recovered == /\ InStage("recover") /\ UNCHANGED <<caseVars, failure>>
             /\ meta' = [meta EXCEPT !.recovered = TRUE]
             /\ pc' = "save" /\ todo' = << >>

-----------------------------------------------------------------------------
(* The end of a case: db.close(), which may raise, then completion.json of   *)
(* the case, summaries, progress.json.                                       *)
Verified(s) == Cardinality({c \in DOMAIN s : s[c].evidence /\ s[c].recovered})

SaveCase ==
    /\ pc = "save"
    /\ \/ /\ pc' = "saved"
          /\ summaries' = Append(summaries, meta)
          /\ progress' = [status    |-> IF failure # "none" THEN "failed"
                                        ELSE IF Len(summaries') = Total
                                             THEN "complete" ELSE "running",
                          completed |-> Verified(summaries')]
       \/ pc' = "died" /\ UNCHANGED <<summaries, progress>>
    /\ UNCHANGED <<labVars, signals, todo, caseVars, failure, meta, completion>>

EndCase ==
    /\ pc = "saved"
    /\ CASE failure = "none"     -> pc' = "next case" /\ UNCHANGED completion
         [] failure = "raised"   -> pc' = "ended" /\ completion' = "incomplete"
         [] failure = "escaping" -> pc' = "died" /\ UNCHANGED completion
    /\ UNCHANGED <<labVars, signals, todo, caseVars, failure, meta,
                   summaries, progress>>

Complete ==
    /\ pc = "next case" /\ Len(summaries) = Total
    /\ pc' = "ended" /\ completion' = "complete"
    /\ UNCHANGED <<labVars, signals, todo, caseVars, failure, meta,
                   summaries, progress>>

-----------------------------------------------------------------------------
Ended == pc \in {"ended", "died"}

(* SIGTERM.  A docker call under way goes on without its client; outside the *)
(* try block and the recovery, the run ends as it is.                        *)
Interrupt ==
    /\ ~Ended /\ signals < MaxSignals /\ signals' = signals + 1
    /\ Abandon \/ UNCHANGED abandoned
    /\ IF InTry \/ pc \in {"except", "recover"}
         THEN Raise
         ELSE pc' = "died" /\ UNCHANGED <<todo, failure, meta>>
    /\ UNCHANGED <<lab, caseVars, fileVars>>

(* An abandoned step takes effect, perhaps mixed with the recovery.          *)
Late ==
    /\ \E s \in abandoned :
         LET now == lab[s.node] IN
         \E c \in CASE s.do = "stop" -> {"down"}
                    [] now = "down"  -> {IF s.do = "start" THEN "open" ELSE now}
                    [] s.do = "heal" -> {"open"}
                    [] s.do = "isolate" -> {"partial", "blocked"}
                    [] OTHER         -> {now} :
            lab' = [lab EXCEPT ![s.node] = c]
    /\ UNCHANGED <<abandoned, signals, pc, todo, caseVars, failure, meta, fileVars>>

Run == \/ Control
       \/ BeginCase \/ Connect \/ Prepare \/ Injected \/ Workload \/ Probe
       \/ Export \/ Finally \/ Recovered \/ SaveCase \/ EndCase \/ Complete

Next == Run \/ Interrupt \/ Late

(* Every call of the run has a time limit.                                   *)
Spec == Init /\ [][Next]_vars /\ WF_vars(Run)

-----------------------------------------------------------------------------
Faulty(scenario) ==
    [m \in Node |-> CASE m = "N3" /\ scenario = "partition" -> "blocked"
                      [] m = "N3" /\ scenario = "node_stop" -> "down"
                      [] OTHER -> "open"]

(* The workload meets exactly the fault of its scenario and fresh initial    *)
(* data, whatever an earlier run left behind and however often the           *)
(* preparation was repeated (plan.json: "fresh unique data, preflight, its   *)
(* own fault injection where applicable"); at the probe N1 is cut off        *)
(* besides.                                                                  *)
StartsAsPlanned ==
    /\ pc = "workload" => data = "initial" /\ lab = Faulty(case.scenario)
    /\ pc = "measure" /\ todo = << >> =>
          lab = [Faulty(case.scenario) EXCEPT !["N1"] = "blocked"]

(* verify_record rejects no record that run() produces, and the audit no     *)
(* case that run() counts as completed: its evidence is still there, and the *)
(* last look at the membership is newer than the history and complete.       *)
EvidenceHolds ==
    /\ pc = "export" => Evidence
    /\ pc = "saved" /\ Verified(<<meta>>) = 1 => Audited

(* recovery_verified is true of every node no step of which was abandoned.   *)
RecoveryIsReal ==
    pc \in {"save", "saved", "ended"} /\ meta.recovered =>
        \A m \in Node : \/ lab[m] = "open"
                        \/ \E s \in abandoned : s.node = m

(* completion.json says "complete" only of a run with every case verified,   *)
(* and leaves the lab open; "incomplete" is said whenever a case failed.     *)
(* No case starts after one that failed, so that progress.json counts        *)
(* verified cases only.                                                      *)
CompletionIsHonest ==
    /\ pc = "next case" => Verified(summaries) = Len(summaries)
    /\ progress.completed <= Verified(summaries)
    /\ completion = "complete" =>
          /\ Verified(summaries) = Total
          /\ \A m \in Node : lab[m] = "open"
    /\ pc = "ended" /\ progress.status = "failed" => completion = "incomplete"
    /\ completion = "complete" => progress.status = "complete"

(* Every run ends.                                                           *)
RunEnds == <>Ended
=============================================================================
