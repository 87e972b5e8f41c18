------------------------------- MODULE MC_Drivers -------------------------------
(***************************************************************************)
(* The programs that drive an experiment: a trajectory of the command line *)
(* against Cassandra (job "executor", two nodes, one unknown name, two     *)
(* clients, four ways of setting options and variables), a run of the     *)
(* suite (job "suite", two trials of each scenario) and the batch jobs of  *)
(* the chess measurements (job "measure").  A run of the model is one job. *)
(***************************************************************************)
EXTENDS Executor

VARIABLES job,
          lab, stage, todo, scenario, prepared, pending, records, lines,
          completion, exit,     \* of the suite
          rows, batch, phase, depth, launches, mishaps, requeued  \* measurements

CONSTANTS Explicit, MaxJobs, MaxDepth, MaxMishaps

MCKnown == {"N1", "N2"}

(* Nothing; contact points set to nothing; the first node alone, at the      *)
(* hosts of both; a host by node, one corrected.                             *)
MCOptions ==
    LET none == [contact_points |-> << >>, node_ports |-> << >>,
                 node_contact_points |-> << >>]
    IN  {none, [none EXCEPT !.contact_points = <<{}>>],
         [none EXCEPT !.contact_points = <<MCKnown>>, !.node_ports = << <<"N1", {}>> >>],
         [none EXCEPT !.node_contact_points =
             << <<"N1", {"N1"}>>, <<"N2", {"N1"}>>, <<"N2", {"N2"}>> >>]}

S == INSTANCE Suite WITH Trial <- Client
M == INSTANCE Measurements WITH job <- batch, todo <- launches

suiteVars == <<lab, stage, todo, scenario, prepared, pending, records, lines,
               completion, exit>>
measureVars == <<rows, batch, phase, depth, launches, mishaps, requeued>>

JobInit ==
    /\ Init /\ S!Init /\ M!Init
    /\ \/ job = "executor" /\ lab = [n \in S!Node |-> "open"]
       \/ job = "suite" /\ docker = FALSE
       \/ job = "measure" /\ lab = [n \in S!Node |-> "open"]
          /\ docker = FALSE

JobNext ==
    /\ UNCHANGED job
    /\ \/ job = "executor" /\ Next /\ UNCHANGED <<suiteVars, measureVars>>
       \/ job = "suite" /\ S!Next /\ UNCHANGED <<vars, measureVars>>
       \/ job = "measure" /\ M!Next /\ UNCHANGED <<vars, suiteVars>>

JobSpec == JobInit /\ [][JobNext]_<<vars, suiteVars, measureVars, job>>

(* Every workload of a scenario meets exactly its sustained fault, with the  *)
(* data of all trials in place, and every probe meets N1 isolated besides    *)
(* (main() of run_real_experiments.py; see module Suite).                    *)
FaultIsSustained == S!FaultIsSustained

(* Every history is recorded once, and completion.json counts what           *)
(* histories.jsonl holds (the same).                                         *)
RecordedOnce == S!RecordedOnce

(* A PASS is three distinct successful launches of one job, and speedups     *)
(* relate searches that found one score (multiposition.py,                   *)
(* summarize_multiposition.py; see module Measurements).                     *)
PassIsMeasured == M!PassIsMeasured
=============================================================================
