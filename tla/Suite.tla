--------------------------------- MODULE Suite ---------------------------------
(***************************************************************************)
(* main() of src/scripts/run_real_experiments.py: for each scenario all    *)
(* trials are prepared, one fault is injected and sustained, the workloads *)
(* run, the dependency trials are probed together behind one isolation of  *)
(* N1, and the lab is restored.                                            *)
(*                                                                         *)
(* `todo' holds the calls the try block (or the finally block) still has   *)
(* to make.  Any of them may raise.                                        *)
(***************************************************************************)
EXTENDS Naturals, Sequences, FiniteSets, SequencesExt

CONSTANT Trial          \* the trials of one scenario: a finite set

Node == {"N1", "N2", "N3"}
SCENARIOS == <<"normal", "node_stop", "partition">>

(* A node runs with open, half blocked or blocked internode ports, or not.   *)
Condition == {"open", "partial", "blocked", "down"}

VARIABLES lab,          \* [Node -> Condition]
          stage,        \* "try", "complete" (the file is saved), "except",
                        \* "finally", "ended", "died" (before the try block)
          todo,         \* the calls left
          scenario,     \* the position in SCENARIOS, 0 before the first
          prepared,     \* the trials of the scenario that prepare() has set up
          pending,      \* the trials whose workload left no result
          records,      \* records, as <<scenario, trial>>
          lines,        \* the lines of histories.jsonl
          completion,   \* completion.json: its status and its histories
          exit          \* the exit status, 2 before there is one

vars == <<lab, stage, todo, scenario, prepared, pending, records, lines,
          completion, exit>>

-----------------------------------------------------------------------------
(* The calls.                                                                *)
Call(what, on) == [do |-> what, on |-> on]
Each(what, s) == [i \in DOMAIN s |-> Call(what, s[i])]
Nodes == <<"N1", "N2", "N3">>

Restore == Each("start", Nodes) \o Each("heal", Nodes)
Recover == Restore \o << Call("healthy", "N1") >>

Preflight == Recover \o Each("peer_tcp", <<"N1", "N3">>)

Isolation(n) == << Call("isolate", n), Call("verify_isolation", n),
                   Call("settle_views", n) >>

Inject(s) ==
    CASE s = "node_stop" -> << Call("stop", "N3"), Call("settle_views", "N3") >>
      [] s = "partition" -> Isolation("N3")
      [] OTHER           -> << >>

(* One pass of the loop over SCENARIOS up to the probes; cases is shuffled.  *)
Episode(s, cases) ==
    << Call("healthy", "N1"), Call("settle_views", "N1"), Call("connect", "N1") >>
    \o Each("prepare", cases) \o Inject(s) \o Each("workload", cases)
    \o << Call("measure", "N1") >>

Measurement(trials) ==
    Isolation("N1") \o Each("probe", trials) \o << Call("heal", "N1") >>

(* The rest of the pass, after the decision whether to measure.              *)
Ending == Recover \o << Call("next scenario", "N1") >>

(* LabControl is made before the try block: a stopped container has no       *)
(* address.                                                                  *)
Init == /\ lab \in [Node -> Condition]
        /\ IF \A n \in Node : lab[n] # "down"
             THEN stage = "try" /\ todo = Preflight \o
                      << Call("connect", "N1"), Call("next scenario", "N1") >>
             ELSE stage = "died" /\ todo = << >>
        /\ scenario = 0 /\ prepared = {} /\ pending = << >>
        /\ records = << >> /\ lines = << >>
        /\ completion = [status |-> "none", histories |-> 0]
        /\ exit = 2

-----------------------------------------------------------------------------
(* What a call may leave of the lab: when it succeeds, and when it raises    *)
(* (docker goes on with a call its client gave up).                          *)
Set(n, C) == {[lab EXCEPT ![n] = c] : c \in C}
Open(n) == lab[n] = "open"

(* Healing may miss the lock for one hook or for both and report success     *)
(* (module Firewall).                                                        *)
Healed(condition) == {"open", condition} \union
                     (IF condition = "blocked" THEN {"partial"} ELSE {})

(* What nodetool reports may be out of date.                                 *)
Succeeds(c) ==
    CASE c.do = "start" -> Set(c.on, {IF lab[c.on] = "down" THEN "open" ELSE lab[c.on]})
      [] c.do = "heal" /\ lab[c.on] # "down"    -> Set(c.on, Healed(lab[c.on]))
      [] c.do = "isolate" /\ lab[c.on] # "down" -> Set(c.on, {"blocked"})
      [] c.do = "stop"                          -> Set(c.on, {"down"})
      [] \/ c.do = "healthy" /\ \A n \in Node : lab[n] # "down"
         \/ c.do = "peer_tcp" /\ Open(c.on) /\ Open("N2")
         \/ c.do = "verify_isolation" /\ lab[c.on] = "blocked"
         \/ c.do = "connect" /\ \A n \in Node : lab[n] # "down"
         \/ c.do = "settle_views" -> {lab}
      [] OTHER -> {}

Raises(c) ==
    {lab} \union CASE c.do = "start"   -> Set(c.on, {"open"})
                   [] c.do = "heal"    -> Set(c.on, {"open", "partial"})
                   [] c.do = "isolate" -> Set(c.on, {"partial", "blocked"})
                   [] c.do = "stop"    -> Set(c.on, {"down"})
                   [] OTHER            -> {}

-----------------------------------------------------------------------------
Now(what) == stage = "try" /\ todo # << >> /\ Head(todo).do = what
t == Head(todo).on
Rest == UNCHANGED <<stage, scenario, lines, completion, exit>>

(* A call of LabControl or of the executor.                                  *)
Control ==
    /\ stage \in {"try", "finally"} /\ todo # << >>
    /\ lab' \in Succeeds(Head(todo))
    /\ todo' = Tail(todo)
    /\ UNCHANGED <<prepared, pending, records>> /\ Rest

(* Mutant: the initial values are written at QUORUM.                         *)
QuorumOpen == \E n \in Node : \A m \in Node \ {n} : Open(m)

(* Trial.prepare writes at ALL through N1.                                   *)
AllOpen == \A n \in Node : Open(n)

Prepare ==
    /\ Now("prepare") /\ AllOpen
    /\ prepared' = prepared \union {t}
    /\ todo' = Tail(todo)
    /\ UNCHANGED <<lab, pending, records>> /\ Rest

(* Trial.workload gives a result, or the trial becomes pending.              *)
Workload ==
    /\ Now("workload")
    /\ \/ /\ todo' = << Call("record", t) >> \o Tail(todo)
          /\ UNCHANGED pending
       \/ /\ todo' = Tail(todo)
          /\ pending' = Append(pending, t)
    /\ UNCHANGED <<lab, prepared, records>> /\ Rest

Measure ==
    /\ Now("measure")
    /\ todo' = (IF pending = << >> THEN << >> ELSE Measurement(pending)) \o Ending
    /\ UNCHANGED <<lab, prepared, pending, records>> /\ Rest

Probe ==
    /\ Now("probe")
    /\ todo' = << Call("record", t) >> \o Tail(todo)
    /\ UNCHANGED <<lab, prepared, pending, records>> /\ Rest

(* records.append, then the line and its flush.                              *)
Record ==
    /\ Now("record")
    /\ records' = Append(records, <<scenario, t>>)
    /\ lines' = Append(lines, <<scenario, t>>)
    /\ todo' = Tail(todo)
    /\ UNCHANGED <<lab, stage, scenario, prepared, pending, completion, exit>>

(* Mutant: pending is made once, before the loop.                            *)
KeepPending == scenario' = scenario + 1 /\ pending' = pending

FreshPending == scenario' = scenario + 1 /\ pending' = << >>

NextScenario ==
    /\ Now("next scenario") /\ scenario < Len(SCENARIOS)
    /\ FreshPending
    /\ prepared' = {}
    /\ \E cases \in SetToSeqs(Trial) :
          todo' = Episode(SCENARIOS[scenario'], cases)
    /\ UNCHANGED <<lab, stage, records, lines, completion, exit>>

Complete ==
    /\ Now("next scenario") /\ scenario = Len(SCENARIOS)
    /\ stage' = "complete" /\ todo' = << >>
    /\ completion' = [status |-> "complete", histories |-> Len(records)]
    /\ UNCHANGED <<lab, scenario, prepared, pending, records, lines, exit>>

-----------------------------------------------------------------------------
(* An exception in the try block; a record may have been kept without its    *)
(* line.                                                                     *)
Raise ==
    /\ stage \in {"try", "complete"}
    /\ stage' = "except" /\ todo' = << >>
    /\ lab' \in IF todo = << >> THEN {lab} ELSE Raises(Head(todo))
    /\ \/ UNCHANGED records
       \/ Now("record") /\ records' = Append(records, <<scenario, t>>)
    /\ UNCHANGED <<scenario, prepared, pending, lines, completion, exit>>

(* The except block, which may fail to save, then the finally block.         *)
Except ==
    /\ stage = "except"
    /\ \/ completion' = [status |-> "incomplete", histories |-> Len(records)]
       \/ UNCHANGED completion
    /\ stage' = "finally" /\ todo' = Recover
    /\ exit' = 1
    /\ UNCHANGED <<lab, scenario, prepared, pending, records, lines>>

Finally ==
    /\ stage = "complete" /\ stage' = "finally" /\ todo' = Recover
    /\ exit' = 0
    /\ UNCHANGED <<lab, scenario, prepared, pending, records, lines, completion>>

(* restore() or healthy() raises inside the finally block; the files are     *)
(* closed all the same.                                                      *)
RaiseFinally ==
    /\ stage = "finally" /\ todo # << >>
    /\ lab' \in Raises(Head(todo))
    /\ stage' = "ended" /\ exit' = 1 /\ todo' = << >>
    /\ UNCHANGED <<scenario, prepared, pending, records, lines, completion>>

End ==
    /\ stage = "finally" /\ todo = << >> /\ stage' = "ended"
    /\ UNCHANGED <<lab, todo, scenario, prepared, pending, records, lines,
                   completion, exit>>

Next == \/ Control \/ Prepare \/ Workload \/ Measure \/ Probe \/ Record
        \/ NextScenario \/ Complete
        \/ Raise \/ Except \/ Finally \/ RaiseFinally \/ End

Spec == Init /\ [][Next]_vars

-----------------------------------------------------------------------------
Faulty(s) == [n \in Node |-> CASE s = "node_stop" /\ n = "N3" -> "down"
                               [] s = "partition" /\ n = "N3" -> "blocked"
                               [] OTHER                       -> "open"]

(* Every workload of a scenario meets exactly the sustained fault of the     *)
(* scenario, with the data of all trials in place, and every probe meets N1  *)
(* isolated besides, whatever an earlier scenario or an earlier run left     *)
(* behind and although healing may do nothing: no TCP check is made between  *)
(* scenarios, the writes of prepare at ALL are the check.                    *)
FaultIsSustained ==
    LET fault == Faulty(SCENARIOS[scenario]) IN
    /\ Now("workload") => lab = fault /\ prepared = Trial
    /\ Now("probe") => lab = [fault EXCEPT !["N1"] = "blocked"]

(* Every history is recorded once; histories.jsonl lacks at most the last    *)
(* one, and none when completion.json says complete, which counts all trials *)
(* of all scenarios.                                                         *)
RecordedOnce ==
    /\ IsInjective(records)
    /\ lines \in {records, SubSeq(records, 1, Len(records) - 1)}
    /\ completion.status # "none" => completion.histories = Len(records)
    /\ completion.status = "complete" =>
          lines = records /\ Len(records) = Len(SCENARIOS) * Cardinality(Trial)
=============================================================================
