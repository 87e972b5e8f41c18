------------------------------ MODULE Trajectory ------------------------------
(***************************************************************************)
(* A history grows by one observation at a time and is judged by the       *)
(* checker: run_trajectory (src/src/project1/runner.py), where with the    *)
(* mock executor the trajectory chooses every observation; or the          *)
(* operations and the probe of a Trial (run_real_experiments.py).          *)
(***************************************************************************)
EXTENDS Checker

CONSTANTS Observations,   \* the observations an executor may return
          MaxLength       \* bound on the length of a trajectory

VARIABLES property, history

vars == <<property, history>>

Init == property \in Properties /\ history = <<>>

(* executor.execute(index=i, step=step) for the next step.                   *)
Execute == /\ Len(history) < MaxLength
           /\ \E o \in Observations : history' = Append(history, o)
           /\ property' = property

Next == Execute

Spec == Init /\ [][Next]_vars

(* The result if the trajectory ends here.                                   *)
Result == Check(property, history)

-----------------------------------------------------------------------------
(* A violation once in the history stays one whatever is observed later, as  *)
(* long as the same evidence is used: the first probe replaces the synthetic *)
(* evidence, and an application order has to list later writes too           *)
(* (_check_probes and its callers).                                          *)
SameEvidence == /\ HasProbe(history) <=> HasProbe(history')
                /\ property = MW => HasProbe(history)

StaysViolated == Result = "VIOLATION" /\ SameEvidence => Result' = "VIOLATION"

(* Which of several matching causes _dependencies takes does not decide      *)
(* whether a probe is a violation.                                           *)
AnyMatchingCause ==
    property \in {MW, WFR} /\ HasProbe(history) =>
        (Result = "VIOLATION" <=>
            \E e, a, b \in DOMAIN history :
                /\ Justifies(property, history, a, b)
                /\ Exposes(property, history, e, b)
                /\ history[e].probe.cause_version < history[a].version)

(* Comparing each write only with its client's previous one in the order     *)
(* finds a reversal whenever any two writes of a client are listed against   *)
(* their sequence numbers (check_monotonic_writes, the audit loop).          *)
AuditFindsInversions ==
    property = MW /\ ~HasProbe(history) =>
        (Result = "VIOLATION" <=>
            \E k \in DOMAIN history :
               /\ UsableAudit(history, k)
               /\ \E u, w \in AuditWrites(history),
                     m, n \in DOMAIN history[k].order :
                     /\ m < n
                     /\ history[k].order[m] = history[u].write_id
                     /\ history[k].order[n] = history[w].write_id
                     /\ history[u].client = history[w].client
                     /\ history[w].seq < history[u].seq)
=============================================================================
