------------------------------ MODULE MC_Checker ------------------------------
(***************************************************************************)
(* The checker: the loops of the session guarantees on given histories     *)
(* (job "loops"), and growing histories of a real cluster (job "probes")   *)
(* or of the mock executor (job "mock").  A run of the model is one job;   *)
(* the trajectories share the variables property and history.              *)
(***************************************************************************)
EXTENDS SessionLoops

CONSTANTS c1, c2, x, y, MaxLength, MaxVersion

VARIABLE job

(* Every history of at most MaxLength events of two clients on one key, and  *)
(* every shorter one on two keys with the events that must not be counted.   *)
MCClient == {c1, c2}
MCKey == {x, y}

Event0(op, c, k) ==
    [op |-> op, status |-> "ok", client |-> c, key |-> k, version |-> None]

\* successful operations of both clients on the keys ks, with every version
Successes(ks) ==
    {[Event0(op, c, k) EXCEPT !.version = v] :
        op \in {"write", "read"}, c \in MCClient, k \in ks,
        v \in 0 .. MaxVersion}

\* a read without a version, a failed read, and a failed control that no
\* guarantee requires
Others == {Event0("read", c1, x),
           [Event0("read", c1, x) EXCEPT !.status = "error"],
           [Event0("heal", None, None) EXCEPT !.status = "error"]}

MCHistories ==
    (UNION {[1 .. n -> Successes(MCKey) \union Others] :
               n \in 0 .. (MaxLength - 1)})
    \union [1 .. MaxLength -> Successes({x})]

-----------------------------------------------------------------------------
(* Trajectories of a writer A, a second client B and an observer over a cause *)
(* on key "x" and an effect on key "y".                                       *)
Base == [op |-> "heal", status |-> "ok", client |-> None, node |-> "N1",
         key |-> None, version |-> None, write_id |-> None, seq |-> None,
         depends_on |-> None, order |-> <<>>, mock |-> TRUE, probe |-> None]

CauseWrite(c, id, n) ==
    [Base EXCEPT !.op = "write", !.client = c, !.key = "x", !.version = 1,
                 !.write_id = id, !.seq = n]

EffectWrite(id, n, depId) ==
    [Base EXCEPT !.op = "write", !.client = "A", !.key = "y", !.version = 1,
                 !.write_id = id, !.seq = n,
                 !.depends_on = [key |-> "x", min_version |-> 1,
                                 write_id |-> depId]]

Read(c, k, v, id) ==
    [Base EXCEPT !.op = "read", !.client = c, !.key = k, !.version = v,
                 !.write_id = id]

Probe(v, id, control) ==
    [Base EXCEPT !.op = "dependency_probe", !.key = "y", !.version = 1,
                 !.write_id = "effect", !.mock = FALSE,
                 !.probe = [local_observation |-> TRUE, control_id |-> control,
                            cause_key |-> "x", cause_version |-> v,
                            cause_write_id |-> id]]

Audit(ids) == [Base EXCEPT !.op = "audit_order", !.order = ids]

\* dependencies and probes
ProbeObservations ==
    {CauseWrite("A", "cause", 1), CauseWrite("A", "other", 1),
     CauseWrite("B", "cause", 1),
     [CauseWrite("B", "cause", 1) EXCEPT !.status = "error"],
     Read("A", "x", 1, "cause"), Read("A", "x", 1, "other"),
     EffectWrite("effect", 2, "cause"), EffectWrite("effect", 2, None),
     EffectWrite(None, 2, None),
     Probe(0, None, 7), Probe(1, "cause", 7), Probe(1, "other", 7),
     Probe(0, None, None), Probe(None, None, 7),
     [Probe(0, None, 7) EXCEPT !.status = "error"]}

\* synthetic application orders and observers
MockObservations ==
    {CauseWrite("A", "cause", 1), CauseWrite("A", "other", 3),
     CauseWrite("B", "b", 2), EffectWrite("effect", 2, None),
     Read("A", "x", 1, "cause"),
     Read("observer", "y", 1, "effect"), Read("observer", "x", 0, None),
     Read("observer", "x", 1, "cause"), Read("A", "x", 0, None),
     [Read("B", "x", 1, None) EXCEPT !.status = "error"],
     Audit(<<"cause", "b", "effect", "other">>),
     Audit(<<"effect", "b", "cause">>), Audit(<<"other", "cause", "effect">>),
     Probe(0, None, 7)}

Probed == INSTANCE Trajectory WITH Observations <- ProbeObservations
Mocked == INSTANCE Trajectory WITH Observations <- MockObservations,
                                   MaxLength <- MaxLength + 1

-----------------------------------------------------------------------------
JobInit == \/ job = "loops" /\ Init
           \/ /\ job \in {"probes", "mock"}
              /\ Probed!Init
              /\ i = 1 /\ latest = << >> /\ pairs = 0
              /\ status = "running" /\ witness = << >>

NoLoop == UNCHANGED <<i, latest, pairs, status, witness>>

JobNext == /\ UNCHANGED job
           /\ \/ job = "loops" /\ Next
              \/ job = "probes" /\ Probed!Next /\ NoLoop
              \/ job = "mock" /\ Mocked!Next /\ NoLoop

JobSpec == JobInit /\ [][JobNext]_<<vars, job>>

(* Which of several matching causes _dependencies takes does not decide       *)
(* whether a probe is a violation.                                            *)
AnyMatchingCause == job = "probes" => Probed!AnyMatchingCause

(* The audit of adjacent writes finds any two writes of a client listed       *)
(* against their sequence numbers (check_monotonic_writes).                   *)
AuditFindsInversions == job = "mock" => Mocked!AuditFindsInversions

(* A violation once in the history stays one whatever is observed later with  *)
(* the same evidence (_check_probes and its callers).                         *)
ViolationIsFinal == [][job # "loops" => Probed!StaysViolated]_vars
=============================================================================
