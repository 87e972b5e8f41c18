------------------------------- MODULE Checker -------------------------------
(***************************************************************************)
(* What the offline checker (src/src/project1/checker.py) answers for a    *)
(* finite history of observations.                                         *)
(*                                                                         *)
(* A history is a sequence of records; the position of a record is its     *)
(* `index' (runner.py and Trial.operation number observations by their     *)
(* place in the history).  Only the fields a check looks at are kept:      *)
(*   op, status, client, node, key, version, write_id   for every event,   *)
(*   seq, depends_on       for writes (depends_on is None or a record),    *)
(*   order                 for audit_order,                                *)
(*   mock                  whether MockExecutor made the event, and        *)
(*   probe                 for dependency_probe: the fields of raw.        *)
(* The Python None and every other falsy identifier is the constant None.  *)
(***************************************************************************)
EXTENDS Naturals, Sequences, FiniteSets

CONSTANT None

RYW == "read_your_writes"
MR  == "monotonic_reads"
MW  == "monotonic_writes"
WFR == "writes_follow_reads"

Properties == {RYW, MR, MW, WFR}
Verdicts   == {"PASS", "VIOLATION", "INCONCLUSIVE"}

(* _finish: an event of one of these kinds that did not succeed makes every *)
(* answer but VIOLATION inconclusive.                                       *)
Required == {"write", "read", "dependency_probe", "partition", "stop"}

Incomplete(h) == \E i \in DOMAIN h : h[i].op \in Required /\ h[i].status # "ok"

Finish(complete, h) ==
    IF complete /\ ~Incomplete(h) THEN "PASS" ELSE "INCONCLUSIVE"

(* The operation a session guarantee compares a later event with.           *)
PriorOp(p) == IF p \in {RYW, MW} THEN "write" ELSE "read"

-----------------------------------------------------------------------------
(* Read-your-writes and monotonic reads, stated over the whole history: the *)
(* one-pass loops that compute this answer are in module SessionLoops.      *)

Counted(e) == /\ e.status = "ok"
              /\ e.client # None
              /\ e.key # None
              /\ e.version # None

SessionPair(p, h, a, b) ==
    /\ a < b
    /\ Counted(h[a]) /\ h[a].op = PriorOp(p)
    /\ Counted(h[b]) /\ h[b].op = "read"
    /\ h[a].client = h[b].client
    /\ h[a].key = h[b].key

Stale(p, h, a, b) == SessionPair(p, h, a, b) /\ h[b].version < h[a].version

SessionVerdict(p, h) ==
    IF \E a, b \in DOMAIN h : Stale(p, h, a, b)
      THEN "VIOLATION"
      ELSE Finish(\E a, b \in DOMAIN h : SessionPair(p, h, a, b), h)

-----------------------------------------------------------------------------
(* Monotonic writes and writes-follow-reads: a successful write (the effect) *)
(* names what it depends on, and an earlier successful operation of the same *)
(* client (the cause) has to justify that dependency.                        *)

Justifies(p, h, a, b) ==
    LET dep == h[b].depends_on IN
    /\ a < b
    /\ h[b].op = "write" /\ h[b].status = "ok" /\ dep # None
    /\ h[a].op = PriorOp(p) /\ h[a].status = "ok"
    /\ h[a].client = h[b].client
    /\ h[a].key = dep.key
    /\ h[a].version # None /\ h[a].version = dep.min_version
    /\ dep.write_id \in {None, h[a].write_id}

Candidates(p, h) ==
    {b \in DOMAIN h : \E a \in DOMAIN h : Justifies(p, h, a, b)}

Cause(p, h, b) ==
    CHOOSE a \in DOMAIN h :
        /\ Justifies(p, h, a, b)
        /\ \A c \in DOMAIN h : Justifies(p, h, c, b) => c <= a

HasProbe(h) == \E i \in DOMAIN h : h[i].op = "dependency_probe"

(* Mutant: only the last event counts, whatever it has written.              *)
ExposesLast(p, h, e, b) ==
    /\ h[e].op = "dependency_probe" /\ h[e].key = h[b].key
    /\ h[e].probe.cause_version # None /\ e = Len(h)

(* Probe e found the effect of b, and says something about its cause.       *)
Exposes(p, h, e, b) ==
    /\ h[e].op = "dependency_probe" /\ h[e].status = "ok"
    /\ h[e].node # None
    /\ h[e].probe.local_observation
    /\ h[e].probe.control_id # None
    /\ b < e
    /\ h[e].key = h[b].key /\ h[e].version = h[b].version
    /\ h[b].write_id # None /\ h[e].write_id = h[b].write_id
    /\ h[e].probe.cause_key = h[Cause(p, h, b)].key
    /\ h[e].probe.cause_version # None

(* Mutant: the very version of the cause counts as older.                    *)
LacksNewer(p, h, e, b) ==
    Exposes(p, h, e, b) /\ h[e].probe.cause_version <= h[Cause(p, h, b)].version

LacksCause(p, h, e, b) ==
    /\ Exposes(p, h, e, b)
    /\ h[e].probe.cause_version < h[Cause(p, h, b)].version

Covers(p, h, e, b) ==
    /\ Exposes(p, h, e, b)
    /\ ~LacksCause(p, h, e, b)
    /\ h[e].probe.cause_write_id = h[Cause(p, h, b)].write_id

ProbeVerdict(p, h) ==
    LET effects == Candidates(p, h) IN
    IF \E e \in DOMAIN h, b \in effects : LacksCause(p, h, e, b)
      THEN "VIOLATION"
      ELSE Finish(/\ effects # {}
                  /\ \A b \in effects : \E e \in DOMAIN h : Covers(p, h, e, b),
                  h)

-----------------------------------------------------------------------------
(* Histories of the mock executor have no probes.  Monotonic writes are then *)
(* judged by an explicit application order ...                               *)

Sequenced(e) == /\ e.op = "write" /\ e.status = "ok"
                /\ e.write_id # None /\ e.seq # None

(* The dict keyed by write_id keeps the last write of each identifier.       *)
AuditWrites(h) ==
    {i \in DOMAIN h :
        /\ Sequenced(h[i])
        /\ \A j \in DOMAIN h :
              j > i /\ Sequenced(h[j]) => h[j].write_id # h[i].write_id}

UsableAudit(h, k) ==
    /\ h[k].op = "audit_order" /\ h[k].status = "ok" /\ h[k].mock
    /\ Cardinality(AuditWrites(h)) >= 2
    /\ \A i \in AuditWrites(h) :
          \E n \in DOMAIN h[k].order : h[k].order[n] = h[i].write_id

(* Mutant: only neighbours in the order are compared.                        *)
ReversedNeighbours(h, k) ==
    \E m \in DOMAIN h[k].order, u, w \in AuditWrites(h) :
       /\ m + 1 \in DOMAIN h[k].order
       /\ h[k].order[m] = h[u].write_id /\ h[k].order[m + 1] = h[w].write_id
       /\ h[u].client = h[w].client /\ h[w].seq < h[u].seq

(* w is applied right after u among the writes of their client, with a       *)
(* smaller sequence number.                                                  *)
Reversed(h, k) ==
    LET At(n, i) == h[k].order[n] = h[i].write_id
    IN  \E m, n \in DOMAIN h[k].order, u, w \in AuditWrites(h) :
          /\ m < n /\ At(m, u) /\ At(n, w)
          /\ h[u].client = h[w].client
          /\ \A l \in (m + 1) .. (n - 1), v \in AuditWrites(h) :
                At(l, v) => h[v].client # h[w].client
          /\ h[w].seq < h[u].seq

AuditVerdict(h) ==
    IF \E k \in DOMAIN h : UsableAudit(h, k) /\ Reversed(h, k)
      THEN "VIOLATION"
      ELSE Finish(\E k \in DOMAIN h : UsableAudit(h, k), h)

(* ... and writes-follow-reads by a synthetic observer that reads the effect *)
(* (at `seen') and later, at the same node, the key of the cause (at r).     *)
MockRead(e) == e.op = "read" /\ e.status = "ok" /\ e.mock

MockObserves(h, b, seen, r) ==
    /\ b < seen /\ MockRead(h[seen])
    /\ h[seen].key = h[b].key /\ h[seen].version = h[b].version
    /\ seen < r /\ MockRead(h[r])
    /\ h[r].client = h[seen].client /\ h[r].node = h[seen].node
    /\ h[r].key = h[Cause(WFR, h, b)].key
    /\ h[r].version # None

ObserverVerdict(h) ==
    LET effects == Candidates(WFR, h)
        Late(b, r) == h[r].version < h[Cause(WFR, h, b)].version
    IN  IF \E b \in effects, s, r \in DOMAIN h :
              MockObserves(h, b, s, r) /\ Late(b, r)
          THEN "VIOLATION"
          ELSE Finish(/\ effects # {}
                      /\ \A b \in effects :
                            \E s, r \in DOMAIN h : MockObserves(h, b, s, r),
                      h)

-----------------------------------------------------------------------------
Check(p, h) ==
    CASE p \in {RYW, MR}          -> SessionVerdict(p, h)
      [] p \in {MW, WFR} /\ HasProbe(h) -> ProbeVerdict(p, h)
      [] p = MW /\ ~HasProbe(h)   -> AuditVerdict(h)
      [] p = WFR /\ ~HasProbe(h)  -> ObserverVerdict(h)
=============================================================================
