------------------------------- MODULE Cluster -------------------------------
(***************************************************************************)
(* The Cassandra cluster as the code under src/ uses it (external): one    *)
(* replica of every key on each node (RF = 3 on three nodes), last write   *)
(* wins by client timestamp, tunable consistency, blocking read repair, no *)
(* retries and no speculative reads (cassandra_executor.py, _ensure_schema *)
(* and _connect_driver_session).                                           *)
(*                                                                         *)
(* A request is one step of its client.  What a write has not reached when *)
(* it is answered stays in `mutations': it may arrive at any later time,   *)
(* be dropped (never arrive), or wait for a partition to heal.             *)
(***************************************************************************)
EXTENDS Integers

CONSTANTS Node, Key, NoWriteId,
          Quorum,      \* the sets of replicas whose answers satisfy QUORUM
          Ticks        \* what may be added to the wall clock between writes

(* Two of three replicas.  A write is answered before the next one, so that  *)
(* the clock, in microseconds, has moved.                                    *)
ASSUME QuorumAssumption ==
    /\ Quorum \subseteq SUBSET Node
    /\ \A p, q \in Quorum : p \cap q # {}
    /\ \A q \in Quorum, n \in Node : q # {n}
ASSUME TicksAssumption == Ticks \subseteq Int \ {0}

VARIABLES cell,        \* [Node -> [Key -> cells]]: what each replica stores
          mutations,   \* writes on their way to a replica
          up,          \* the running containers
          isolated,    \* the nodes whose internode ports are blocked
          clock        \* time.time_ns() // 1000 on the machine of the client

clusterVars == <<cell, mutations, up, isolated, clock>>

(* A cell is [ts, version, write_id].                                        *)
NoCell == [ts |-> -1000, version |-> 0, write_id |-> NoWriteId]

ClusterInit == /\ cell = [n \in Node |-> [k \in Key |-> NoCell]]
               /\ mutations = {}
               /\ up = Node
               /\ isolated = {}
               /\ clock = 0

-----------------------------------------------------------------------------
(* The nodes that exchange internode messages with n.                        *)
Reach(n) == {m \in up : m = n \/ {m, n} \cap isolated = {}}

(* The replicas a coordinator can ask; none if it is down itself.            *)
Contacts(n) == IF n \in up THEN Reach(n) ELSE {}

(* The sets of replicas that answer a request at a consistency level.        *)
Answers(level) == CASE level = "ONE"    -> {{n} : n \in Node}
                    [] level = "QUORUM" -> Quorum
                    [] level = "ALL"    -> {Node}

Newer(c, d) == IF c.ts >= d.ts THEN c ELSE d

(* The nodes of S merge c into their copy of k.                              *)
Merge(S, k, c) ==
    cell' = [n \in Node |-> IF n \in S
                            THEN [cell[n] EXCEPT ![k] = Newer(c, @)]
                            ELSE cell[n]]

-----------------------------------------------------------------------------
(* A write coordinated by n: the nodes of S store it before the answer.  The *)
(* client's timestamp is its clock; every other replica is sent the mutation *)
(* (or a hint for it).                                                       *)
WriteReaches(n, k, v, id, S) ==
    \E t \in Ticks :
       LET c == [ts |-> clock + t, version |-> v, write_id |-> id] IN
       /\ clock' = clock + t
       /\ Merge(S, k, c)
       /\ mutations' = mutations \union
             {[key |-> k, cell |-> c, from |-> n, to |-> m] : m \in Node \ S}
       /\ UNCHANGED <<up, isolated>>

Write(n, k, v, id, level, ok) ==
    \E S \in SUBSET Contacts(n) :
       /\ ok => S \in Answers(level)
       /\ WriteReaches(n, k, v, id, S)

(* A read coordinated by n contacts the replicas S and returns the newest    *)
(* cell; those it answers for are repaired before, a failed read may have    *)
(* repaired some.                                                            *)
Newest(S, k) == CHOOSE c \in {cell[m][k] : m \in S} :
                    \A m \in S : cell[m][k].ts <= c.ts

Read(n, k, level, S, ok) ==
    /\ S \subseteq Contacts(n)
    /\ ok => S \in Answers(level)
    /\ \E T \in SUBSET S : (ok => T = S) /\ Merge(T, k, Newest(S, k))
    /\ UNCHANGED <<mutations, up, isolated, clock>>

(* A mutation arrives.  A node that was isolated may still apply what it had *)
(* received before: see Isolate.                                             *)
Deliver ==
    \E m \in mutations :
       /\ m.from \in up /\ m.to \in Reach(m.from)
       /\ Merge({m.to}, m.key, m.cell)
       /\ mutations' = mutations \ {m}
       /\ UNCHANGED <<up, isolated, clock>>

-----------------------------------------------------------------------------
Stop(n) == /\ up' = up \ {n}
           /\ UNCHANGED <<cell, mutations, isolated, clock>>

(* The mutations in Q were received by n already and only wait for their     *)
(* turn: from now on they are n's own.                                       *)
Isolate(n) ==
    /\ isolated' = isolated \union {n}
    /\ \E Q \in SUBSET {m \in mutations : m.to = n /\ m.to \in Reach(m.from)} :
          mutations' = (mutations \ Q) \union {[m EXCEPT !.from = n] : m \in Q}
    /\ UNCHANGED <<cell, up, clock>>
=============================================================================
