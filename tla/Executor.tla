------------------------------- MODULE Executor -------------------------------
(***************************************************************************)
(* A trajectory run against Cassandra by the command line: the executor    *)
(* (src/src/project1/cassandra_executor.py) with its failure controller    *)
(* (failure_control.py), built and closed by main() of cli.py.             *)
(*                                                                         *)
(* What is stored is left to module Cluster: here a request succeeds or    *)
(* fails, and a session is the set of hosts its policy allows.  A host is  *)
(* a node, or "localhost", which at the port of a node is that node.       *)
(***************************************************************************)
EXTENDS Naturals, Sequences

CONSTANTS Known,       \* the nodes of the lab
          Unknown,     \* names that are no node
          Client,
          Options,     \* what may be set by an option or a variable: contact_points
                       \* is << >> when it is not set, <<hosts>> when it is
          MaxSteps     \* bound: the length of a trajectory

ASSUME ExecutorAssumption ==
    /\ "N1" \in Known /\ Unknown \cap Known = {}
    /\ \A o \in Options :
          /\ \A i \in DOMAIN o.contact_points :
                o.contact_points[i] \subseteq Known \cup {"localhost"}
          /\ \A given \in {o.node_ports, o.node_contact_points} :
                \A i \in DOMAIN given : given[i][1] \in Known /\ given[i][2] \subseteq Known
    /\ MaxSteps \in Nat

VARIABLES pc,           \* "parse", "construct", "run", "close", "ended"
          config,       \* contact points, node ports and contact points by node
          docker,       \* whether --failure-controller docker is given
          client_nodes, \* [Client -> Known \union Unknown]
          session,      \* the whitelist of self.session, {} before it exists
          sessions,     \* self._sessions: [some nodes -> whitelists]
          clusters,     \* the length of self._clusters
          open,         \* driver clusters with threads and sockets
          up,           \* the running containers
          isolated,     \* those whose internode ports are blocked
          history

labVars == <<up, isolated>>
vars == <<pc, config, docker, client_nodes, session, sessions, clusters, open, labVars, history>>

Names == Known \union Unknown
Absent == "absent"      \* a field the step does not have

(* The lab is up and open when the program is called.                        *)
Init == /\ pc = "parse" /\ config = << >> /\ docker \in BOOLEAN
        /\ client_nodes = << >> /\ sessions = << >>
        /\ session = {} /\ clusters = 0 /\ open = 0
        /\ up = Known /\ isolated = {}
        /\ history = << >>

-----------------------------------------------------------------------------
(* _node_ports() and _node_contact_points(): pairs of a node and its hosts   *)
(* (or port), of which the last one counts.                                  *)
NodeMap(items) ==
    [n \in {items[i][1] : i \in DOMAIN items} |->
        LET mine == {i \in DOMAIN items : items[i][1] = n}
        IN  items[CHOOSE i \in mine : \A j \in mine : j <= i][2]]

(* CassandraConfig.from_env(): what is not set has a default (Known has the  *)
(* three names of the default ports).  Contact points set to nothing are no  *)
(* hosts at all; the other two set to nothing are as if they were not set.   *)
FromEnv(env) ==
    [contact_points |-> IF env.contact_points = << >> THEN {"localhost"}
                        ELSE env.contact_points[1],
     node_ports |-> IF env.node_ports = << >> THEN Known ELSE DOMAIN NodeMap(env.node_ports),
     node_contact_points |-> NodeMap(env.node_contact_points)]

(* build_executor(): every option that is given replaces the whole field (an *)
(* option of the empty string is not given, one of a comma has no hosts).    *)
Override(args, base) ==
    [contact_points |->
        IF args.contact_points # << >> THEN args.contact_points[1] ELSE base.contact_points,
     node_ports |->
        IF args.node_ports # << >> THEN DOMAIN NodeMap(args.node_ports) ELSE base.node_ports,
     node_contact_points |->
        IF args.node_contact_points # << >> THEN NodeMap(args.node_contact_points)
        ELSE base.node_contact_points]

(* main() up to the executor.  A fixture of the mock executor is refused; a  *)
(* run of the mock executor is left to module Trajectory.                    *)
Start ==
    /\ pc = "parse"
    /\ \/ \E fixture \in BOOLEAN :
             pc' = (IF fixture THEN "refused" ELSE "mock") /\ UNCHANGED config
       \/ \E args, env \in Options :
             pc' = "construct" /\ config' = Override(args, FromEnv(env))
    /\ UNCHANGED <<docker, client_nodes, session, sessions, clusters, open,
                   labVars, history>>

(* _contact_points_for_node(), at the port of the node.                      *)
Hosts(n) ==
    LET points == IF n \in DOMAIN config.node_contact_points
                    THEN config.node_contact_points[n] ELSE config.contact_points
    IN  {IF p = "localhost" THEN n ELSE p : p \in points}

-----------------------------------------------------------------------------
(* _connect_driver_session: the cluster is registered, then connected.       *)
Register(ok) == open' = open + 1 /\ clusters' = clusters + 1

Connects(whitelist, ok) == /\ Register(ok)
                           /\ ok => whitelist \cap up # {}

(* The constructor: the session of N1, then the schema.  Its exceptions      *)
(* leave main() before the try block.                                        *)
Construct ==
    /\ pc = "construct"
    /\ \E ok \in BOOLEAN :
          /\ Connects(Hosts("N1"), ok)
          /\ \/ ok /\ pc' = "run" /\ session' = Hosts("N1")
             \/ pc' = "died" /\ UNCHANGED session
    /\ UNCHANGED <<config, docker, client_nodes, sessions, labVars, history>>

-----------------------------------------------------------------------------
(* Mutant: the connection of the client wins over the node of the step.      *)
ClientNode(c, node) ==
    IF c \in DOMAIN client_nodes THEN client_nodes[c]
    ELSE IF node # Absent THEN node ELSE "N1"

(* _node: the node of the step, or the one its client is connected to.       *)
TheNode(c, node) ==
    IF node # Absent THEN node
    ELSE IF c \in DOMAIN client_nodes THEN client_nodes[c] ELSE "N1"

Observe(op, status, c, given, node, coordinator) ==
    history' = Append(history, [op |-> op, status |-> status, client |-> c,
                                given |-> given, node |-> node,
                                coordinator |-> coordinator])

Step == pc = "run" /\ Len(history) < MaxSteps /\ UNCHANGED <<pc, config, docker>>

Connect ==
    /\ Step
    /\ \E c \in Client, n \in Names :
          /\ client_nodes' = [x \in DOMAIN client_nodes \union {c} |->
                                IF x = c THEN n ELSE client_nodes[x]]
          /\ Observe("connect", "ok", c, n, n, Absent)
    /\ UNCHANGED <<session, sessions, clusters, open, labVars>>

(* The nodes a session is made for.                                          *)
Served(n) == n = "N1" \/ n \in config.node_ports

(* The session a step uses is there already.                                 *)
HasSession(n) == n = "N1" \/ n \in DOMAIN sessions

SessionOf(n) == IF n = "N1" THEN session ELSE sessions[n]

(* Through a session: answered by a host of its whitelist, or an error.      *)
Request(op, c, given, n, whitelist) ==
    \/ \E h \in whitelist \cap up : Observe(op, "ok", c, given, n, h)
    \/ Observe(op, "error", c, given, n, Absent)

(* A read or a write, which differ in the data only.  _session_for_step,     *)
(* then execute: an unknown node is refused, a new session is made and kept, *)
(* or fails to connect.                                                      *)
ReadOrWrite ==
    /\ Step
    /\ \E op \in {"request"}, c \in Client, given \in Names \union {Absent} :
       LET n == TheNode(c, given) IN
       \/ /\ ~Served(n) /\ Observe(op, "error", c, given, n, Absent)
          /\ UNCHANGED <<sessions, clusters, open>>
       \/ /\ Served(n) /\ HasSession(n) /\ Request(op, c, given, n, SessionOf(n))
          /\ UNCHANGED <<sessions, clusters, open>>
       \/ /\ Served(n) /\ ~HasSession(n) /\ Connects(Hosts(n), TRUE)
          /\ sessions' = [x \in DOMAIN sessions \union {n} |->
                            IF x = n THEN Hosts(n) ELSE sessions[x]]
          /\ Request(op, c, given, n, Hosts(n))
       \/ /\ Served(n) /\ ~HasSession(n) /\ Connects(Hosts(n), FALSE)
          /\ Observe(op, "error", c, given, n, Absent)
          /\ UNCHANGED sessions
    /\ UNCHANGED <<client_nodes, session, labVars>>

(* audit_order and operations the executor does not know.                    *)
Unsupported == /\ Step
               /\ Observe("audit_order", "unsupported", Absent, Absent, Absent, Absent)
               /\ UNCHANGED <<client_nodes, session, sessions, clusters, open, labVars>>

-----------------------------------------------------------------------------
(* What the command of a control does to the lab.  The rules of the firewall *)
(* go with the network namespace of a container that is stopped; starting    *)
(* one that runs leaves them.  Healing may do nothing (module Firewall).     *)
Effect(op, n) ==
    CASE op = "stop"      -> up' = up \ {n} /\ isolated' = isolated \ {n}
      [] op = "start"     -> up' = up \union {n} /\ UNCHANGED isolated
      [] op = "partition" -> isolated' = isolated \union {n} /\ UNCHANGED up
      [] op = "heal"      -> isolated' \in {isolated, isolated \ {n}} /\ UNCHANGED up

Possible(op, n) == op \in {"stop", "start"} \/ n \in up

(* Mutant: a command that was run is reported as done.                       *)
RanOk(returncode) == "ok"

ControlStatus(returncode) == IF returncode = 0 THEN "ok" ELSE "error"

(* DockerFailureController.apply and NoopFailureController.apply.  A command *)
(* that fails may have had its effect.                                       *)
Control ==
    /\ Step
    /\ \E op \in {"partition", "heal", "stop", "start"}, n \in Names \union {Absent} :
       CASE ~docker ->
              /\ Observe(op, "skipped", Absent, n, n, Absent) /\ UNCHANGED labVars
         [] docker /\ n \notin Known ->
              /\ Observe(op, "error", Absent, n, n, Absent) /\ UNCHANGED labVars
         [] OTHER ->
              \E returncode \in {0, 1} :
                 /\ \/ Possible(op, n) /\ Effect(op, n)
                    \/ returncode = 1 /\ UNCHANGED labVars
                 /\ Observe(op, ControlStatus(returncode), Absent, n, n, Absent)
    /\ UNCHANGED <<client_nodes, session, sessions, clusters, open>>

-----------------------------------------------------------------------------
(* The end of the trajectory, also by an exception of run_trajectory; then   *)
(* executor.close().                                                         *)
Finish == /\ pc = "run" /\ pc' = "close"
          /\ UNCHANGED <<config, docker, client_nodes, session, sessions, clusters,
                         open, labVars, history>>

Close == /\ pc = "close" /\ pc' = "ended"
         /\ open' = open - clusters /\ clusters' = 0
         /\ sessions' = << >>
         /\ UNCHANGED <<config, docker, client_nodes, session, labVars, history>>

Next == \/ Start \/ Construct \/ Connect \/ ReadOrWrite \/ Unsupported \/ Control
        \/ Finish \/ Close

Spec == Init /\ [][Next]_vars

-----------------------------------------------------------------------------
(* Where the i-th step has to go according to the trajectory alone: to the   *)
(* node it names, or where its client connected last, or to N1.              *)
Requested(i) ==
    LET mine == {j \in 1 .. (i - 1) : /\ history[j].op = "connect"
                                      /\ history[j].client = history[i].client}
    IN  IF history[i].given # Absent THEN history[i].given
        ELSE IF mine = {} THEN "N1"
        ELSE history[CHOOSE j \in mine : \A k \in mine : k <= j].given

(* Every successful request was coordinated by a host of the node its        *)
(* trajectory asks for: nothing is silently rerouted (_session_for_step),    *)
(* although clients move between nodes and sessions are kept.                *)
NeverRerouted ==
    \A i \in DOMAIN history :
       history[i].op = "request" /\ history[i].status = "ok" =>
          /\ Served(Requested(i))
          /\ history[i].coordinator \in Hosts(Requested(i))

(* The controls of a node so far, and the latest of some of them.            *)
ControlsOf(n, ops) == {i \in DOMAIN history : history[i].op \in ops /\ history[i].node = n}

IsLatest(i, n, ops) == i \in ControlsOf(n, ops) /\ \A j \in ControlsOf(n, ops) : j <= i

(* A node whose controls were all reported ok is as they left it: it runs    *)
(* as the latest stop or start says, and it is isolated only after a         *)
(* partition it was not stopped since, and then unless it was healed.  A     *)
(* result is not about a fault that did not happen, nor about one that       *)
(* outlived its trajectory's restart (apply; _finish refuses a PASS after a  *)
(* failed partition or stop).                                                *)
ControlsTookEffect ==
    \A n \in Known :
       (\A i \in ControlsOf(n, {"partition", "stop", "start"}) : history[i].status = "ok") =>
          /\ \A i \in DOMAIN history : IsLatest(i, n, {"stop", "start"}) =>
                (n \in up <=> history[i].op = "start")
          /\ n \in isolated =>
                \E i \in DOMAIN history :
                   IsLatest(i, n, {"partition", "stop"}) /\ history[i].op = "partition"
          /\ \A i \in DOMAIN history :
                IsLatest(i, n, {"partition", "stop"}) /\ history[i].op = "partition" =>
                   n \in isolated \/ \E j \in ControlsOf(n, {"heal"}) : j > i

=============================================================================
