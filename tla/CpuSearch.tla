------------------------------ MODULE CpuSearch ------------------------------
(***************************************************************************)
(* The parallel CPU backends of the chess search: root_search ("omp",      *)
(* "mpi", and with a seed "omp-pv", "mpi-pv") and frontier_search          *)
(* (--split-depth 2 or more) of src/project3/src/main.cpp.                 *)
(*                                                                         *)
(* Every MPI rank runs the same function; within a rank OpenMP threads     *)
(* share the loop over the tasks.  A task reads a copy of its board and    *)
(* writes its own elements of `scores' and `per_move', so that searching   *)
(* one is a step.  Ranks meet only in collective operations.  With one     *)
(* rank these do nothing: that is the build without MPI.                   *)
(* Of the statistics only the node counts are kept: leaves and cutoffs are *)
(* summed in the same way.                                                 *)
(***************************************************************************)
EXTENDS GameTree, FiniteSets

CONSTANTS Splits,       \* values of --split-depth
          NumRanks,     \* MPI ranks
          NumThreads    \* OpenMP threads of a rank

ASSUME CpuSearchAssumption ==
    /\ Splits \subseteq 1 .. Depth
    /\ NumRanks \in Nat \ {0} /\ NumThreads \in Nat \ {0}

Rank == 0 .. (NumRanks - 1)

VARIABLES position, split, seeded,   \* the options of the run
          tasks,      \* what there is to search, the same on every rank
          pc,         \* where each rank is
          scores,     \* scores[r][i], as rank r knows it
          nodes,      \* nodes[r][i]: per_move, per_task
          pending,    \* the iterations a rank has not finished
          message,    \* the seed on its way to the other ranks
          gathered,   \* local_work_nodes of the ranks that sent it
          result      \* [score, move, nodes] of each rank

vars == <<position, split, seeded, tasks, pc, scores, nodes, pending, message, gathered, result>>

-----------------------------------------------------------------------------
(* Tasks: the moves of the root, or the leaves of build_frontier in the      *)
(* order it meets them.  A path is the moves made since the root.            *)

Branches == [board : Position, levels : Nat, path : Seq(Nat)]

frontier[n \in Branches] ==
    IF n.levels = 0 \/ Terminal(n.board)
      THEN << [board |-> n.board, path |-> n.path] >>
      ELSE FlattenSeq([i \in DOMAIN n.board.next |->
               frontier[[board |-> n.board.next[i], levels |-> n.levels - 1,
                         path |-> Append(n.path, i)]]])

(* f[1] + ... + f[n]                                                         *)
Sum(f, n) == LET upto[i \in 0 .. n] == IF i = 0 THEN 0 ELSE upto[i - 1] + f[i]
             IN  upto[n]

(* frontier.nodes.size(): with every position expanded, all its moves.       *)
Sizes == [board : Position, levels : Nat]

size[n \in Sizes] ==
    IF n.levels = 0 \/ Terminal(n.board) THEN 1
    ELSE 1 + Sum([i \in DOMAIN n.board.next |->
                     size[[board |-> n.board.next[i], levels |-> n.levels - 1]]],
                 Len(n.board.next))

FrontierSize(p, levels) == size[[board |-> p, levels |-> levels]]

Tasks(p, levels) ==
    IF levels = 1 THEN [i \in DOMAIN p.next |-> [board |-> p.next[i], path |-> <<i>>]]
    ELSE frontier[[board |-> p, levels |-> levels, path |-> <<>>]]

Owner(r, i) == (i - 1) % NumRanks = r

First == IF seeded THEN 2 ELSE 1   \* first_parallel

(* What the opponent may reach after a root move.                            *)
Bound(seed) == IF seeded THEN -seed ELSE INF

SearchTask(i, seed) ==
    LET t == tasks[i]
    IN  IF split = 1
          THEN LET c == Negamax(t.board, Depth - 1, 1, -INF, Bound(seed), TRUE)
               IN  [score |-> -c.score, nodes |-> c.nodes]
          ELSE Negamax(t.board, Depth - Len(t.path), Len(t.path), -INF, INF, TRUE)

(* The first root move is searched with the full window.                     *)
SeedTask == LET c == Negamax(tasks[1].board, Depth - 1, 1, -INF, INF, TRUE)
            IN  [score |-> -c.score, nodes |-> c.nodes]

(* Mutant: combine_frontier forgets whose turn it is.                        *)
CombineUnsigned(s, path) ==
    LET Below(t) == Len(path) <= Len(t.path) /\ SubSeq(t.path, 1, Len(path)) = path
    IN  Max({-INF} \cup {s[i] : i \in {j \in DOMAIN tasks : Below(tasks[j])}})

Combine(s, path) ==
    LET Here(q) == {i \in DOMAIN tasks : tasks[i].path = q}
        Below(q) == {i \in DOMAIN tasks : /\ Len(tasks[i].path) > Len(q)
                                          /\ SubSeq(tasks[i].path, 1, Len(q)) = q}
        best[q \in Seq(Nat)] ==
            IF Here(q) # {} THEN s[CHOOSE i \in Here(q) : TRUE]
            ELSE Max({-INF} \cup {-best[Append(q, tasks[i].path[Len(q) + 1])] : i \in Below(q)})
    IN  best[path]

(* The result a rank forms from all scores.                                  *)
Reduce(s) ==
    IF split = 1 THEN FirstBest(s)
    ELSE IF Terminal(position) THEN [score |-> s[1], move |-> 0]
    ELSE FirstBest([i \in DOMAIN position.next |-> -Combine(s, <<i>>)])

-----------------------------------------------------------------------------
Init == /\ position \in Games /\ split \in Splits
        /\ seeded \in BOOLEAN /\ (seeded => split = 1)
        /\ tasks = Tasks(position, split)
        /\ pc = [r \in Rank |-> "start"]
        /\ scores = [r \in Rank |-> <<>>]
        /\ nodes = [r \in Rank |-> <<>>]
        /\ pending = [r \in Rank |-> {}]
        /\ message = <<>>
        /\ gathered = [r \in {} |-> 0]
        /\ result = [r \in Rank |-> [score |-> -INF, move |-> 0, nodes |-> 0]]

Goto(r, l) == pc' = [pc EXCEPT ![r] = l]

options == <<position, split, seeded, tasks>>

(* Nothing to split: root_search calls serial_search on every rank.          *)
Serial(r) ==
    /\ pc[r] = "start" /\ split = 1 /\ Terminal(position)
    /\ result' = [result EXCEPT ![r] = SerialSearch(position, Depth, TRUE)]
    /\ Goto(r, "done")
    /\ UNCHANGED <<options, scores, nodes, pending, message, gathered>>

(* build_frontier throws; MPI_Abort ends the other ranks.                    *)
Abort(r) ==
    /\ pc[r] = "start" /\ split > 1 /\ FrontierSize(position, split) > MaxNodes
    /\ pc' = [q \in Rank |-> "aborted"]
    /\ UNCHANGED <<options, scores, nodes, pending, message, gathered, result>>

Start(r) ==
    /\ pc[r] = "start"
    /\ IF split = 1 THEN ~Terminal(position) ELSE FrontierSize(position, split) <= MaxNodes
    /\ scores' = [scores EXCEPT ![r] = [i \in DOMAIN tasks |-> -INF]]
    /\ nodes' = [nodes EXCEPT ![r] = [i \in DOMAIN tasks |-> 0]]
    /\ pending' = [pending EXCEPT ![r] = {i \in DOMAIN tasks : i >= First /\ Owner(r, i)}]
    /\ Goto(r, IF ~seeded THEN "work" ELSE IF r = 0 THEN "seed" ELSE "bcast")
    /\ UNCHANGED <<options, message, gathered, result>>

(* Rank 0 searches the first move and broadcasts its score.                  *)
Seed ==
    /\ pc[0] = "seed"
    /\ scores' = [scores EXCEPT ![0][1] = SeedTask.score]
    /\ nodes' = [nodes EXCEPT ![0][1] = SeedTask.nodes]
    /\ message' = <<SeedTask.score>>
    /\ Goto(0, "work")
    /\ UNCHANGED <<options, pending, gathered, result>>

Receive(r) ==
    /\ pc[r] = "bcast" /\ message # <<>>
    /\ scores' = [scores EXCEPT ![r][1] = message[1]]
    /\ Goto(r, "work")
    /\ UNCHANGED <<options, nodes, pending, message, gathered, result>>

(* schedule(dynamic, 1): iterations are handed out in order, so that fewer   *)
(* than NumThreads earlier ones are unfinished when i ends.                  *)
Search(r, i) ==
    /\ pc[r] = "work" /\ i \in pending[r]
    /\ Cardinality({j \in pending[r] : j < i}) < NumThreads
    /\ LET task == SearchTask(i, scores[r][1])
       IN  /\ scores' = [scores EXCEPT ![r][i] = task.score]
           /\ nodes' = [nodes EXCEPT ![r][i] = task.nodes]
    /\ pending' = [pending EXCEPT ![r] = @ \ {i}]
    /\ UNCHANGED <<options, pc, message, gathered, result>>

WorkDone(r) ==
    /\ pc[r] = "work" /\ pending[r] = {}
    /\ Goto(r, IF seeded THEN "gather" ELSE "scores")
    /\ UNCHANGED <<options, scores, nodes, pending, message, gathered, result>>

(* MPI_Gather of local_work_nodes: a rank sends its own and goes on; rank 0  *)
(* waits for all.  (The seconds are gathered in the same way.)               *)
LocalNodes(r) ==
    Sum([i \in DOMAIN tasks |-> IF i < First THEN 0 ELSE nodes[r][i]], Len(tasks))

(* Mutant: rank 0 waits for its own contribution as well.                    *)
GatheredAll(r) == r = 0 => DOMAIN gathered = Rank

Gathered(r) == r = 0 => DOMAIN gathered = Rank \ {0}

Gather(r) ==
    /\ pc[r] = "gather"
    /\ Gathered(r)
    /\ gathered' = [q \in DOMAIN gathered \cup {r} |->
                       IF q = r THEN LocalNodes(r) ELSE gathered[q]]
    /\ Goto(r, "scores")
    /\ UNCHANGED <<options, scores, nodes, pending, message, result>>

Together(here, there) == /\ \A r \in Rank : pc[r] = here
                         /\ pc' = [r \in Rank |-> there]

(* MPI_Allreduce of the scores with MPI_MAX: no rank leaves it before all    *)
(* have entered.                                                             *)
ReduceScores ==
    /\ Together("scores", "choose")
    /\ scores' = [r \in Rank |-> [i \in DOMAIN tasks |-> Max({scores[q][i] : q \in Rank})]]
    /\ UNCHANGED <<options, nodes, pending, message, gathered, result>>

(* The nodes above the tasks are counted by rank 0.                          *)
Upper == IF split = 1 THEN 1 ELSE FrontierSize(position, split) - Len(tasks)

Choose(r) ==
    /\ pc[r] = "choose"
    /\ result' = [result EXCEPT ![r] =
            [score |-> Reduce(scores[r]).score, move |-> Reduce(scores[r]).move,
             nodes |-> Sum(nodes[r], Len(tasks)) + (IF r = 0 THEN Upper ELSE 0)]]
    /\ Goto(r, "stats")
    /\ UNCHANGED <<options, scores, nodes, pending, message, gathered>>

(* MPI_Allreduce of the statistics with MPI_SUM (and of the seconds).        *)
ReduceStats ==
    /\ Together("stats", "done")
    /\ result' = [r \in Rank |->
            [result[r] EXCEPT !.nodes =
                Sum([q \in 1 .. NumRanks |-> result[q - 1].nodes], NumRanks)]]
    /\ UNCHANGED <<options, scores, nodes, pending, message, gathered>>

Ended(r) == pc[r] \in {"done", "aborted"}

RankStep(r) == \/ Serial(r) \/ Abort(r) \/ Start(r) \/ Receive(r)
               \/ \E i \in pending[r] : Search(r, i)
               \/ WorkDone(r) \/ Gather(r) \/ Choose(r)

Next == Seed \/ ReduceScores \/ ReduceStats \/ \E r \in Rank : RankStep(r)

Spec == Init /\ [][Next]_vars /\ WF_vars(Next)

-----------------------------------------------------------------------------
(* Pruning changes neither the score nor the chosen move of serial_search:   *)
(* ties are broken by the order of the moves (src/project3/README.md:282).   *)
SerialIsExact ==
    LET serial == SerialSearch(position, Depth, TRUE)
    IN  IF Terminal(position)
          THEN serial.score = Minimax(position, Depth, 0) /\ serial.move = 0
          ELSE [score |-> serial.score, move |-> serial.move]
               = FirstBest([i \in DOMAIN position.next |->
                               -Minimax(position.next[i], Depth - 1, 1)])

(* All backends give, on every rank, the score and the move of the serial    *)
(* one, however the tasks are split, shared out and ordered; and every task  *)
(* is searched by one rank and counted once in the nodes they report.        *)
SameAnswer ==
    LET serial == SerialSearch(position, Depth, TRUE)
        seed   == SeedTask
        each   == [i \in DOMAIN tasks |->
                      IF i < First THEN seed.nodes
                      ELSE SearchTask(i, IF seeded THEN seed.score ELSE -INF).nodes]
    IN  \A r \in Rank :
          /\ pc[r] \in {"stats", "done"} =>
                result[r].score = serial.score /\ result[r].move = serial.move
          /\ pc[r] = "done" /\ ~(split = 1 /\ Terminal(position)) =>
                result[r].nodes = Upper + Sum(each, Len(tasks))

(* No rank waits for ever in a collective operation.                         *)
Terminates == <>(\A r \in Rank : Ended(r))
=============================================================================
