------------------------------ MODULE TargetTree ------------------------------
(***************************************************************************)
(* The flattened trees the host makes for the target region: build_node    *)
(* (src/project3/src/main.cpp).  Node n is nodes[n + 1]: the numbers of    *)
(* the code start at 0.  A leaf board is represented by what               *)
(* device_evaluate makes of it, in `leaf', which otherwise holds           *)
(* terminal_score.  `at' is what build_node is called with for the node;   *)
(* it is not in the code, and nothing reads it.  `overflow' stands for the *)
(* exception of --max-tree-nodes.                                          *)
(***************************************************************************)
EXTENDS GameTree

TreeNode == [first : Int, count : Nat, leaf : Int, at : Searched]
TreeMade == [nodes : Seq(TreeNode), overflow : BOOLEAN]

(* nodes.resize: new nodes have no children and score 0.                     *)
NewNodes(ps, depth, ply) ==
    [i \in 1 .. Len(ps) |-> [first |-> -1, count |-> 0, leaf |-> 0, at |-> At(ps[i], depth, ply)]]

EmptyTree(ps, depth, ply) == [nodes |-> NewNodes(ps, depth, ply), overflow |-> FALSE]

(* The arguments of build_node.                                              *)
Builds == [tree : TreeMade, index : Nat, board : Position, depth : Nat, ply : Nat, limit : Nat]

Build(t, n, p, depth, ply, limit) ==
    [tree |-> t, index |-> n, board |-> p, depth |-> depth, ply |-> ply, limit |-> limit]

(* The node has no children, or gets them at the end of the vector.          *)
Childless(b) ==
    [b.tree EXCEPT !.nodes = [@ EXCEPT ![b.index + 1].leaf = StaticScore(b.board, b.ply)]]

Expanded(b) ==
    LET t == b.tree
    IN  [nodes |-> [t.nodes EXCEPT ![b.index + 1].first = Len(t.nodes),
                                   ![b.index + 1].count = Len(b.board.next)]
                   \o NewNodes(b.board.next, b.depth - 1, b.ply + 1),
         overflow |-> FALSE]

build_node[b \in Builds] ==
    LET t     == b.tree
        moves == b.board.next
        turn[i \in 0 .. Len(moves)] ==
          IF i = 0 THEN Expanded(b)
          ELSE With(turn[i - 1], LAMBDA u :
                 build_node[Build(u, Len(t.nodes) + i - 1, moves[i],
                                  b.depth - 1, b.ply + 1, b.limit)])
    IN  CASE t.overflow -> t
          [] ~t.overflow /\ (Terminal(b.board) \/ b.depth = 0) -> Childless(b)
          [] OTHER -> IF Len(t.nodes) + Len(moves) > b.limit
                        THEN [t EXCEPT !.overflow = TRUE]
                        ELSE turn[Len(moves)]

(* gpu_search: the nodes of the root moves are made first.                   *)
MoveTrees(p, depth, limit) ==
    LET turn[i \in 0 .. Len(p.next)] ==
          IF i = 0 THEN EmptyTree(p.next, depth - 1, 1)
          ELSE With(turn[i - 1], LAMBDA u :
                 build_node[Build(u, i - 1, p.next[i], depth - 1, 1, limit)])
    IN  turn[Len(p.next)]

(* chunked_negamax: one tree from the position down.                         *)
ChunkTree(p, depth, ply, limit) == build_node[Build(EmptyTree(<<p>>, depth, ply), 0, p, depth, ply, limit)]
=============================================================================
