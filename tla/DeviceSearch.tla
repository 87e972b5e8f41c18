----------------------------- MODULE DeviceSearch -----------------------------
(***************************************************************************)
(* device_search (src/project3/src/main.cpp): alpha-beta over a flattened  *)
(* tree with an explicit stack of fixed size, as it runs in an OpenMP      *)
(* target region, one iteration of the loop at a time.                     *)
(*                                                                         *)
(* A tree is what build_node makes of positions: node n is tree[n + 1],    *)
(* and its `at' says of which position, depth and ply; no step reads it.   *)
(***************************************************************************)
EXTENDS TargetTree

CONSTANTS Trees,      \* the trees that may be searched
          MaxDepth    \* MAX_GPU_DEPTH

Node(t) == 0 .. (Len(t) - 1)

(* Node n is what build_node makes of its position: a leaf with its score,   *)
(* or a node with one child for each move, in the order of the moves.        *)
IsNode(t, n) ==
    LET node  == t[n + 1]
        p     == node.at.board
    IN  IF Terminal(p) \/ node.at.depth = 0
          THEN node.count = 0 /\ node.leaf = StaticScore(p, node.at.ply)
          ELSE /\ p.next # <<>> /\ node.count = Len(p.next)
               /\ \A i \in 1 .. Len(p.next) :
                     /\ node.first + i - 1 \in Node(t)
                     /\ t[node.first + i].at = At(p.next[i], node.at.depth - 1, node.at.ply + 1)

IsTree(t) ==
    /\ t \in Seq(TreeNode)
    /\ \A n \in Node(t) : /\ IsNode(t, n)
                          /\ t[n + 1].at.depth <= MaxDepth
                          /\ t[n + 1].at.depth + t[n + 1].at.ply < INF

ASSUME DeviceSearchAssumption == MaxDepth \in Nat /\ \A t \in Trees : IsTree(t)

VARIABLES tree, root,     \* the arguments
          stack, top,     \* Frame stack[MAX_GPU_DEPTH + 2]
          value,          \* what is returned, once top is -1
          visited, leafVisits, cutoffs

deviceVars == <<tree, root, stack, top, value, visited, leafVisits, cutoffs>>

(* Mutant: one frame for each ply, none for the root.                        *)
SlotsTooFew == 0 .. (MaxDepth - 1)

Slots == 0 .. (MaxDepth + 1)

Frame == [index : Int, next : Int, best : Int, alpha : Int, beta : Int]

FrameOf(n, next, best, alpha, beta) ==
    [index |-> n, next |-> next, best |-> best, alpha |-> alpha, beta |-> beta]

NewFrame(n, alpha, beta) == FrameOf(n, 0, -INF, alpha, beta)

DeviceInit == /\ tree \in Trees /\ root \in Node(tree)
        /\ stack = [k \in Slots |-> NewFrame(root, -INF, INF)]
        /\ top = 0 /\ value = 0
        /\ visited = 1 /\ leafVisits = 0 /\ cutoffs = 0

Current == stack[top]

Count(f) == tree[f.index + 1].count

Exhausted(f) == Count(f) = 0 \/ f.next >= Count(f) \/ f.alpha >= f.beta

Worth(f) == IF Count(f) = 0 THEN tree[f.index + 1].leaf ELSE f.best

Larger(a, b) == IF a > b THEN a ELSE b

(* Mutant: the bound is not raised.                                          *)
RaiseBestOnly(f, score) ==
    FrameOf(f.index, f.next, Larger(score, f.best), f.alpha, f.beta)

Raise(f, score) ==
    FrameOf(f.index, f.next, Larger(score, f.best), Larger(score, f.alpha), f.beta)

CountLeaf == leafVisits' = leafVisits + (IF Count(Current) = 0 THEN 1 ELSE 0)

Return == /\ top = 0 /\ Exhausted(Current)
          /\ top' = -1
          /\ value' = Worth(Current)
          /\ CountLeaf
          /\ UNCHANGED <<tree, root, stack, visited, cutoffs>>

Parent == Raise(stack[top - 1], -Worth(Current))

Cuts(f) == f.alpha >= f.beta /\ f.next < Count(f)

Pop == /\ top > 0 /\ Exhausted(Current)
       /\ top' = top - 1
       /\ stack' = [stack EXCEPT ![top - 1] = Parent]
       /\ CountLeaf
       /\ cutoffs' = cutoffs + (IF Cuts(Parent) THEN 1 ELSE 0)
       /\ UNCHANGED <<tree, root, value, visited>>

(* Mutant: the child's window is negated but not turned around.              *)
ChildUnturned(f) == NewFrame(tree[f.index + 1].first + f.next, -f.alpha, -f.beta)

Child(f) == NewFrame(tree[f.index + 1].first + f.next, -f.beta, -f.alpha)

Advance(f) == FrameOf(f.index, f.next + 1, f.best, f.alpha, f.beta)

Push == /\ top >= 0 /\ ~Exhausted(Current)
        /\ top' = top + 1
        /\ stack' = [stack EXCEPT ![top] = Advance(Current), ![top + 1] = Child(Current)]
        /\ visited' = visited + 1
        /\ UNCHANGED <<tree, root, value, leafVisits, cutoffs>>

DeviceNext == Return \/ Pop \/ Push

DeviceSpec == DeviceInit /\ [][DeviceNext]_deviceVars

-----------------------------------------------------------------------------
TypeOK == /\ IsTree(tree) /\ root \in Node(tree)
          /\ stack \in [Slots -> Frame]
          /\ top \in Int /\ value \in Int
          /\ visited \in Nat /\ leafVisits \in Nat /\ cutoffs \in Nat

(* The fixed array is long enough for every tree of depth MAX_GPU_DEPTH.     *)
StackFits == top \in {-1} \cup Slots

(* Pruning with an explicit stack returns exactly the minimax value of the   *)
(* root, because the window of the root is open on both sides.               *)
ReturnsMinimax == top = -1 => value = minimax[tree[root + 1].at]

(* device_search returns and counts what the host's recursive negamax does   *)
(* for the position of the root: the explicit stack is the same search, node *)
(* for node, with the same cutoffs.                                          *)
TraversesLikeNegamax ==
    LET a == tree[root + 1].at
    IN  top = -1 => [score |-> value, nodes |-> visited]
                    = Negamax(a.board, a.depth, a.ply, -INF, INF, TRUE)
=============================================================================
