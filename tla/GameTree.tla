------------------------------- MODULE GameTree -------------------------------
(***************************************************************************)
(* Fixed-depth negamax with alpha-beta pruning over a game                 *)
(* (src/project3/src/main.cpp).                                            *)
(*                                                                         *)
(* The move generator is a vendored library.  A position is a record of    *)
(* what the search asks it: its kind, the material balance for the side to *)
(* move (`evaluate'), and the positions after its legal moves, in the      *)
(* order of the generator.  "mate" and "stalemate" have no legal moves; a  *)
(* "drawn" position (repetition, fifty moves, material) may have some.     *)
(* Positions below the horizon of a search are left out.                   *)
(***************************************************************************)
EXTENDS Integers, Sequences, SequencesExt

CONSTANTS INF,       \* beyond every score
          MATE,      \* the score of a mate at the root
          Position,  \* what the move generator may lead to
          Games,     \* positions that may be searched
          Depth,     \* --depth
          MaxNodes   \* --max-tree-nodes

ASSUME GameTreeAssumption == MATE \in Nat /\ INF \in Nat /\ MATE < INF
ASSUME PositionAssumption ==
    \A p \in Position : /\ p.eval \in Int /\ -INF < p.eval /\ p.eval < INF
                        /\ p.next \in Seq(Position)

Terminal(p) == p.kind # "open"

(* Positions whose moves are there for n plies.                              *)
Known[n \in Nat] ==
    IF n = 0 THEN Position
    ELSE LET nearer == Known[n - 1]
         IN  {p \in Position : Terminal(p) \/ (p.next # <<>> /\ p.next \in Seq(nearer))}

ASSUME OptionsAssumption ==
    /\ Depth \in 1 .. 12 /\ Depth < INF /\ MaxNodes \in Nat \ {0}
    /\ Games \subseteq Known[Depth]

(* The score of a node that is not searched further.                         *)
StaticScore(p, ply) ==
    CASE p.kind = "mate"      -> ply - MATE
      [] p.kind = "stalemate" -> 0
      [] p.kind = "drawn"     -> 0
      [] OTHER                -> p.eval

(* What all backends have to compute: the reference, not in the code.        *)
Searched == [board : Position, depth : Nat, ply : Nat]

At(p, depth, ply) == [board |-> p, depth |-> depth, ply |-> ply]

minimax[n \in Searched] ==
    IF Terminal(n.board) \/ n.depth = 0
      THEN StaticScore(n.board, n.ply)
      ELSE Max({-INF} \cup {-minimax[At(n.board.next[i], n.depth - 1, n.ply + 1)] :
                                i \in DOMAIN n.board.next})

Minimax(p, depth, ply) == minimax[At(p, depth, ply)]

(* F(v), for TLC: v is evaluated once.                                       *)
With(v, F(_)) == CHOOSE w \in {F(x) : x \in {v}} : TRUE

(* Mutant: the window is negated but not turned around.                      *)
WindowNegated(alpha, beta) == [alpha |-> -alpha, beta |-> -beta]

(* What the opponent has to stay within.                                     *)
ChildWindow(alpha, beta) == [alpha |-> -beta, beta |-> -alpha]

(* One turn of the loop over the moves: `loop' after the search of a child.  *)
After(loop, child, beta, prune) ==
    LET low == IF prune THEN Max({loop.alpha, -child.score}) ELSE loop.alpha
    IN  [best  |-> Max({loop.best, -child.score}), alpha |-> low,
         nodes |-> loop.nodes + child.nodes, cut |-> prune /\ low >= beta]

(* The arguments of negamax.                                                 *)
Calls == [board : Position, depth : Nat, ply : Nat, alpha : Int, beta : Int, prune : BOOLEAN]

Call(p, depth, ply, alpha, beta, prune) ==
    [board |-> p, depth |-> depth, ply |-> ply, alpha |-> alpha, beta |-> beta, prune |-> prune]

(* The value (fail-soft) and the number of nodes visited.                    *)
negamax[c \in Calls] ==
    LET moves == c.board.next
        Child(q, w) == negamax[Call(q, c.depth - 1, c.ply + 1, w.alpha, w.beta, c.prune)]
        turn[i \in 0 .. Len(moves)] ==
          IF i = 0 THEN [best |-> -INF, alpha |-> c.alpha, nodes |-> 1, cut |-> FALSE]
          ELSE With(turn[i - 1], LAMBDA loop :
                 IF loop.cut THEN loop
                 ELSE With(Child(moves[i], ChildWindow(loop.alpha, c.beta)),
                           LAMBDA child : After(loop, child, c.beta, c.prune)))
        end == turn[Len(moves)]
    IN  IF Terminal(c.board) \/ c.depth = 0
          THEN [score |-> StaticScore(c.board, c.ply), nodes |-> 1]
          ELSE [score |-> end.best, nodes |-> end.nodes]

Negamax(p, depth, ply, alpha, beta, prune) ==
    negamax[Call(p, depth, ply, alpha, beta, prune)]

(* The reduction at the end of every backend: the first of the moves with    *)
(* the highest score.  Moves are counted from 1; 0 is no move (-1).          *)
FirstBest(scores) ==
    LET top == Max({-INF} \cup ToSet(scores))
    IN  [score |-> top,
         move  |-> IF top = -INF THEN 0
                   ELSE CHOOSE i \in DOMAIN scores :
                          scores[i] = top /\ \A j \in 1 .. (i - 1) : scores[j] # top]

(* Backends "serial" (pruned) and "minimax" (not).                           *)
SerialSearch(p, depth, prune) ==
    LET turn[i \in 0 .. Len(p.next)] ==
          IF i = 0 THEN [score |-> -INF, move |-> 0, nodes |-> 1]
          ELSE LET result == turn[i - 1]
                   low    == IF prune THEN result.score ELSE -INF
                   child  == Negamax(p.next[i], depth - 1, 1, -INF, -low, prune)
                   nodes  == result.nodes + child.nodes
               IN  IF -child.score > result.score
                     THEN [score |-> -child.score, move |-> i, nodes |-> nodes]
                     ELSE [result EXCEPT !.nodes = nodes]
    IN  IF Terminal(p)
          THEN [score |-> StaticScore(p, 0), move |-> 0, nodes |-> 1]
          ELSE turn[Len(p.next)]
=============================================================================
